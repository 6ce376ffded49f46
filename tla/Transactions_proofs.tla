------------------------- MODULE Transactions_proofs -------------------------
(* Transactions for any sessions, files, records and number of              *)
(* transactions: what a cache holds, what is left of a transaction that has *)
(* ended, and what is locked while one runs.                                *)
EXTENDS Transactions, SequenceTheorems, FiniteSetTheorems, FunctionTheorems, TLAPS

(* A cache has one action for each record it writes.                        *)
OneEach(c) ==
  \A i, j \in DOMAIN c :
    c[i].mode = "write" /\ c[j].mode = "write" /\ c[i].rec = c[j].rec => i = j

OnlyWrites(c) == \A i \in DOMAIN c : c[i].mode = "write"

FreedIn(c, r) == \E i \in DOMAIN c : IsWriteOf(c[i], r) /\ c[i].freed

-----------------------------------------------------------------------------
(* Sequences.                                                               *)

LEMMA RemoveAtSeq ==
  ASSUME NEW S, NEW q \in Seq(S), NEW i \in DOMAIN q
  PROVE  /\ RemoveAt(q, i) \in Seq(S)
         /\ Len(RemoveAt(q, i)) = Len(q) - 1
         /\ DOMAIN RemoveAt(q, i) = 1 .. (Len(q) - 1)
         /\ \A k \in 1 .. (Len(q) - 1) :
              RemoveAt(q, i)[k] = IF k < i THEN q[k] ELSE q[k + 1]
<1> DEFINE left == SubSeq(q, 1, i - 1)
           right == SubSeq(q, i + 1, Len(q))
<1>1. /\ i \in 1 .. Len(q) /\ Len(q) \in Nat
      /\ \A k \in 1 .. Len(q) : q[k] \in S
  BY LenProperties, ElementOfSeq
<1>2. /\ left \in Seq(S) /\ Len(left) = i - 1
      /\ \A k \in 1 .. (i - 1) : left[k] = q[k]
  <2>1. \A k \in 1 .. (i - 1) : q[k] \in S
    BY <1>1
  <2>2. 1 \in Int /\ i - 1 \in Int
    BY <1>1
  <2>3. /\ left \in Seq(S)
        /\ Len(left) = IF 1 <= i - 1 THEN (i - 1) - 1 + 1 ELSE 0
        /\ \A k \in 1 .. ((i - 1) - 1 + 1) : left[k] = q[1 + k - 1]
    BY <2>1, <2>2, SubSeqProperties
  <2>4. QED
    BY <1>1, <2>3
<1>3. /\ right \in Seq(S) /\ Len(right) = Len(q) - i
      /\ \A k \in 1 .. (Len(q) - i) : right[k] = q[i + k]
  <2>1. \A k \in (i + 1) .. Len(q) : q[k] \in S
    BY <1>1
  <2>2. i + 1 \in Int /\ Len(q) \in Int
    BY <1>1
  <2>3. /\ right \in Seq(S)
        /\ Len(right) = IF i + 1 <= Len(q) THEN Len(q) - (i + 1) + 1 ELSE 0
        /\ \A k \in 1 .. (Len(q) - (i + 1) + 1) : right[k] = q[(i + 1) + k - 1]
    BY <2>1, <2>2, SubSeqProperties
  <2>4. QED
    BY <1>1, <2>3
<1>4. /\ left \o right \in Seq(S)
      /\ Len(left \o right) = Len(left) + Len(right)
      /\ \A k \in 1 .. Len(left) + Len(right) :
           (left \o right)[k] = IF k <= Len(left) THEN left[k] ELSE right[k - Len(left)]
  BY <1>2, <1>3, ConcatProperties
<1>5. RemoveAt(q, i) = left \o right
  BY DEF RemoveAt
<1> HIDE DEF left, right
<1>6. Len(left) + Len(right) = Len(q) - 1
  BY <1>1, <1>2, <1>3
<1>7. ASSUME NEW k \in 1 .. (Len(q) - 1)
      PROVE  (left \o right)[k] = IF k < i THEN q[k] ELSE q[k + 1]
  <2>1. CASE k < i
    BY <2>1, <1>1, <1>2, <1>4, <1>6
  <2>2. CASE ~(k < i)
    <3>1. ~(k <= Len(left)) /\ k - Len(left) \in 1 .. (Len(q) - i)
      BY <2>2, <1>1, <1>2
    <3>2. (left \o right)[k] = right[k - Len(left)]
      BY <3>1, <1>4, <1>6
    <3>3. right[k - Len(left)] = q[i + (k - (i - 1))]
      BY <3>1, <1>2, <1>3
    <3>4. QED
      BY <3>2, <3>3, <2>2, <1>1
  <2>3. QED
    BY <2>1, <2>2
<1>8. DOMAIN (left \o right) = 1 .. (Len(q) - 1)
  BY <1>4, <1>6, LenProperties
<1>9. QED
  BY <1>4, <1>5, <1>6, <1>7, <1>8

(* Putting one element before a sequence.                                   *)
LEMMA PushSeq ==
  ASSUME NEW S, NEW q \in Seq(S), NEW e \in S
  PROVE  /\ <<e>> \o q \in Seq(S)
         /\ Len(<<e>> \o q) = Len(q) + 1
         /\ DOMAIN (<<e>> \o q) = 1 .. (Len(q) + 1)
         /\ (<<e>> \o q)[1] = e
         /\ \A k \in 2 .. (Len(q) + 1) : (<<e>> \o q)[k] = q[k - 1]
<1>1. <<e>> \in Seq(S) /\ Len(<<e>>) = 1 /\ <<e>>[1] = e
  OBVIOUS
<1>2. Len(q) \in Nat
  BY LenProperties
<1>3. /\ <<e>> \o q \in Seq(S)
      /\ Len(<<e>> \o q) = 1 + Len(q)
      /\ \A i \in 1 .. 1 + Len(q) :
           (<<e>> \o q)[i] = IF i <= 1 THEN <<e>>[i] ELSE q[i - 1]
  BY <1>1, ConcatProperties
<1>4. DOMAIN (<<e>> \o q) = 1 .. (Len(q) + 1)
  BY <1>2, <1>3, LenProperties
<1>5. QED
  BY <1>1, <1>2, <1>3, <1>4
-----------------------------------------------------------------------------
(* The cache: what each operation on it keeps.                              *)

LEMMA ActionShape ==
  /\ \A a \in Actions : /\ a.mode \in {"write", "close"}
                        /\ a.freed \in BOOLEAN
                        /\ a.mode = "write" => a.rec \in Recs /\ a.val \in Contents
                        /\ a.mode = "close" => a.file \in Files
  /\ \A r \in Recs, v \in Contents :
       /\ Write(r, v) \in Actions
       /\ Write(r, v).mode = "write" /\ Write(r, v).rec = r
       /\ Write(r, v).val = v /\ Write(r, v).freed = FALSE
  /\ \A f \in Files : /\ CloseOf(f) \in Actions
                      /\ CloseOf(f).mode = "close"
                      /\ CloseOf(f).freed = FALSE
  /\ \A a \in Actions, v \in Contents : a.mode = "write" =>
       /\ [a EXCEPT !.val = v] \in Actions
       /\ [a EXCEPT !.val = v].mode = "write"
       /\ [a EXCEPT !.val = v].rec = a.rec
       /\ [a EXCEPT !.val = v].val = v
       /\ [a EXCEPT !.val = v].freed = a.freed
  /\ \A a \in Actions :
       /\ [a EXCEPT !.freed = TRUE] \in Actions
       /\ [a EXCEPT !.freed = TRUE].mode = a.mode
       /\ [a EXCEPT !.freed = TRUE].freed = TRUE
       /\ a.mode = "write" => /\ [a EXCEPT !.freed = TRUE].rec = a.rec
                              /\ [a EXCEPT !.freed = TRUE].val = a.val
<1>1. \A a \in Actions : /\ a.mode \in {"write", "close"}
                         /\ a.freed \in BOOLEAN
                         /\ a.mode = "write" => a.rec \in Recs /\ a.val \in Contents
                         /\ a.mode = "close" => a.file \in Files
  BY DEF Actions
<1>2. \A r \in Recs, v \in Contents :
        /\ Write(r, v) \in Actions
        /\ Write(r, v).mode = "write" /\ Write(r, v).rec = r
        /\ Write(r, v).val = v /\ Write(r, v).freed = FALSE
  BY DEF Actions, Write
<1>3. \A f \in Files : /\ CloseOf(f) \in Actions
                       /\ CloseOf(f).mode = "close"
                       /\ CloseOf(f).freed = FALSE
  BY DEF Actions, CloseOf
<1>4. \A a \in Actions, v \in Contents : a.mode = "write" =>
        /\ [a EXCEPT !.val = v] \in Actions
        /\ [a EXCEPT !.val = v].mode = "write"
        /\ [a EXCEPT !.val = v].rec = a.rec
        /\ [a EXCEPT !.val = v].val = v
        /\ [a EXCEPT !.val = v].freed = a.freed
  BY DEF Actions
<1>5. \A a \in Actions :
        /\ [a EXCEPT !.freed = TRUE] \in Actions
        /\ [a EXCEPT !.freed = TRUE].mode = a.mode
        /\ [a EXCEPT !.freed = TRUE].freed = TRUE
        /\ a.mode = "write" => /\ [a EXCEPT !.freed = TRUE].rec = a.rec
                               /\ [a EXCEPT !.freed = TRUE].val = a.val
  BY DEF Actions
<1>6. QED
  BY <1>1, <1>2, <1>3, <1>4, <1>5

LEMMA WriteAtFound ==
  ASSUME NEW c, NEW r, HasWrite(c, r)
  PROVE  WriteAt(c, r) \in DOMAIN c /\ IsWriteOf(c[WriteAt(c, r)], r)
BY DEF HasWrite, WriteAt

(* With one action for each record, the write of a record is the one found. *)
LEMMA WriteAtOnly ==
  ASSUME NEW c, NEW r, NEW i \in DOMAIN c, OneEach(c), IsWriteOf(c[i], r)
  PROVE  HasWrite(c, r) /\ WriteAt(c, r) = i /\ CachedIn(c, r) = c[i].val
<1>1. HasWrite(c, r)
  BY DEF HasWrite
<1>2. WriteAt(c, r) = i
  BY <1>1, WriteAtFound DEF OneEach, IsWriteOf
<1>3. QED
  BY <1>1, <1>2 DEF CachedIn

(* txn_write and txn_delete add a write of the record and nothing else.     *)
LEMMA DeferredCache ==
  ASSUME NEW c \in Seq(Actions), NEW r \in Recs, NEW v \in Contents
  PROVE  /\ Deferred(c, r, v) \in Seq(Actions)
         /\ OneEach(c) => OneEach(Deferred(c, r, v))
         /\ OnlyWrites(c) => OnlyWrites(Deferred(c, r, v))
         /\ \A q : HasWrite(Deferred(c, r, v), q) <=> HasWrite(c, q) \/ q = r
         /\ \A q : FreedIn(Deferred(c, r, v), q) => FreedIn(c, q)
         /\ OneEach(c) => \A q : CachedIn(Deferred(c, r, v), q) =
                                   IF q = r THEN v ELSE CachedIn(c, q)
<1> DEFINE d == Deferred(c, r, v)
<1>1. CASE HasWrite(c, r)
  <2> DEFINE w == WriteAt(c, r)
             e == [c[w] EXCEPT !.val = v]
  <2>1. w \in DOMAIN c /\ IsWriteOf(c[w], r)
    BY <1>1, WriteAtFound
  <2>2. c[w] \in Actions /\ w \in 1 .. Len(c)
    BY <2>1, LenProperties, ElementOfSeq
  <2>3. d = [c EXCEPT ![w] = e]
    BY <1>1 DEF Deferred
  <2>4. /\ e \in Actions /\ e.mode = "write" /\ e.rec = r
        /\ e.val = v /\ e.freed = c[w].freed
    BY <2>1, <2>2, ActionShape DEF IsWriteOf
  <2> HIDE DEF d, w, e
  <2>5. d \in Seq(Actions) /\ DOMAIN d = DOMAIN c
    BY <2>2, <2>3, <2>4, ExceptSeq, LenProperties
  <2>6. \A i \in DOMAIN c : d[i] = IF i = w THEN e ELSE c[i]
    BY <2>3
  <2>7. \A i \in DOMAIN c : /\ \A q : IsWriteOf(d[i], q) <=> IsWriteOf(c[i], q)
                            /\ d[i].mode = c[i].mode /\ d[i].freed = c[i].freed
                            /\ d[i].mode = "write" => d[i].rec = c[i].rec
    BY <2>1, <2>4, <2>6 DEF IsWriteOf
  <2>8. OneEach(c) => OneEach(d)
    BY <2>5, <2>7 DEF OneEach
  <2>9. OnlyWrites(c) => OnlyWrites(d)
    BY <2>5, <2>7 DEF OnlyWrites
  <2>10. \A q : HasWrite(d, q) <=> HasWrite(c, q) \/ q = r
    BY <1>1, <2>5, <2>7 DEF HasWrite
  <2>11. \A q : FreedIn(d, q) => FreedIn(c, q)
    BY <2>5, <2>7 DEF FreedIn
  <2>12. ASSUME OneEach(c), NEW q
         PROVE  CachedIn(d, q) = IF q = r THEN v ELSE CachedIn(c, q)
    <3>1. CASE q = r
      <4>1. IsWriteOf(d[w], q)
        BY <2>1, <2>7, <3>1
      <4>2. CachedIn(d, q) = d[w].val
        BY <4>1, <2>1, <2>5, <2>8, <2>12, WriteAtOnly
      <4>3. QED
        BY <4>2, <3>1, <2>1, <2>4, <2>6
    <3>2. CASE q # r /\ HasWrite(c, q)
      <4>1. PICK i \in DOMAIN c : IsWriteOf(c[i], q)
        BY <3>2 DEF HasWrite
      <4>2. i # w /\ d[i] = c[i]
        BY <4>1, <3>2, <2>1, <2>6 DEF IsWriteOf
      <4>3. CachedIn(c, q) = c[i].val
        BY <4>1, <2>12, WriteAtOnly
      <4>4. CachedIn(d, q) = d[i].val
        BY <4>1, <4>2, <2>5, <2>8, <2>12, WriteAtOnly
      <4>5. QED
        BY <3>2, <4>2, <4>3, <4>4
    <3>3. CASE q # r /\ ~HasWrite(c, q)
      BY <3>3, <2>10 DEF CachedIn
    <3>4. QED
      BY <3>1, <3>2, <3>3
  <2>13. QED
    BY <2>5, <2>8, <2>9, <2>10, <2>11, <2>12 DEF d
<1>2. CASE ~HasWrite(c, r)
  <2> DEFINE e == Write(r, v)
             n == Len(c) + 1
  <2>1. e \in Actions /\ e.mode = "write" /\ e.rec = r /\ e.val = v /\ e.freed = FALSE
    BY ActionShape
  <2>2. d = Append(c, e)
    BY <1>2 DEF Deferred
  <2> HIDE DEF d, e
  <2>3. /\ d \in Seq(Actions) /\ Len(d) = n
        /\ \A i \in 1 .. Len(c) : d[i] = c[i]
        /\ d[n] = e
    BY <2>1, <2>2, AppendProperties
  <2>4. /\ DOMAIN c = 1 .. Len(c) /\ DOMAIN d = 1 .. n /\ Len(c) \in Nat
    BY <2>3, LenProperties
  <2>5. \A i \in DOMAIN d : i \in DOMAIN c \/ i = n
    BY <2>4
  <2>5a. /\ n \notin DOMAIN c /\ n \in DOMAIN d
         /\ \A i \in DOMAIN c : i \in DOMAIN d /\ d[i] = c[i]
    BY <2>3, <2>4
  <2> HIDE DEF n
  <2>6. \A q : IsWriteOf(d[n], q) <=> q = r
    BY <2>1, <2>3 DEF IsWriteOf
  <2>7. OneEach(c) => OneEach(d)
    <3>1. \A i \in DOMAIN c : ~(c[i].mode = "write" /\ c[i].rec = r)
      BY <1>2 DEF HasWrite, IsWriteOf
    <3>2. QED
      BY <3>1, <2>1, <2>3, <2>5, <2>5a DEF OneEach
  <2>8. OnlyWrites(c) => OnlyWrites(d)
    BY <2>1, <2>3, <2>5, <2>5a DEF OnlyWrites
  <2>9. \A q : HasWrite(d, q) <=> HasWrite(c, q) \/ q = r
    BY <2>5, <2>5a, <2>6 DEF HasWrite
  <2>10. \A q : FreedIn(d, q) => FreedIn(c, q)
    BY <2>1, <2>3, <2>5, <2>5a DEF FreedIn
  <2>11. ASSUME OneEach(c), NEW q
         PROVE  CachedIn(d, q) = IF q = r THEN v ELSE CachedIn(c, q)
    <3>1. CASE q = r
      <4>1. CachedIn(d, q) = d[n].val
        BY <3>1, <2>5a, <2>6, <2>7, <2>11, WriteAtOnly
      <4>2. QED
        BY <4>1, <3>1, <2>1, <2>3
    <3>2. CASE q # r /\ HasWrite(c, q)
      <4>1. PICK i \in DOMAIN c : IsWriteOf(c[i], q)
        BY <3>2 DEF HasWrite
      <4>2. CachedIn(c, q) = c[i].val
        BY <4>1, <2>11, WriteAtOnly
      <4>3. CachedIn(d, q) = d[i].val
        BY <4>1, <2>5a, <2>7, <2>11, WriteAtOnly
      <4>4. QED
        BY <3>2, <4>2, <4>3, <2>5a
    <3>3. CASE q # r /\ ~HasWrite(c, q)
      BY <3>3, <2>9 DEF CachedIn
    <3>4. QED
      BY <3>1, <3>2, <3>3
  <2>12. QED
    BY <2>3, <2>7, <2>8, <2>9, <2>10, <2>11 DEF d
<1>3. QED
  BY <1>1, <1>2
(* An action taken out of a cache.                                          *)
LEMMA RemovedCache ==
  ASSUME NEW c \in Seq(Actions), NEW i \in DOMAIN c
  PROVE  /\ RemoveAt(c, i) \in Seq(Actions)
         /\ OneEach(c) => OneEach(RemoveAt(c, i))
         /\ OnlyWrites(c) => OnlyWrites(RemoveAt(c, i))
         /\ \A q : HasWrite(RemoveAt(c, i), q) <=>
                     \E j \in DOMAIN c : j # i /\ IsWriteOf(c[j], q)
         /\ \A q : FreedIn(RemoveAt(c, i), q) => FreedIn(c, q)
<1> DEFINE d == RemoveAt(c, i)
           old(k) == IF k < i THEN k ELSE k + 1
<1>1. /\ d \in Seq(Actions) /\ DOMAIN d = 1 .. (Len(c) - 1)
      /\ \A k \in 1 .. (Len(c) - 1) : d[k] = IF k < i THEN c[k] ELSE c[k + 1]
  BY RemoveAtSeq
<1> HIDE DEF d
<1>2. DOMAIN c = 1 .. Len(c) /\ Len(c) \in Nat /\ i \in 1 .. Len(c)
  BY LenProperties
<1>3. \A k \in DOMAIN d : old(k) \in DOMAIN c /\ old(k) # i /\ d[k] = c[old(k)]
  BY <1>1, <1>2
<1>4. \A j, k \in DOMAIN d : old(j) = old(k) => j = k
  BY <1>1, <1>2
<1>5. \A j \in DOMAIN c : j # i => \E k \in DOMAIN d : old(k) = j
  <2> TAKE j \in DOMAIN c
  <2> HAVE j # i
  <2>1. CASE j < i
    BY <2>1, <1>1, <1>2
  <2>2. CASE j > i
    <3>1. j - 1 \in DOMAIN d /\ old(j - 1) = j
      BY <2>2, <1>1, <1>2
    <3>2. QED
      BY <3>1
  <2>3. QED
    BY <2>1, <2>2, <1>2
<1> HIDE DEF old
<1>6. OneEach(c) => OneEach(d)
  BY <1>3, <1>4 DEF OneEach
<1>7. OnlyWrites(c) => OnlyWrites(d)
  BY <1>3 DEF OnlyWrites
<1>8. \A q : HasWrite(d, q) <=> \E j \in DOMAIN c : j # i /\ IsWriteOf(c[j], q)
  BY <1>3, <1>5 DEF HasWrite
<1>9. \A q : FreedIn(d, q) => FreedIn(c, q)
  BY <1>3 DEF FreedIn
<1>10. QED
  BY <1>1, <1>6, <1>7, <1>8, <1>9 DEF d

(* clear_parent leaves no write of the record and every other one.          *)
LEMMA ForgetCache ==
  ASSUME NEW c \in Seq(Actions), NEW r
  PROVE  /\ Forget(c, r) \in Seq(Actions)
         /\ OneEach(c) => OneEach(Forget(c, r))
         /\ OneEach(c) => \A q : HasWrite(Forget(c, r), q) <=> HasWrite(c, q) /\ q # r
         /\ \A q : HasWrite(Forget(c, r), q) => HasWrite(c, q)
         /\ \A q : FreedIn(Forget(c, r), q) => FreedIn(c, q)
<1>1. CASE HasWrite(c, r)
  <2> DEFINE w == WriteAt(c, r)
  <2>1. w \in DOMAIN c /\ IsWriteOf(c[w], r)
    BY <1>1, WriteAtFound
  <2>2. Forget(c, r) = RemoveAt(c, w)
    BY <1>1 DEF Forget
  <2> HIDE DEF w
  <2>3. /\ RemoveAt(c, w) \in Seq(Actions)
        /\ OneEach(c) => OneEach(RemoveAt(c, w))
        /\ \A q : HasWrite(RemoveAt(c, w), q) <=>
                    \E j \in DOMAIN c : j # w /\ IsWriteOf(c[j], q)
        /\ \A q : FreedIn(RemoveAt(c, w), q) => FreedIn(c, q)
    BY <2>1, RemovedCache
  <2>4. ASSUME OneEach(c), NEW q
        PROVE  (\E j \in DOMAIN c : j # w /\ IsWriteOf(c[j], q)) <=> HasWrite(c, q) /\ q # r
    BY <2>1, <2>4 DEF OneEach, HasWrite, IsWriteOf
  <2>5. \A q : HasWrite(RemoveAt(c, w), q) => HasWrite(c, q)
    BY <2>3 DEF HasWrite
  <2>6. QED
    BY <2>2, <2>3, <2>4, <2>5
<1>2. CASE ~HasWrite(c, r)
  BY <1>2 DEF Forget
<1>3. QED
  BY <1>1, <1>2

(* The commit has applied action i and freed it.                            *)
LEMMA AppliedCache ==
  ASSUME NEW c \in Seq(Actions), NEW i \in DOMAIN c
  PROVE  /\ [c EXCEPT ![i].freed = TRUE] \in Seq(Actions)
         /\ Len([c EXCEPT ![i].freed = TRUE]) = Len(c)
         /\ DOMAIN [c EXCEPT ![i].freed = TRUE] = DOMAIN c
         /\ \A j \in DOMAIN c :
              /\ [c EXCEPT ![i].freed = TRUE][j].mode = c[j].mode
              /\ [c EXCEPT ![i].freed = TRUE][j].freed <=> c[j].freed \/ j = i
              /\ c[j].mode = "write" =>
                   /\ [c EXCEPT ![i].freed = TRUE][j].rec = c[j].rec
                   /\ [c EXCEPT ![i].freed = TRUE][j].val = c[j].val
         /\ OneEach(c) => OneEach([c EXCEPT ![i].freed = TRUE])
         /\ OnlyWrites(c) => OnlyWrites([c EXCEPT ![i].freed = TRUE])
         /\ \A q : HasWrite([c EXCEPT ![i].freed = TRUE], q) <=> HasWrite(c, q)
         /\ \A q : FreedIn([c EXCEPT ![i].freed = TRUE], q) <=>
                     FreedIn(c, q) \/ IsWriteOf(c[i], q)
         /\ OneEach(c) => \A q : CachedIn([c EXCEPT ![i].freed = TRUE], q) = CachedIn(c, q)
<1> DEFINE e == [c[i] EXCEPT !.freed = TRUE]
           d == [c EXCEPT ![i].freed = TRUE]
<1>1. /\ i \in 1 .. Len(c) /\ DOMAIN c = 1 .. Len(c)
      /\ \A j \in DOMAIN c : c[j] \in Actions
  BY LenProperties, ElementOfSeq
<1>2. /\ e \in Actions /\ e.mode = c[i].mode /\ e.freed = TRUE
      /\ c[i].mode = "write" => e.rec = c[i].rec /\ e.val = c[i].val
  BY <1>1, ActionShape
<1>3. d = [c EXCEPT ![i] = e]
  OBVIOUS
<1> HIDE DEF d, e
<1>4. d \in Seq(Actions) /\ Len(d) = Len(c) /\ DOMAIN d = DOMAIN c
  BY <1>1, <1>2, <1>3, ExceptSeq, LenProperties
<1>5. \A j \in DOMAIN c : d[j] = IF j = i THEN e ELSE c[j]
  BY <1>3
<1>6. \A j \in DOMAIN c : c[j].freed \in BOOLEAN
  BY <1>1, ActionShape
<1>7. \A j \in DOMAIN c : /\ d[j].mode = c[j].mode
                          /\ d[j].freed <=> c[j].freed \/ j = i
                          /\ c[j].mode = "write" => d[j].rec = c[j].rec /\ d[j].val = c[j].val
  BY <1>2, <1>5, <1>6
<1>8. \A j \in DOMAIN c : \A q : IsWriteOf(d[j], q) <=> IsWriteOf(c[j], q)
  BY <1>7 DEF IsWriteOf
<1>9. OneEach(c) => OneEach(d)
  BY <1>4, <1>7 DEF OneEach
<1>10. OnlyWrites(c) => OnlyWrites(d)
  BY <1>4, <1>7 DEF OnlyWrites
<1>11. \A q : HasWrite(d, q) <=> HasWrite(c, q)
  BY <1>4, <1>8 DEF HasWrite
<1>12. \A q : FreedIn(d, q) <=> FreedIn(c, q) \/ IsWriteOf(c[i], q)
  BY <1>4, <1>7, <1>8 DEF FreedIn
<1>13. ASSUME OneEach(c), NEW q
       PROVE  CachedIn(d, q) = CachedIn(c, q)
  <2>1. CASE HasWrite(c, q)
    <3>1. PICK j \in DOMAIN c : IsWriteOf(c[j], q)
      BY <2>1 DEF HasWrite
    <3>2. CachedIn(c, q) = c[j].val
      BY <1>13, <3>1, WriteAtOnly
    <3>3. CachedIn(d, q) = d[j].val
      BY <1>4, <1>8, <1>9, <1>13, <3>1, WriteAtOnly
    <3>4. QED
      BY <1>7, <3>1, <3>2, <3>3 DEF IsWriteOf
  <2>2. CASE ~HasWrite(c, q)
    BY <2>2, <1>11 DEF CachedIn
  <2>3. QED
    BY <2>1, <2>2
<1>14. QED
  BY <1>4, <1>7, <1>9, <1>10, <1>11, <1>12, <1>13 DEF d

(* txn_close.                                                               *)
LEMMA ClosedCache ==
  ASSUME NEW c \in Seq(Actions), NEW f \in Files
  PROVE  /\ Append(c, CloseOf(f)) \in Seq(Actions)
         /\ OneEach(c) => OneEach(Append(c, CloseOf(f)))
         /\ \A q : HasWrite(Append(c, CloseOf(f)), q) <=> HasWrite(c, q)
         /\ \A q : FreedIn(Append(c, CloseOf(f)), q) => FreedIn(c, q)
<1> DEFINE e == CloseOf(f)
           d == Append(c, e)
           n == Len(c) + 1
<1>1. e \in Actions /\ e.mode = "close"
  BY ActionShape
<1> HIDE DEF e
<1>2. /\ d \in Seq(Actions) /\ Len(d) = n
      /\ \A i \in 1 .. Len(c) : d[i] = c[i]
      /\ d[n] = e
  BY <1>1, AppendProperties
<1>3. /\ DOMAIN c = 1 .. Len(c) /\ DOMAIN d = 1 .. n /\ Len(c) \in Nat
  BY <1>2, LenProperties
<1>4. /\ \A i \in DOMAIN d : i \in DOMAIN c \/ i = n
      /\ \A i \in DOMAIN c : i \in DOMAIN d /\ d[i] = c[i]
      /\ d[n].mode = "close"
  BY <1>1, <1>2, <1>3
<1> HIDE DEF d, n
<1>5. OneEach(c) => OneEach(d)
  BY <1>4 DEF OneEach
<1>6. \A q : HasWrite(d, q) <=> HasWrite(c, q)
  BY <1>4 DEF HasWrite, IsWriteOf
<1>7. \A q : FreedIn(d, q) => FreedIn(c, q)
  BY <1>4 DEF FreedIn, IsWriteOf
<1>8. QED
  BY <1>2, <1>5, <1>6, <1>7 DEF d, e
-----------------------------------------------------------------------------
(* The stack of outer transactions and the before images.                   *)

LEMMA ClearParentSeq ==
  ASSUME NEW ids, NEW st \in Seq(Outers(ids)), NEW r
  PROVE  /\ ClearParent(st, r) \in Seq(Outers(ids))
         /\ Len(ClearParent(st, r)) = Len(st)
         /\ DOMAIN ClearParent(st, r) = DOMAIN st
         /\ \A i \in DOMAIN st : /\ ClearParent(st, r)[i].txn = st[i].txn
                                 /\ ClearParent(st, r)[i].level = st[i].level
                                 /\ ClearParent(st, r)[i].cache = Forget(st[i].cache, r)
<1> DEFINE d == ClearParent(st, r)
           e(i) == [st[i] EXCEPT !.cache = Forget(@, r)]
<1>1. /\ DOMAIN st = 1 .. Len(st) /\ Len(st) \in Nat
      /\ \A i \in DOMAIN st : st[i] \in Outers(ids)
  BY LenProperties, ElementOfSeq
<1>2. \A o \in Outers(ids) :
        /\ o.cache \in Seq(Actions)
        /\ \A c \in Seq(Actions) : /\ [o EXCEPT !.cache = c] \in Outers(ids)
                                   /\ [o EXCEPT !.cache = c].txn = o.txn
                                   /\ [o EXCEPT !.cache = c].level = o.level
                                   /\ [o EXCEPT !.cache = c].cache = c
  BY DEF Outers
<1>3. \A i \in DOMAIN st : /\ e(i) \in Outers(ids)
                           /\ e(i).txn = st[i].txn /\ e(i).level = st[i].level
                           /\ e(i).cache = Forget(st[i].cache, r)
  BY <1>1, <1>2, ForgetCache
<1>4. d = [i \in 1 .. Len(st) |-> e(i)]
  BY <1>1 DEF ClearParent
<1> HIDE DEF d, e
<1>5. d \in [1 .. Len(st) -> Outers(ids)]
  BY <1>1, <1>3, <1>4
<1>6. d \in Seq(Outers(ids))
  BY <1>1, <1>5, SeqDef
<1>7. DOMAIN d = 1 .. Len(st)
  BY <1>4
<1>8. Len(d) = Len(st)
  BY <1>1, <1>6, <1>7, LenProperties
<1>9. QED
  BY <1>1, <1>3, <1>4, <1>6, <1>7, <1>8 DEF d

-----------------------------------------------------------------------------
(* Types.                                                                   *)

LEMMA IdsTyped == TypeOK => 0 \in Ids /\ nextTxn \in Nat /\ Ids \subseteq Nat
BY DEF TypeOK, Ids

LEMMA LevelsTyped == 1 \in Levels /\ Levels \subseteq Nat /\ NoneBegun \in [Levels -> Nat]
BY TxnConstants DEF Levels, NoneBegun

LEMMA UnlockTyped ==
  ASSUME TypeOK, NEW rs, Unlock(rs), UNCHANGED nextTxn
  PROVE  lock' \in [Recs -> [owner : Sessions, txn : Ids'] \cup {NoLock}]
BY DEF TypeOK, Unlock, Ids

LEMMA EndLevelTyped ==
  ASSUME TypeOK, NEW s \in Sessions, EndLevel(s), UNCHANGED nextTxn
  PROVE  /\ txn' \in [Sessions -> Ids']
         /\ cache' \in [Sessions -> Seq(Actions)]
         /\ stack' \in [Sessions -> Seq(Outers(Ids'))]
         /\ txnLevel' \in [Sessions -> Levels]
         /\ depth' \in [Sessions -> Int]
<1>1. Ids' = Ids
  BY DEF Ids
<1>2. /\ txn \in [Sessions -> Ids] /\ cache \in [Sessions -> Seq(Actions)]
      /\ stack \in [Sessions -> Seq(Outers(Ids))] /\ txnLevel \in [Sessions -> Levels]
      /\ depth \in [Sessions -> Int]
  BY DEF TypeOK, Outers
<1>3. depth' \in [Sessions -> Int]
  BY <1>2 DEF EndLevel
<1>4. CASE stack[s] = <<>>
  <2>1. /\ txn' = [txn EXCEPT ![s] = 0] /\ cache' = [cache EXCEPT ![s] = <<>>]
        /\ stack' = stack /\ txnLevel' = txnLevel
    BY <1>4 DEF EndLevel
  <2>2. 0 \in Ids /\ <<>> \in Seq(Actions)
    BY IdsTyped, EmptySeq
  <2>3. QED
    BY <1>1, <1>2, <1>3, <2>1, <2>2
<1>5. CASE stack[s] # <<>>
  <2>1. Head(stack[s]) \in Outers(Ids) /\ Tail(stack[s]) \in Seq(Outers(Ids))
    BY <1>2, <1>5, HeadTailProperties
  <2>2. /\ Head(stack[s]).txn \in Ids /\ Head(stack[s]).level \in Levels
        /\ Head(stack[s]).cache \in Seq(Actions)
    BY <2>1 DEF Outers
  <2>3. QED
    BY <1>1, <1>2, <1>3, <1>5, <2>1, <2>2 DEF EndLevel
<1>6. QED
  BY <1>4, <1>5
LEMMA GotoTyped ==
  ASSUME TypeOK, NEW s \in Sessions, NEW where \in Places, Goto(s, where)
  PROVE  at' \in [Sessions -> Places] /\ pos' \in [Sessions -> Nat \ {0}]
<1>1. at \in [Sessions -> Places] /\ pos \in [Sessions -> Nat \ {0}]
  BY DEF TypeOK, Places
<1>2. 1 \in Nat \ {0}
  OBVIOUS
<1>3. QED
  BY <1>1, <1>2 DEF Goto

(* The program COMMIT ends the transaction of has one begun.                *)
CommitBegun == \A s \in Sessions : Committing(s) => begun[s][level[s]] > 0

LEMMA TypeStep ==
  ASSUME TypeOK, CommitBegun, [Next]_vars
  PROVE  TypeOK'
<1> USE DEF TypeOK, Ids, cached, program, doing
<1>0. /\ \A s \in Sessions : /\ cache[s] \in Seq(Actions)
                             /\ stack[s] \in Seq(Outers(Ids))
                             /\ undo[s] \in Seq(Images)
      /\ 1 \in Levels /\ Levels \subseteq Nat /\ NoneBegun \in [Levels -> Nat]
      /\ 0 \in Ids
  BY IdsTyped, LevelsTyped
<1>0a. level \in [Sessions -> Levels] /\ begun \in [Sessions -> [Levels -> Nat]]
  OBVIOUS
<1>0b. MaxLevel \in Nat \ {0}
  BY TxnConstants
<1>1. ASSUME NEW s \in Sessions, NEW r \in Recs, LockRec(s, r)
      PROVE  TypeOK'
  BY <1>1 DEF LockRec
<1>2. ASSUME NEW s \in Sessions, NEW r \in Recs, Release(s, r)
      PROVE  TypeOK'
  BY <1>2 DEF Release, Unlock
<1>3. ASSUME NEW s \in Sessions, NEW r \in Recs, NEW v \in Contents, PutLater(s, r, v)
      PROVE  TypeOK'
  <2>1. Deferred(cache[s], r, v) \in Seq(Actions)
    BY <1>0, DeferredCache
  <2>2. QED
    BY <1>3, <2>1 DEF PutLater, Defer
<1>4. ASSUME NEW s \in Sessions, NEW r \in Recs, NEW v \in Contents,
             NEW keep \in BOOLEAN, PutNow(s, r, v, keep)
      PROVE  TypeOK'
  BY <1>4 DEF PutNow, Unlock
<1>5. ASSUME NEW s \in Sessions, NEW f \in Files, Close(s, f)
      PROVE  TypeOK'
  <2>1. Append(cache[s], CloseOf(f)) \in Seq(Actions)
    BY <1>0, ClosedCache
  <2>2. cache' \in [Sessions -> Seq(Actions)]
    BY <1>5, <2>1 DEF Close
  <2>3. lock' \in [Recs -> [owner : Sessions, txn : Ids] \cup {NoLock}]
    BY <1>5 DEF Close, Unlock
  <2>4. QED
    BY <1>5, <2>2, <2>3 DEF Close
<1>6. ASSUME NEW s \in Sessions, NEW f \in Files, Reopen(s, f)
      PROVE  TypeOK'
  <2>1. \A i \in DOMAIN cache[s] : RemoveAt(cache[s], i) \in Seq(Actions)
    BY <1>0, RemovedCache
  <2>2. cache' \in [Sessions -> Seq(Actions)] /\ open' \in [Sessions -> SUBSET Files]
    BY <1>6, <2>1 DEF Reopen
  <2>3. /\ UNCHANGED <<disk, lock, nextTxn, txn, stack, txnLevel, depth, commitId>>
        /\ UNCHANGED <<undo, level, begun, quota, at, pos>>
    BY <1>6 DEF Reopen
  <2>4. QED
    BY <2>2, <2>3
<1>7. ASSUME NEW s \in Sessions, Begin(s)
      PROVE  TypeOK'
  <2>1. Ids' = Ids \cup {nextTxn} /\ nextTxn' \in Nat \ {0} /\ nextTxn \in Ids'
    <3>1. nextTxn \in Nat \ {0} /\ nextTxn' = nextTxn + 1
      BY <1>7 DEF Begin
    <3> HIDE DEF TypeOK
    <3>2. QED
      BY <3>1 DEF Ids
  <2>2. \A t \in Sessions : stack[t] \in Seq(Outers(Ids'))
    <3>1. Outers(Ids) \subseteq Outers(Ids')
      BY <2>1 DEF Outers
    <3>2. Seq(Outers(Ids)) \subseteq Seq(Outers(Ids'))
      BY <3>1, SeqMonotonic
    <3>3. QED
      BY <1>0, <3>2
  <2>3. stack' \in [Sessions -> Seq(Outers(Ids'))] /\ cache' \in [Sessions -> Seq(Actions)]
    <3>1. CASE txn[s] = 0
      BY <1>7, <3>1, <2>2 DEF Begin
    <3>2. CASE txn[s] # 0
      <4> DEFINE o == [txn |-> txn[s], level |-> level[s], cache |-> cache[s]]
      <4>1. o \in Outers(Ids')
        BY <1>0, <2>1 DEF Outers
      <4>2. <<o>> \o stack[s] \in Seq(Outers(Ids'))
        BY <2>2, <4>1, PushSeq
      <4>3. stack' = [stack EXCEPT ![s] = <<o>> \o @] /\ cache' = [cache EXCEPT ![s] = <<>>]
        BY <1>7, <3>2 DEF Begin
      <4> HIDE DEF o
      <4>4. QED
        BY <2>2, <4>2, <4>3, EmptySeq
    <3>3. QED
      BY <3>1, <3>2
  <2>4. lock' \in [Recs -> [owner : Sessions, txn : Ids'] \cup {NoLock}]
    BY <1>7, <2>1 DEF Begin
  <2>5. txn' \in [Sessions -> Ids'] /\ commitId' \in [Sessions -> Ids']
    BY <1>7, <2>1 DEF Begin
  <2>6. depth' \in [Sessions -> Int] /\ txnLevel' \in [Sessions -> Levels]
    <3>1. depth' = [depth EXCEPT ![s] = @ + 1] /\ txnLevel' = [txnLevel EXCEPT ![s] = level[s]]
      BY <1>7 DEF Begin
    <3>2. depth \in [Sessions -> Int] /\ txnLevel \in [Sessions -> Levels]
      OBVIOUS
    <3> HIDE DEF TypeOK
    <3>3. QED
      BY <1>0a, <3>1, <3>2
  <2>7. begun' \in [Sessions -> [Levels -> Nat]] /\ quota' \in [Sessions -> Nat]
    <3>1. /\ begun' = [begun EXCEPT ![s][level[s]] = @ + 1]
          /\ quota[s] > 0 /\ quota' = [quota EXCEPT ![s] = @ - 1]
      BY <1>7 DEF Begin
    <3>2. quota \in [Sessions -> Nat]
      OBVIOUS
    <3> HIDE DEF TypeOK
    <3>3. QED
      BY <1>0a, <3>1, <3>2
  <2>8. UNCHANGED <<disk, undo, level, open, at, pos>>
    BY <1>7 DEF Begin
  <2>9. QED
    BY <2>1, <2>3, <2>4, <2>5, <2>6, <2>7, <2>8
<1>8. ASSUME NEW s \in Sessions, End(s)
      PROVE  TypeOK'
  <2>1. CASE txn[s] = 0
    <3>1. Goto(s, "abort")
      BY <1>8, <2>1 DEF End
    <3>2. at' \in [Sessions -> Places] /\ pos' \in [Sessions -> Nat \ {0}]
      BY <3>1, GotoTyped DEF Places
    <3>3. QED
      BY <1>8, <2>1, <3>2 DEF End
  <2>2. CASE txn[s] # 0
    <3>1. UNCHANGED nextTxn /\ Rollback(s)
      BY <1>8, <2>2 DEF End
    <3>2. lock' \in [Recs -> [owner : Sessions, txn : Ids'] \cup {NoLock}]
      BY <3>1, UnlockTyped DEF Rollback
    <3>3. /\ txn' \in [Sessions -> Ids'] /\ cache' \in [Sessions -> Seq(Actions)]
          /\ stack' \in [Sessions -> Seq(Outers(Ids'))]
          /\ txnLevel' \in [Sessions -> Levels] /\ depth' \in [Sessions -> Int]
      BY <3>1, EndLevelTyped DEF Rollback
    <3>4. begun' \in [Sessions -> [Levels -> Nat]]
      <4>1. begun' = [begun EXCEPT ![s][level[s]] = @ - 1] /\ begun[s][level[s]] > 0
        BY <1>8, <2>2 DEF End
      <4> HIDE DEF TypeOK
      <4>2. QED
        BY <4>1, <1>0a
    <3>5. QED
      BY <1>8, <2>2, <3>2, <3>3, <3>4 DEF End
  <2>3. QED
    BY <2>1, <2>2
<1>9. ASSUME NEW s \in Sessions, Commit(s)
      PROVE  TypeOK'
  <2>1. at' \in [Sessions -> Places] /\ pos' \in [Sessions -> Nat \ {0}]
    BY <1>9, GotoTyped DEF Commit, Places
  <2>2. QED
    BY <1>9, <1>0, <2>1 DEF Commit
<1>10. ASSUME NEW s \in Sessions, Execute(s)
       PROVE  TypeOK'
  <2>1. level' \in [Sessions -> Levels]
    <3>1. level' = [level EXCEPT ![s] = @ + 1] /\ level[s] < MaxLevel
      BY <1>10 DEF Execute
    <3> HIDE DEF TypeOK
    <3>2. QED
      BY <3>1, <1>0a, <1>0b DEF Levels
  <2>2. QED
    BY <1>10, <2>1 DEF Execute
<1>11. ASSUME NEW s \in Sessions, EndCommand(s) \/ Abort(s) \/ Crash(s) \/ Fault(s)
       PROVE  TypeOK'
  <2>1. at' \in [Sessions -> Places] /\ pos' \in [Sessions -> Nat \ {0}]
    BY <1>11, GotoTyped DEF EndCommand, Abort, Crash, Fault, Places
  <2>2. QED
    BY <1>11, <2>1 DEF EndCommand, Abort, Crash, Fault
<1>12. ASSUME NEW s \in Sessions, Apply(s)
       PROVE  TypeOK'
  <2> DEFINE a == cache[s][pos[s]]
  <2>1. pos[s] \in DOMAIN cache[s] /\ a \in Actions
    <3>1. /\ pos[s] \in Nat \ {0} /\ pos[s] <= Len(cache[s]) /\ cache[s] \in Seq(Actions)
      BY <1>12, <1>0 DEF Apply, Applying
    <3> HIDE DEF TypeOK
    <3>2. QED
      BY <3>1, LenProperties, ElementOfSeq
  <2>2. cache' \in [Sessions -> Seq(Actions)]
    <3>1. [cache[s] EXCEPT ![pos[s]].freed = TRUE] \in Seq(Actions)
      BY <1>0, <2>1, AppliedCache
    <3>2. cache' = [cache EXCEPT ![s] = [cache[s] EXCEPT ![pos[s]].freed = TRUE]]
      BY <1>12 DEF Apply
    <3>3. QED
      BY <3>1, <3>2
  <2>2a. /\ UNCHANGED <<nextTxn, txn, txnLevel, depth, commitId, level, begun, open, quota, at>>
         /\ pos' \in [Sessions -> Nat \ {0}] /\ Ids' = Ids
    <3>1. /\ pos' = [pos EXCEPT ![s] = @ + 1] /\ pos \in [Sessions -> Nat \ {0}]
          /\ UNCHANGED <<nextTxn, txn, txnLevel, depth, commitId, level, begun, open, quota, at>>
      BY <1>12 DEF Apply
    <3> HIDE DEF TypeOK
    <3>2. QED
      BY <3>1
  <2>3. CASE a.mode = "write" /\ TakeImage(s, a.rec)
             /\ disk' = [disk EXCEPT ![a.rec] = a.val]
             /\ stack' = [stack EXCEPT ![s] = ClearParent(@, a.rec)] /\ UNCHANGED lock
    <3>1. a.rec \in Recs /\ a.val \in Contents
      BY <2>1, <2>3, ActionShape
    <3>2. Image(a.rec, disk[a.rec]) \in Images
      BY <3>1 DEF Images, Image
    <3>3. <<Image(a.rec, disk[a.rec])>> \o undo[s] \in Seq(Images)
      BY <1>0, <3>2, PushSeq
    <3>4. undo' \in [Sessions -> Seq(Images)]
      BY <2>3, <3>3 DEF TakeImage, Images
    <3>5. ClearParent(stack[s], a.rec) \in Seq(Outers(Ids))
      BY <1>0, ClearParentSeq
    <3>6. stack' \in [Sessions -> Seq(Outers(Ids))]
      BY <2>3, <3>5, <1>0
    <3>7. disk' \in [Recs -> Contents]
      BY <2>3, <3>1
    <3>8. QED
      BY <2>2, <2>3, <2>2a, <3>4, <3>6, <3>7
  <2>4. CASE Unlock(FileLocks(s, {a.file})) /\ UNCHANGED <<disk, undo, stack>>
    <3>1. lock' \in [Recs -> [owner : Sessions, txn : Ids'] \cup {NoLock}]
      BY <1>12, <2>4, UnlockTyped DEF Apply
    <3>2. QED
      BY <2>2, <2>2a, <2>4, <3>1
  <2>5. QED
    BY <1>12, <2>3, <2>4 DEF Apply
<1>13. ASSUME NEW s \in Sessions, ApplyFails(s)
       PROVE  TypeOK'
  <2> DEFINE a == cache[s][pos[s]]
  <2>1. a \in Actions /\ a.mode = "write" /\ TakeImage(s, a.rec)
        /\ \E v \in {disk[a.rec], a.val} : disk' = [disk EXCEPT ![a.rec] = v]
    <3>1. pos[s] \in DOMAIN cache[s] /\ a \in Actions
      BY <1>13, <1>0, LenProperties, ElementOfSeq DEF ApplyFails, Applying
    <3> HIDE DEF TypeOK
    <3>2. QED
      BY <1>13, <3>1 DEF ApplyFails
  <2>2. a.rec \in Recs /\ a.val \in Contents
    BY <2>1, ActionShape
  <2>3. Image(a.rec, disk[a.rec]) \in Images
    BY <2>2 DEF Images, Image
  <2>4. <<Image(a.rec, disk[a.rec])>> \o undo[s] \in Seq(Images)
    BY <1>0, <2>3, PushSeq
  <2> HIDE DEF a
  <2>5. undo' \in [Sessions -> Seq(Images)]
    BY <2>1, <2>4 DEF TakeImage, Images
  <2>6. disk' \in [Recs -> Contents]
    BY <2>1, <2>2
  <2>7. QED
    <3>1. at' \in [Sessions -> Places] /\ pos' \in [Sessions -> Nat \ {0}]
      BY <1>13, GotoTyped DEF ApplyFails, Places
    <3>2. QED
      BY <1>13, <2>5, <2>6, <3>1 DEF ApplyFails
<1>14. ASSUME NEW s \in Sessions, CommitDone(s)
       PROVE  TypeOK'
  <2>1. UNCHANGED nextTxn /\ EndLevel(s) /\ Unlock(TxnLocks(s, commitId[s]))
    BY <1>14 DEF CommitDone
  <2>2. lock' \in [Recs -> [owner : Sessions, txn : Ids'] \cup {NoLock}]
    BY <2>1, UnlockTyped
  <2>3. /\ txn' \in [Sessions -> Ids'] /\ cache' \in [Sessions -> Seq(Actions)]
        /\ stack' \in [Sessions -> Seq(Outers(Ids'))]
        /\ txnLevel' \in [Sessions -> Levels] /\ depth' \in [Sessions -> Int]
    BY <2>1, EndLevelTyped
  <2>4. QED
    <3>1. at' \in [Sessions -> Places] /\ pos' \in [Sessions -> Nat \ {0}]
      BY <1>14, GotoTyped DEF CommitDone, Places
    <3>2. undo' \in [Sessions -> Seq(Images)]
      BY <1>14, <1>0, EmptySeq DEF CommitDone
    <3>3. commitId' \in [Sessions -> Ids]
      BY <1>14, <1>0 DEF CommitDone
    <3>4. begun' \in [Sessions -> [Levels -> Nat]]
      <4>1. begun' = [begun EXCEPT ![s][level[s]] = @ - 1] /\ begun[s][level[s]] > 0
        BY <1>14 DEF CommitDone, CommitBegun
      <4> HIDE DEF TypeOK
      <4>2. QED
        BY <4>1, <1>0a
    <3>5. QED
      BY <1>14, <2>2, <2>3, <3>1, <3>2, <3>3, <3>4 DEF CommitDone
<1>15. ASSUME NEW s \in Sessions, Undo(s)
       PROVE  TypeOK'
  <2>1. Head(undo[s]) \in Images /\ Tail(undo[s]) \in Seq(Images)
    BY <1>15, <1>0, HeadTailProperties DEF Undo
  <2>2. Head(undo[s]).rec \in Recs /\ Head(undo[s]).val \in Contents
    BY <2>1 DEF Images
  <2>3. QED
    BY <1>15, <2>1, <2>2 DEF Undo, Images
<1>16. ASSUME NEW s \in Sessions, AbortUnlock(s)
       PROVE  TypeOK'
  BY <1>16, <1>0 DEF AbortUnlock, Unlock
<1>17. ASSUME NEW s \in Sessions, AbortRollback(s) \/ RollbackAll(s)
       PROVE  TypeOK'
  <2>1. UNCHANGED nextTxn /\ Rollback(s)
    BY <1>17 DEF AbortRollback, RollbackAll
  <2>2. lock' \in [Recs -> [owner : Sessions, txn : Ids'] \cup {NoLock}]
    BY <2>1, UnlockTyped DEF Rollback
  <2>3. /\ txn' \in [Sessions -> Ids'] /\ cache' \in [Sessions -> Seq(Actions)]
        /\ stack' \in [Sessions -> Seq(Outers(Ids'))]
        /\ txnLevel' \in [Sessions -> Levels] /\ depth' \in [Sessions -> Int]
    BY <2>1, EndLevelTyped DEF Rollback
  <2>4. QED
    BY <1>17, <2>2, <2>3 DEF AbortRollback, RollbackAll
<1>18. ASSUME NEW s \in Sessions, AbortDone(s)
       PROVE  TypeOK'
  <2>1. at' \in [Sessions -> Places] /\ pos' \in [Sessions -> Nat \ {0}]
    BY <1>18, GotoTyped DEF AbortDone, Places
  <2>2. level' \in [Sessions -> Levels]
    <3>1. \/ level' = [level EXCEPT ![s] = 1]
          \/ level[s] > 1 /\ level' = [level EXCEPT ![s] = @ - 1]
      BY <1>18 DEF AbortDone
    <3>2. 1 \in Levels /\ (level[s] > 1 => level[s] - 1 \in Levels)
      <4>1. level[s] \in 1 .. MaxLevel
        BY <1>0a DEF Levels
      <4> HIDE DEF TypeOK
      <4>2. QED
        BY <4>1, <1>0b DEF Levels
    <3> HIDE DEF TypeOK
    <3>3. QED
      BY <3>1, <3>2, <1>0a
  <2>3. begun' \in [Sessions -> [Levels -> Nat]]
    <3>1. \/ begun' = [begun EXCEPT ![s] = NoneBegun]
          \/ begun' = [begun EXCEPT ![s][level[s]] = 0]
      BY <1>18 DEF AbortDone
    <3> HIDE DEF TypeOK
    <3>2. QED
      <4>1. CASE begun' = [begun EXCEPT ![s] = NoneBegun]
        BY <4>1, <1>0a, LevelsTyped
      <4>2. CASE begun' = [begun EXCEPT ![s][level[s]] = 0]
        BY <4>2, <1>0a
      <4>3. QED
        BY <3>1, <4>1, <4>2
  <2>4. QED
    BY <1>18, <2>1, <2>2, <2>3 DEF AbortDone
<1>19. ASSUME NEW s \in Sessions, CommandDone(s)
       PROVE  TypeOK'
  <2>1. at' \in [Sessions -> Places] /\ pos' \in [Sessions -> Nat \ {0}]
    BY <1>19, GotoTyped DEF CommandDone, Places
  <2>2. level' \in [Sessions -> Levels]
    <3>1. level' = [level EXCEPT ![s] = IF @ > 1 THEN @ - 1 ELSE 1]
      BY <1>19 DEF CommandDone
    <3> HIDE DEF TypeOK
    <3>2. QED
      BY <3>1, <1>0a, <1>0b DEF Levels
  <2>3. begun' \in [Sessions -> [Levels -> Nat]]
    BY <1>19, <1>0 DEF CommandDone
  <2>4. QED
    BY <1>19, <2>1, <2>2, <2>3 DEF CommandDone
<1>20. ASSUME NEW s \in Sessions, Reap(s)
       PROVE  TypeOK'
  <2>1. at' \in [Sessions -> Places] /\ pos' \in [Sessions -> Nat \ {0}]
    BY <1>20, GotoTyped DEF Reap, Places
  <2>2. lock' \in [Recs -> [owner : Sessions, txn : Ids'] \cup {NoLock}]
    BY <1>20, UnlockTyped DEF Reap
  <2>3. /\ cache' \in [Sessions -> Seq(Actions)] /\ stack' \in [Sessions -> Seq(Outers(Ids))]
        /\ undo' \in [Sessions -> Seq(Images)]
    BY <1>20, EmptySeq DEF Reap
  <2>4. /\ txnLevel' \in [Sessions -> Levels] /\ level' \in [Sessions -> Levels]
        /\ begun' \in [Sessions -> [Levels -> Nat]]
    BY <1>20, <1>0 DEF Reap
  <2>5. /\ txn' \in [Sessions -> Ids'] /\ commitId' \in [Sessions -> Ids']
        /\ depth' \in [Sessions -> Int] /\ open' \in [Sessions -> SUBSET Files]
    BY <1>20, <1>0 DEF Reap
  <2>6. UNCHANGED <<disk, nextTxn, quota>> /\ Ids' = Ids
    BY <1>20 DEF Reap
  <2>7. QED
    BY <2>1, <2>2, <2>3, <2>4, <2>5, <2>6
<1>21. CASE UNCHANGED vars
  BY <1>21 DEF vars
<1> HIDE DEF TypeOK, Ids, cached, program, doing
<1>22. QED
  BY <1>1, <1>2, <1>3, <1>4, <1>5, <1>6, <1>7, <1>8, <1>9, <1>10, <1>11, <1>12, <1>13,
     <1>14, <1>15, <1>16, <1>17, <1>18, <1>19, <1>20, <1>21
  DEF Next, Statement, Internal, Event

LEMMA CommitBegunStep ==
  ASSUME TypeOK, CommitBegun, [Next]_vars
  PROVE  CommitBegun'
<1>1. /\ at \in [Sessions -> Places] /\ level \in [Sessions -> Levels]
      /\ begun \in [Sessions -> [Levels -> Nat]]
  BY DEF TypeOK
<1>2. ASSUME NEW s \in Sessions, NEW t \in Sessions, t # s,
             Statement(s) \/ Internal(s) \/ Event(s)
      PROVE  level'[t] = level[t] /\ begun'[t] = begun[t] /\ at'[t] = at[t]
  BY <1>1, <1>2 DEF Statement, Internal, Event, LockRec, Release, PutLater, PutNow, Close,
     Reopen, Begin, Commit, End, Execute, EndCommand, Apply, ApplyFails, CommitDone, Undo,
     AbortUnlock, AbortRollback, AbortDone, RollbackAll, CommandDone, Abort, Crash, Fault,
     Reap, Goto, program, doing
<1>3. ASSUME NEW s \in Sessions, Statement(s) \/ Internal(s) \/ Event(s), at'[s] = "commit"
      PROVE  level'[s] = level[s] /\ begun'[s] = begun[s] /\ (at[s] = "commit" \/ Commit(s))
  BY <1>1, <1>3 DEF Statement, Internal, Event, LockRec, Release, PutLater, PutNow, Close,
     Reopen, Begin, Commit, End, Execute, EndCommand, Apply, ApplyFails, CommitDone, Undo,
     AbortUnlock, AbortRollback, AbortDone, RollbackAll, CommandDone, Abort, Crash, Fault,
     Reap, Goto, program, doing, Applying, Committing
<1>4. ASSUME NEW s \in Sessions, Statement(s) \/ Internal(s) \/ Event(s)
      PROVE  CommitBegun'
  BY <1>2, <1>3, <1>4 DEF CommitBegun, Committing, Commit
<1>5. CASE UNCHANGED vars
  BY <1>5 DEF vars, program, doing, CommitBegun, Committing
<1>6. QED
  BY <1>4, <1>5 DEF Next

(* TypeOK: what a session keeps stays in its domains, whatever it nests,    *)
(* commits, aborts and leaves behind: no id comes before it is given out.   *)
THEOREM TransactionsTyped == Spec => []TypeOK
<1>1. Init => TypeOK /\ CommitBegun
  <2> HAVE Init
  <2>1. 1 \in Nat \ {0} /\ 0 \in 0 .. (1 - 1) /\ NoRec \in Contents /\ "ready" \in Places
    BY DEF Contents, Places
  <2>2. Quota \in [Sessions -> Nat]
    BY TxnConstants
  <2>3. CommitBegun
    BY DEF Init, CommitBegun, Committing
  <2>4. QED
    BY <2>1, <2>2, <2>3, LevelsTyped, EmptySeq DEF Init, TypeOK, Ids
<1>2. TypeOK /\ CommitBegun /\ [Next]_vars => (TypeOK /\ CommitBegun)'
  BY TypeStep, CommitBegunStep
<1>3. QED
  BY <1>1, <1>2, PTL DEF Spec
-----------------------------------------------------------------------------
(* What a step of one session leaves to the others.                         *)

Step(s) == Statement(s) \/ Internal(s) \/ Event(s)

LEMMA StepsOrNone == [Next]_vars => (\E s \in Sessions : Step(s)) \/ UNCHANGED vars
BY DEF Next, Step

LEMMA LockedByOther ==
  ASSUME TypeOK, NEW s \in Sessions, NEW t \in Sessions, t # s, NEW r \in Recs
  PROVE  /\ \A id : r \notin TxnLocks(s, id)
            \/ ~Owns(t, r)
         /\ \A fs : r \notin FileLocks(s, fs) \/ ~Owns(t, r)
         /\ Owns(s, r) => ~Owns(t, r)
BY DEF TxnLocks, FileLocks, Owns

(* Every step of s gives the lock of a record up, leaves it, or takes it    *)
(* for s with the current id.                                               *)
LEMMA LockSteps ==
  ASSUME TypeOK, NEW s \in Sessions, Step(s), NEW r \in Recs
  PROVE  \/ lock'[r] = lock[r]
         \/ lock'[r] = NoLock /\ Owns(s, r)
         \/ /\ lock'[r] = [owner |-> s, txn |-> txn[s]] /\ (lock[r] = NoLock \/ Owns(s, r))
            /\ LockRec(s, r)
<1> DEFINE Kept == lock'[r] = lock[r] \/ (lock'[r] = NoLock /\ Owns(s, r))
<1>1. ASSUME NEW rs, Unlock(rs), \A q \in rs : Owns(s, q)
      PROVE  Kept
  BY <1>1 DEF Unlock
<1>2. /\ \A id : \A q \in TxnLocks(s, id) : Owns(s, q)
      /\ \A fs : \A q \in FileLocks(s, fs) : Owns(s, q)
  BY DEF TxnLocks, FileLocks
<1>3. ASSUME Rollback(s)
      PROVE  Kept
  BY <1>1, <1>2, <1>3 DEF Rollback
<1>4. ASSUME NEW q \in Recs, LockRec(s, q)
      PROVE  \/ Kept
             \/ /\ lock'[r] = [owner |-> s, txn |-> txn[s]] /\ (lock[r] = NoLock \/ Owns(s, r))
                /\ LockRec(s, r)
  <2>1. lock' = [lock EXCEPT ![q] = [owner |-> s, txn |-> txn[s]]] /\ DOMAIN lock = Recs
    BY <1>4 DEF LockRec, TypeOK
  <2>2. CASE r = q
    BY <1>4, <2>1, <2>2 DEF LockRec
  <2>3. CASE r # q
    BY <2>1, <2>3
  <2>4. QED
    BY <2>2, <2>3
<1>5. ASSUME UNCHANGED lock
      PROVE  Kept
  BY <1>5
<1>6. ASSUME Statement(s), \A q \in Recs : ~LockRec(s, q)
      PROVE  Kept
  <2>1. ASSUME NEW q \in Recs, Release(s, q)
        PROVE  Kept
    BY <1>1, <2>1 DEF Release
  <2>2. ASSUME NEW q \in Recs, NEW v, PutLater(s, q, v)
        PROVE  Kept
    BY <2>2 DEF PutLater
  <2>3. ASSUME NEW q \in Recs, NEW v, NEW keep, PutNow(s, q, v, keep)
        PROVE  Kept
    BY <1>1, <2>3 DEF PutNow
  <2>4. ASSUME NEW f, Close(s, f)
        PROVE  Kept
    BY <1>1, <1>2, <2>4 DEF Close
  <2>5. ASSUME NEW f, Reopen(s, f)
        PROVE  Kept
    BY <2>5 DEF Reopen
  <2>6. ASSUME Begin(s) \/ Commit(s) \/ End(s) \/ Execute(s) \/ EndCommand(s)
        PROVE  Kept
    BY <1>3, <2>6 DEF Begin, Commit, End, Execute, EndCommand
  <2>7. QED
    BY <1>6, <2>1, <2>2, <2>3, <2>4, <2>5, <2>6 DEF Statement
<1>7. ASSUME Internal(s) \/ Event(s)
      PROVE  Kept
  <2>1. CASE Apply(s) \/ ApplyFails(s)
    BY <1>1, <1>2, <2>1 DEF Apply, ApplyFails
  <2>2. CASE CommitDone(s) \/ AbortUnlock(s)
    BY <1>1, <1>2, <2>2 DEF CommitDone, AbortUnlock
  <2>3. CASE AbortRollback(s) \/ RollbackAll(s)
    BY <1>3, <2>3 DEF AbortRollback, RollbackAll
  <2>4. CASE Undo(s) \/ AbortDone(s) \/ CommandDone(s) \/ Abort(s) \/ Crash(s) \/ Fault(s)
    BY <2>4 DEF Undo, AbortDone, CommandDone, Abort, Crash, Fault
  <2>5. CASE Reap(s)
    BY <1>1, <2>5 DEF Reap
  <2>6. QED
    BY <1>7, <2>1, <2>2, <2>3, <2>4, <2>5 DEF Internal, Event
<1>8. QED
  BY <1>4, <1>6, <1>7 DEF Step

(* A step of s changes nothing that t has.                                  *)
LEMMA OthersKeep ==
  ASSUME TypeOK, NEW s \in Sessions, Step(s), NEW t \in Sessions, t # s
  PROVE  /\ txn'[t] = txn[t] /\ cache'[t] = cache[t] /\ stack'[t] = stack[t]
         /\ depth'[t] = depth[t] /\ commitId'[t] = commitId[t] /\ undo'[t] = undo[t]
         /\ level'[t] = level[t] /\ begun'[t] = begun[t]
         /\ at'[t] = at[t] /\ pos'[t] = pos[t] /\ open'[t] = open[t]
         /\ \A r \in Recs : /\ Owns(t, r)' <=> Owns(t, r)
                            /\ Owns(t, r) => lock'[r] = lock[r]
<1>1. /\ txn \in [Sessions -> Ids] /\ commitId \in [Sessions -> Ids]
      /\ cache \in [Sessions -> Seq(Actions)]
      /\ stack \in [Sessions -> Seq(Outers(Ids))]
      /\ depth \in [Sessions -> Int] /\ undo \in [Sessions -> Seq(Images)]
      /\ level \in [Sessions -> Levels] /\ begun \in [Sessions -> [Levels -> Nat]]
      /\ at \in [Sessions -> Places] /\ pos \in [Sessions -> Nat \ {0}]
      /\ open \in [Sessions -> SUBSET Files]
  BY DEF TypeOK
<1>2. /\ txn'[t] = txn[t] /\ cache'[t] = cache[t] /\ stack'[t] = stack[t] /\ depth'[t] = depth[t]
      /\ commitId'[t] = commitId[t] /\ undo'[t] = undo[t]
      /\ level'[t] = level[t] /\ begun'[t] = begun[t] /\ at'[t] = at[t] /\ pos'[t] = pos[t]
      /\ open'[t] = open[t]
  <2>1. CASE Statement(s)
    <3>1. CASE \E r \in Recs : LockRec(s, r) \/ Release(s, r)
      BY <3>1 DEF LockRec, Release, cached, program, doing
    <3>2. CASE \E r \in Recs, v \in Contents :
                 PutLater(s, r, v) \/ \E keep \in BOOLEAN : PutNow(s, r, v, keep)
      BY <1>1, <3>2 DEF PutLater, Defer, PutNow, cached, program, doing
    <3>3. CASE \E f \in Files : Close(s, f) \/ Reopen(s, f)
      BY <1>1, <3>3 DEF Close, Reopen, doing
    <3>4. CASE Begin(s)
      <4>1. stack'[t] = stack[t] /\ cache'[t] = cache[t]
        BY <1>1, <3>4 DEF Begin
      <4>2. txn'[t] = txn[t] /\ depth'[t] = depth[t] /\ begun'[t] = begun[t]
        BY <1>1, <3>4 DEF Begin
      <4>3. UNCHANGED <<commitId, undo, level, open, at, pos>>
        BY <3>4 DEF Begin, doing
      <4>4. QED
        BY <4>1, <4>2, <4>3
    <3>4a. CASE Commit(s)
      BY <1>1, <3>4a DEF Commit, Goto, program, doing
    <3>5. CASE End(s)
      <4>1. txn[s] # 0 => EndLevel(s) /\ UNCHANGED <<at, pos>>
        BY <3>5 DEF End, Rollback, doing
      <4>2. txn[s] = 0 => Goto(s, "abort") /\ UNCHANGED <<cached, begun>>
        BY <3>5 DEF End
      <4>3. txn'[t] = txn[t] /\ cache'[t] = cache[t] /\ stack'[t] = stack[t] /\ depth'[t] = depth[t]
        BY <1>1, <4>1, <4>2 DEF EndLevel, cached
      <4>4. at'[t] = at[t] /\ pos'[t] = pos[t]
        BY <1>1, <4>1, <4>2 DEF Goto
      <4>5. begun'[t] = begun[t] /\ UNCHANGED <<commitId, undo, level, open>>
        BY <1>1, <3>5 DEF End
      <4>6. QED
        BY <4>3, <4>4, <4>5
    <3>6. CASE Execute(s) \/ EndCommand(s)
      BY <1>1, <3>6 DEF Execute, EndCommand, Goto, cached, program, doing
    <3>7. QED
      BY <2>1, <3>1, <3>2, <3>3, <3>4, <3>4a, <3>5, <3>6 DEF Statement
  <2>2. CASE Internal(s)
    <3>1. CASE Apply(s) \/ ApplyFails(s)
      BY <1>1, <3>1 DEF Apply, ApplyFails, TakeImage, Goto, cached, program
    <3>2. EndLevel(s) => /\ txn'[t] = txn[t] /\ cache'[t] = cache[t]
                         /\ stack'[t] = stack[t] /\ depth'[t] = depth[t]
      BY <1>1 DEF EndLevel
    <3>3. CASE CommitDone(s)
      BY <1>1, <3>2, <3>3 DEF CommitDone, Goto
    <3>4. CASE AbortRollback(s) \/ RollbackAll(s)
      BY <3>2, <3>4 DEF AbortRollback, RollbackAll, Rollback, program, doing
    <3>5. CASE Undo(s) \/ AbortUnlock(s)
      BY <1>1, <3>5 DEF Undo, AbortUnlock, cached, program, doing
    <3>6. CASE AbortDone(s) \/ CommandDone(s)
      BY <1>1, <3>6 DEF AbortDone, CommandDone, Goto, cached
    <3>7. QED
      BY <2>2, <3>1, <3>3, <3>4, <3>5, <3>6 DEF Internal
  <2>3. CASE Event(s)
    BY <1>1, <2>3 DEF Event, Abort, Crash, Fault, Reap, Goto, cached, program, doing
  <2>4. QED
    BY <2>1, <2>2, <2>3 DEF Step
<1>3. ASSUME NEW r \in Recs
      PROVE  (Owns(t, r)' <=> Owns(t, r)) /\ (Owns(t, r) => lock'[r] = lock[r])
  <2>1. CASE lock'[r] = lock[r]
    BY <2>1 DEF Owns
  <2>2. CASE lock'[r] = NoLock /\ Owns(s, r)
    BY <2>2 DEF Owns
  <2>3. CASE lock'[r] = [owner |-> s, txn |-> txn[s]] /\ (lock[r] = NoLock \/ Owns(s, r))
    BY <2>3 DEF Owns
  <2>4. QED
    BY <2>1, <2>2, <2>3, LockSteps
<1>4. QED
  BY <1>2, <1>3
-----------------------------------------------------------------------------
(* The ids on the locks.                                                    *)

LiveIds(s) == {0, txn[s], commitId[s]} \cup {stack[s][i].txn : i \in DOMAIN stack[s]}

IdsKept ==
  \A s \in Sessions : /\ at[s] \in {"ready", "rollall"} => commitId[s] = 0
                      /\ Committing(s) => txn[s] = 0

LEMMA EndLevelIds ==
  ASSUME TypeOK, NEW s \in Sessions, EndLevel(s), UNCHANGED commitId
  PROVE  LiveIds(s) \subseteq LiveIds(s)' \cup {txn[s]}
<1>1. /\ txn \in [Sessions -> Ids] /\ stack \in [Sessions -> Seq(Outers(Ids))]
  BY DEF TypeOK
<1>2. CASE stack[s] = <<>>
  BY <1>1, <1>2 DEF EndLevel, LiveIds
<1>3. CASE stack[s] # <<>>
  <2>1. /\ txn'[s] = Head(stack[s]).txn /\ stack'[s] = Tail(stack[s])
    BY <1>1, <1>3 DEF EndLevel
  <2>2. /\ DOMAIN stack[s] = 1 .. Len(stack[s]) /\ Len(stack[s]) \in Nat
        /\ DOMAIN Tail(stack[s]) = 1 .. (Len(stack[s]) - 1)
        /\ \A i \in 1 .. (Len(stack[s]) - 1) : Tail(stack[s])[i] = stack[s][i + 1]
        /\ Head(stack[s]) = stack[s][1]
    BY <1>1, <1>3, HeadTailProperties, LenProperties
  <2>3. ASSUME NEW i \in DOMAIN stack[s]
        PROVE  stack[s][i].txn \in LiveIds(s)'
    <3>1. CASE i = 1
      BY <3>1, <2>1, <2>2 DEF LiveIds
    <3>2. CASE i # 1
      <4>1. i - 1 \in DOMAIN stack'[s] /\ stack'[s][i - 1] = stack[s][i]
        BY <3>2, <2>1, <2>2
      <4>2. QED
        BY <4>1 DEF LiveIds
    <3>3. QED
      BY <3>1, <3>2
  <2>4. QED
    BY <2>3 DEF LiveIds
<1>4. QED
  BY <1>2, <1>3

LEMMA BeginIds ==
  ASSUME TypeOK, NEW s \in Sessions, Begin(s)
  PROVE  LiveIds(s) \subseteq LiveIds(s)'
<1>1. /\ txn \in [Sessions -> Ids] /\ stack \in [Sessions -> Seq(Outers(Ids))]
      /\ cache \in [Sessions -> Seq(Actions)] /\ level \in [Sessions -> Levels]
  BY DEF TypeOK
<1>2. UNCHANGED commitId
  BY DEF Begin
<1>3. CASE txn[s] = 0
  BY <1>1, <1>2, <1>3 DEF Begin, LiveIds
<1>4. CASE txn[s] # 0
  <2> DEFINE o == [txn |-> txn[s], level |-> level[s], cache |-> cache[s]]
  <2>1. o \in Outers(Ids) /\ o.txn = txn[s]
    BY <1>1 DEF Outers
  <2>2. stack'[s] = <<o>> \o stack[s]
    BY <1>1, <1>4 DEF Begin
  <2> HIDE DEF o
  <2>3. /\ DOMAIN stack'[s] = 1 .. (Len(stack[s]) + 1) /\ stack'[s][1] = o
        /\ \A k \in 2 .. (Len(stack[s]) + 1) : stack'[s][k] = stack[s][k - 1]
        /\ DOMAIN stack[s] = 1 .. Len(stack[s]) /\ Len(stack[s]) \in Nat
    BY <1>1, <2>1, <2>2, PushSeq, LenProperties
  <2>4. txn[s] \in LiveIds(s)'
    BY <2>1, <2>3 DEF LiveIds
  <2>5. ASSUME NEW i \in DOMAIN stack[s]
        PROVE  stack[s][i].txn \in LiveIds(s)'
    <3>1. i + 1 \in DOMAIN stack'[s] /\ stack'[s][i + 1] = stack[s][i]
      BY <2>3
    <3>2. QED
      BY <3>1 DEF LiveIds
  <2>6. QED
    BY <1>2, <2>4, <2>5 DEF LiveIds
<1>5. QED
  BY <1>3, <1>4

(* A lock s keeps in a step of its own has an id s keeps.                   *)
LEMMA MyIdsKept ==
  ASSUME TypeOK, IdsKept, NEW s \in Sessions, Step(s), NEW r \in Recs,
         Owns(s, r), lock'[r] = lock[r], lock[r].txn \in LiveIds(s)
  PROVE  lock[r].txn \in LiveIds(s)'
<1> DEFINE id == lock[r].txn
<1>1. /\ txn \in [Sessions -> Ids] /\ commitId \in [Sessions -> Ids]
      /\ stack \in [Sessions -> Seq(Outers(Ids))] /\ at \in [Sessions -> Places]
  BY DEF TypeOK
<1>2. ASSUME NEW rs, Unlock(rs)
      PROVE  r \notin rs
  BY <1>2 DEF Unlock, Owns
<1>3. ASSUME UNCHANGED <<txn, commitId, stack>>
      PROVE  id \in LiveIds(s)'
  BY <1>3 DEF LiveIds
<1>4. ASSUME Rollback(s), UNCHANGED commitId
      PROVE  id \in LiveIds(s)'
  <2>1. r \notin TxnLocks(s, txn[s])
    BY <1>4, <1>2 DEF Rollback
  <2>2. id # txn[s]
    BY <2>1 DEF TxnLocks
  <2>3. QED
    BY <1>4, <2>2, EndLevelIds DEF Rollback
<1>5. CASE Statement(s)
  <2>1. CASE Begin(s)
    BY <2>1, BeginIds
  <2>2. CASE Commit(s)
    <3>1. commitId[s] = 0 /\ commitId'[s] = txn[s] /\ stack' = stack
      BY <2>2, <1>1 DEF Commit, IdsKept
    <3>2. QED
      BY <3>1 DEF LiveIds
  <2>3. CASE End(s)
    <3>1. CASE txn[s] = 0
      BY <2>3, <3>1, <1>3 DEF End, cached
    <3>2. CASE txn[s] # 0
      BY <2>3, <3>2, <1>4 DEF End
    <3>3. QED
      BY <3>1, <3>2
  <2>4. CASE Execute(s) \/ EndCommand(s)
    BY <2>4, <1>3 DEF Execute, EndCommand, cached
  <2>5. CASE \E q \in Recs : LockRec(s, q) \/ Release(s, q)
    BY <2>5, <1>3 DEF LockRec, Release, cached
  <2>6. CASE \E q \in Recs, v \in Contents :
               PutLater(s, q, v) \/ \E keep \in BOOLEAN : PutNow(s, q, v, keep)
    BY <2>6, <1>3 DEF PutLater, PutNow, cached
  <2>7. CASE \E f \in Files : Close(s, f) \/ Reopen(s, f)
    BY <2>7, <1>3 DEF Close, Reopen, cached
  <2>8. QED
    BY <1>5, <2>1, <2>2, <2>3, <2>4, <2>5, <2>6, <2>7 DEF Statement
<1>6. CASE Internal(s)
  <2>1. CASE Apply(s)
    <3> DEFINE a == cache[s][pos[s]]
    <3>1. UNCHANGED <<txn, commitId>> /\ (stack' = [stack EXCEPT ![s] = ClearParent(@, a.rec)] \/ UNCHANGED stack)
      BY <2>1 DEF Apply
    <3>2. CASE stack' = [stack EXCEPT ![s] = ClearParent(@, a.rec)]
      <4>1. stack'[s] = ClearParent(stack[s], a.rec)
        BY <1>1, <3>2
      <4>2. /\ DOMAIN stack'[s] = DOMAIN stack[s]
            /\ \A i \in DOMAIN stack[s] : stack'[s][i].txn = stack[s][i].txn
        BY <1>1, <4>1, ClearParentSeq
      <4>3. QED
        BY <3>1, <4>2 DEF LiveIds
    <3>3. CASE UNCHANGED stack
      BY <3>1, <3>3, <1>3
    <3>4. QED
      BY <3>1, <3>2, <3>3
  <2>2. CASE CommitDone(s)
    <3>1. r \notin TxnLocks(s, commitId[s])
      BY <2>2, <1>2 DEF CommitDone
    <3>2. id # commitId[s] /\ txn[s] = 0
      BY <2>2, <3>1 DEF CommitDone, TxnLocks, IdsKept
    <3>3. EndLevel(s)
      BY <2>2 DEF CommitDone
    <3>4. id \in {0} \cup {stack[s][i].txn : i \in DOMAIN stack[s]}
      BY <3>2 DEF LiveIds
    <3>5. CASE stack[s] = <<>>
      BY <3>4, <3>5 DEF LiveIds
    <3>6. CASE stack[s] # <<>>
      <4>1. /\ txn'[s] = Head(stack[s]).txn /\ stack'[s] = Tail(stack[s])
        BY <1>1, <3>3, <3>6 DEF EndLevel
      <4>2. /\ DOMAIN stack[s] = 1 .. Len(stack[s]) /\ Len(stack[s]) \in Nat
            /\ DOMAIN Tail(stack[s]) = 1 .. (Len(stack[s]) - 1)
            /\ \A i \in 1 .. (Len(stack[s]) - 1) : Tail(stack[s])[i] = stack[s][i + 1]
            /\ Head(stack[s]) = stack[s][1]
        BY <1>1, <3>6, HeadTailProperties, LenProperties
      <4>3. ASSUME NEW i \in DOMAIN stack[s]
            PROVE  stack[s][i].txn \in LiveIds(s)'
        <5>1. CASE i = 1
          BY <5>1, <4>1, <4>2 DEF LiveIds
        <5>2. CASE i # 1
          <6>1. i - 1 \in DOMAIN stack'[s] /\ stack'[s][i - 1] = stack[s][i]
            BY <5>2, <4>1, <4>2
          <6>2. QED
            BY <6>1 DEF LiveIds
        <5>3. QED
          BY <5>1, <5>2
      <4>4. QED
        BY <3>4, <4>3 DEF LiveIds
    <3>7. QED
      BY <3>5, <3>6
  <2>3. CASE AbortUnlock(s)
    <3>1. id # commitId[s]
      BY <2>3, <1>2 DEF AbortUnlock, TxnLocks
    <3>2. UNCHANGED <<txn, stack>>
      BY <2>3 DEF AbortUnlock, cached
    <3>3. QED
      BY <3>1, <3>2 DEF LiveIds
  <2>4. CASE AbortRollback(s) \/ RollbackAll(s)
    BY <2>4, <1>4 DEF AbortRollback, RollbackAll
  <2>5. CASE ApplyFails(s) \/ Undo(s) \/ AbortDone(s) \/ CommandDone(s)
    BY <2>5, <1>3 DEF ApplyFails, Undo, AbortDone, CommandDone, cached
  <2>6. QED
    BY <1>6, <2>1, <2>2, <2>3, <2>4, <2>5 DEF Internal
<1>7. CASE Event(s)
  <2>1. CASE Reap(s)
    BY <2>1, <1>2 DEF Reap
  <2>2. CASE Abort(s) \/ Crash(s) \/ Fault(s)
    BY <2>2, <1>3 DEF Abort, Crash, Fault, cached
  <2>3. QED
    BY <1>7, <2>1, <2>2 DEF Event
<1>8. QED
  BY <1>5, <1>6, <1>7 DEF Step

LEMMA IdsKeptStep ==
  ASSUME TypeOK, IdsKept, [Next]_vars
  PROVE  IdsKept'
<1>1. /\ txn \in [Sessions -> Ids] /\ commitId \in [Sessions -> Ids]
      /\ at \in [Sessions -> Places]
  BY DEF TypeOK
<1>2. ASSUME NEW s \in Sessions, Step(s)
      PROVE  IdsKept'
  <2>1. ASSUME NEW t \in Sessions, t # s
        PROVE  txn'[t] = txn[t] /\ commitId'[t] = commitId[t] /\ at'[t] = at[t]
    BY <1>2, <2>1, OthersKeep
  <2>2. /\ at'[s] \in {"ready", "rollall"} => commitId'[s] = 0
        /\ at'[s] = "commit" => txn'[s] = 0
    <3>1. CASE Statement(s)
      BY <1>1, <3>1 DEF Statement, LockRec, Release, PutLater, PutNow, Close, Reopen, Begin,
         Commit, End, Rollback, EndLevel, Execute, EndCommand, Goto, cached, program, doing,
         IdsKept, Committing
    <3>2. CASE Internal(s)
      BY <1>1, <3>2 DEF Internal, Apply, ApplyFails, CommitDone, Undo, AbortUnlock,
         AbortRollback, AbortDone, RollbackAll, CommandDone, Rollback, EndLevel, Goto, cached,
         program, doing, IdsKept, Committing
    <3>3. CASE Event(s)
      BY <1>1, <3>3 DEF Event, Abort, Crash, Fault, Reap, Goto, cached, program, doing,
         IdsKept, Committing
    <3>4. QED
      BY <1>2, <3>1, <3>2, <3>3 DEF Step
  <2>3. QED
    BY <2>1, <2>2 DEF IdsKept, Committing
<1>3. CASE UNCHANGED vars
  BY <1>3 DEF vars, cached, doing, IdsKept, Committing
<1>4. QED
  BY <1>2, <1>3, StepsOrNone

LEMMA LiveStep ==
  ASSUME TypeOK, TypeOK', IdsKept, LocksAreLive, [Next]_vars
  PROVE  LocksAreLive'
<1>1. ASSUME NEW r \in Recs, NEW o \in Sessions, Owns(o, r)
      PROVE  lock[r].txn \in LiveIds(o)
  BY <1>1 DEF LocksAreLive, LiveIds, Owns
<1>2. ASSUME \A r \in Recs, o \in Sessions :
               lock'[r] # NoLock /\ lock'[r].owner = o => lock'[r].txn \in LiveIds(o)'
      PROVE  LocksAreLive'
  <2>1. ASSUME NEW r \in Recs, lock'[r] # NoLock
        PROVE  lock'[r].owner \in Sessions
    BY <2>1 DEF TypeOK
  <2>2. QED
    BY <1>2, <2>1 DEF LocksAreLive, LiveIds
<1>3. ASSUME NEW s \in Sessions, Step(s), NEW r \in Recs, NEW o \in Sessions,
             lock'[r] # NoLock, lock'[r].owner = o
      PROVE  lock'[r].txn \in LiveIds(o)'
  <2>1. CASE lock'[r] = lock[r]
    <3>1. Owns(o, r) /\ lock[r].txn \in LiveIds(o)
      BY <1>1, <1>3, <2>1 DEF Owns
    <3>2. CASE o = s
      BY <3>1, <3>2, <1>3, <2>1, MyIdsKept
    <3>3. CASE o # s
      <4>1. txn'[o] = txn[o] /\ commitId'[o] = commitId[o] /\ stack'[o] = stack[o]
        BY <3>3, <1>3, OthersKeep
      <4>2. LiveIds(o)' = LiveIds(o)
        BY <4>1 DEF LiveIds
      <4>3. QED
        BY <4>2, <3>1, <2>1
    <3>4. QED
      BY <3>2, <3>3
  <2>2. CASE lock'[r] = [owner |-> s, txn |-> txn[s]] /\ LockRec(s, r)
    <3>1. o = s /\ lock'[r].txn = txn[s]
      BY <1>3, <2>2
    <3>2. txn' = txn
      BY <2>2 DEF LockRec, cached
    <3>3. QED
      BY <3>1, <3>2 DEF LiveIds
  <2>3. QED
    BY <1>3, <2>1, <2>2, LockSteps
<1>4. CASE UNCHANGED vars
  BY <1>4 DEF vars, cached, LocksAreLive
<1>5. QED
  BY <1>2, <1>3, <1>4, StepsOrNone

(* LocksAreLive: whatever is nested, aborted, undone or killed, a lock never *)
(* keeps the id of a transaction that has ended; not even a failed commit    *)
(* leaves one (txn_abort releases commit_txn_id).                            *)
THEOREM LocksStayLive == Spec => []LocksAreLive
<1>1. Init => IdsKept /\ LocksAreLive
  BY DEF Init, IdsKept, Committing, LocksAreLive
<1>2. TypeOK /\ TypeOK' /\ IdsKept /\ LocksAreLive /\ [Next]_vars => (IdsKept /\ LocksAreLive)'
  BY IdsKeptStep, LiveStep
<1>3. QED
  BY <1>1, <1>2, TransactionsTyped, PTL DEF Spec
-----------------------------------------------------------------------------
(* A committed write against the transactions around it.                    *)

(* What c, the innermost cache, or a cache of the stack has committed, no   *)
(* cache further out still has a write of.                                  *)
CommittedOnce(c, st) ==
  /\ OneEach(c)
  /\ \A j \in DOMAIN st : OneEach(st[j].cache)
  /\ \A j \in DOMAIN st : \A r : FreedIn(c, r) => ~HasWrite(st[j].cache, r)
  /\ \A i, j \in DOMAIN st : i < j =>
       \A r : FreedIn(st[i].cache, r) => ~HasWrite(st[j].cache, r)

InnerInv == \A s \in Sessions : CommittedOnce(cache[s], stack[s])

LEMMA NoneInEmpty ==
  /\ OneEach(<<>>) /\ OnlyWrites(<<>>)
  /\ \A r : ~HasWrite(<<>>, r) /\ ~FreedIn(<<>>, r) /\ CachedIn(<<>>, r) = Nothing
BY DEF OneEach, OnlyWrites, HasWrite, FreedIn, CachedIn

LEMMA OnceEmpty == CommittedOnce(<<>>, <<>>)
BY NoneInEmpty DEF CommittedOnce

LEMMA OncePush ==
  ASSUME NEW ids, NEW st \in Seq(Outers(ids)), NEW o \in Outers(ids),
         CommittedOnce(o.cache, st)
  PROVE  CommittedOnce(<<>>, <<o>> \o st)
<1> DEFINE p == <<o>> \o st
<1>1. /\ DOMAIN p = 1 .. (Len(st) + 1) /\ p[1] = o
      /\ \A k \in 2 .. (Len(st) + 1) : p[k] = st[k - 1]
      /\ DOMAIN st = 1 .. Len(st) /\ Len(st) \in Nat
  BY PushSeq, LenProperties
<1> HIDE DEF p
<1>2. \A k \in DOMAIN p : k = 1 \/ (k - 1 \in DOMAIN st /\ p[k] = st[k - 1])
  BY <1>1
<1>3. \A j \in DOMAIN p : OneEach(p[j].cache)
  BY <1>1, <1>2 DEF CommittedOnce
<1>4. ASSUME NEW r, NEW i \in DOMAIN p, NEW j \in DOMAIN p, i < j, FreedIn(p[i].cache, r)
      PROVE  ~HasWrite(p[j].cache, r)
  <2>1. j - 1 \in DOMAIN st /\ p[j] = st[j - 1]
    BY <1>1, <1>2, <1>4
  <2>2. CASE i = 1
    BY <2>1, <2>2, <1>1, <1>4 DEF CommittedOnce
  <2>3. CASE i # 1
    <3>1. i - 1 \in DOMAIN st /\ p[i] = st[i - 1] /\ i - 1 < j - 1
      BY <2>3, <1>1, <1>2, <1>4
    <3>2. QED
      BY <2>1, <3>1, <1>4 DEF CommittedOnce
  <2>4. QED
    BY <2>2, <2>3
<1>5. CommittedOnce(<<>>, p)
  BY <1>3, <1>4, NoneInEmpty DEF CommittedOnce
<1>6. QED
  BY <1>5 DEF p

LEMMA OncePop ==
  ASSUME NEW ids, NEW st \in Seq(Outers(ids)), NEW c, st # <<>>, CommittedOnce(c, st)
  PROVE  CommittedOnce(Head(st).cache, Tail(st))
<1>1. /\ DOMAIN st = 1 .. Len(st) /\ Len(st) \in Nat /\ 1 \in DOMAIN st
      /\ DOMAIN Tail(st) = 1 .. (Len(st) - 1)
      /\ \A i \in 1 .. (Len(st) - 1) : Tail(st)[i] = st[i + 1]
      /\ Head(st) = st[1]
  BY HeadTailProperties, LenProperties
<1>2. \A i \in DOMAIN Tail(st) : i + 1 \in DOMAIN st /\ Tail(st)[i] = st[i + 1] /\ 1 < i + 1
  BY <1>1
<1>3. \A i, j \in DOMAIN Tail(st) : i < j => i + 1 < j + 1
  BY <1>1
<1>4. QED
  BY <1>1, <1>2, <1>3 DEF CommittedOnce

LEMMA OnceApplied ==
  ASSUME NEW ids, NEW st \in Seq(Outers(ids)), NEW c \in Seq(Actions), NEW i \in DOMAIN c,
         CommittedOnce(c, st), c[i].mode = "write"
  PROVE  CommittedOnce([c EXCEPT ![i].freed = TRUE], ClearParent(st, c[i].rec))
<1> DEFINE d == [c EXCEPT ![i].freed = TRUE]
           p == ClearParent(st, c[i].rec)
<1>0. /\ OneEach(c) => OneEach(d)
      /\ \A q : FreedIn(d, q) <=> FreedIn(c, q) \/ IsWriteOf(c[i], q)
  BY AppliedCache
<1>1. OneEach(d) /\ \A q : FreedIn(d, q) <=> FreedIn(c, q) \/ q = c[i].rec
  <2> HIDE DEF d
  <2> QED
    BY <1>0 DEF CommittedOnce, IsWriteOf
<1>2. /\ DOMAIN p = DOMAIN st
      /\ \A j \in DOMAIN st : p[j].cache = Forget(st[j].cache, c[i].rec)
  BY ClearParentSeq
<1>3. \A j \in DOMAIN st : st[j].cache \in Seq(Actions)
  <2> TAKE j \in DOMAIN st
  <2>1. st[j] \in Outers(ids)
    BY LenProperties, ElementOfSeq
  <2>2. QED
    BY <2>1 DEF Outers
<1>4. ASSUME NEW j \in DOMAIN st
      PROVE  /\ OneEach(p[j].cache)
             /\ \A q : HasWrite(p[j].cache, q) <=> HasWrite(st[j].cache, q) /\ q # c[i].rec
             /\ \A q : FreedIn(p[j].cache, q) => FreedIn(st[j].cache, q)
  <2>1. OneEach(st[j].cache)
    BY DEF CommittedOnce
  <2>2. QED
    BY <1>2, <1>3, <2>1, ForgetCache
<1> HIDE DEF d, p
<1>5. CommittedOnce(d, p)
  BY <1>1, <1>2, <1>4 DEF CommittedOnce
<1>6. QED
  BY <1>5 DEF d, p

LEMMA OnceEndLevel ==
  ASSUME TypeOK, NEW s \in Sessions, EndLevel(s), CommittedOnce(cache[s], stack[s])
  PROVE  CommittedOnce(cache'[s], stack'[s])
<1>1. /\ cache \in [Sessions -> Seq(Actions)]
      /\ stack \in [Sessions -> Seq(Outers(Ids))] /\ stack[s] \in Seq(Outers(Ids))
  BY DEF TypeOK
<1>2. CASE stack[s] = <<>>
  <2>1. cache'[s] = <<>> /\ stack'[s] = <<>>
    BY <1>1, <1>2 DEF EndLevel
  <2>2. QED
    BY <2>1, OnceEmpty
<1>3. CASE stack[s] # <<>>
  <2>1. cache'[s] = Head(stack[s]).cache /\ stack'[s] = Tail(stack[s])
    BY <1>1, <1>3 DEF EndLevel
  <2>2. QED
    BY <2>1, <1>1, <1>3, OncePop
<1>4. QED
  BY <1>2, <1>3

LEMMA MyOnce ==
  ASSUME TypeOK, NEW s \in Sessions, Step(s), CommittedOnce(cache[s], stack[s])
  PROVE  CommittedOnce(cache'[s], stack'[s])
<1>1. /\ cache \in [Sessions -> Seq(Actions)] /\ cache[s] \in Seq(Actions)
      /\ stack \in [Sessions -> Seq(Outers(Ids))] /\ stack[s] \in Seq(Outers(Ids))
      /\ txn \in [Sessions -> Ids] /\ level \in [Sessions -> Levels]
  BY DEF TypeOK
<1>2. ASSUME UNCHANGED <<cache, stack>>
      PROVE  CommittedOnce(cache'[s], stack'[s])
  BY <1>2
<1>3. ASSUME NEW d, cache'[s] = d, stack' = stack, OneEach(d),
             \A q : FreedIn(d, q) => FreedIn(cache[s], q)
      PROVE  CommittedOnce(cache'[s], stack'[s])
  BY <1>3 DEF CommittedOnce
<1>4. OneEach(cache[s])
  BY DEF CommittedOnce
<1>5. CASE Statement(s)
  <2>1. CASE Begin(s)
    <3>1. CASE txn[s] = 0
      BY <2>1, <3>1, <1>2 DEF Begin
    <3>2. CASE txn[s] # 0
      <4> DEFINE o == [txn |-> txn[s], level |-> level[s], cache |-> cache[s]]
      <4>1. o \in Outers(Ids) /\ o.cache = cache[s]
        BY <1>1 DEF Outers
      <4>2. stack'[s] = <<o>> \o stack[s] /\ cache'[s] = <<>>
        BY <2>1, <1>1, <3>2 DEF Begin
      <4> HIDE DEF o
      <4>3. CommittedOnce(<<>>, <<o>> \o stack[s])
        BY <1>1, <4>1, OncePush
      <4>4. QED
        BY <4>2, <4>3
    <3>3. QED
      BY <3>1, <3>2
  <2>2. CASE End(s)
    <3>1. CASE txn[s] = 0
      BY <2>2, <3>1, <1>2 DEF End, cached
    <3>2. CASE txn[s] # 0
      BY <2>2, <3>2, OnceEndLevel DEF End, Rollback
    <3>3. QED
      BY <3>1, <3>2
  <2>3. CASE Commit(s) \/ Execute(s) \/ EndCommand(s)
    BY <2>3, <1>2 DEF Commit, Execute, EndCommand, cached
  <2>4. CASE \E r \in Recs : LockRec(s, r) \/ Release(s, r)
    BY <2>4, <1>2 DEF LockRec, Release, cached
  <2>5. ASSUME NEW r \in Recs, NEW v \in Contents, PutLater(s, r, v)
        PROVE  CommittedOnce(cache'[s], stack'[s])
    <3>1. cache'[s] = Deferred(cache[s], r, v) /\ stack' = stack
      BY <2>5, <1>1 DEF PutLater, Defer
    <3>2. /\ OneEach(Deferred(cache[s], r, v))
          /\ \A q : FreedIn(Deferred(cache[s], r, v), q) => FreedIn(cache[s], q)
      BY <1>1, <1>4, DeferredCache
    <3>3. QED
      BY <3>1, <3>2, <1>3
  <2>6. CASE \E r \in Recs, v \in Contents, keep \in BOOLEAN : PutNow(s, r, v, keep)
    BY <2>6, <1>2 DEF PutNow, cached
  <2>7. ASSUME NEW f \in Files, Close(s, f)
        PROVE  CommittedOnce(cache'[s], stack'[s])
    <3>1. CASE txn[s] = 0
      BY <2>7, <3>1, <1>2 DEF Close, cached
    <3>2. CASE txn[s] # 0
      <4>1. cache'[s] = Append(cache[s], CloseOf(f)) /\ stack' = stack
        BY <2>7, <3>2, <1>1 DEF Close
      <4>2. /\ OneEach(Append(cache[s], CloseOf(f)))
            /\ \A q : FreedIn(Append(cache[s], CloseOf(f)), q) => FreedIn(cache[s], q)
        BY <1>1, <1>4, ClosedCache
      <4>3. QED
        BY <4>1, <4>2, <1>3
    <3>3. QED
      BY <3>1, <3>2
  <2>8. ASSUME NEW f \in Files, Reopen(s, f)
        PROVE  CommittedOnce(cache'[s], stack'[s])
    <3>1. PICK i \in DOMAIN cache[s] : cache' = [cache EXCEPT ![s] = RemoveAt(@, i)]
      BY <2>8 DEF Reopen
    <3>2. cache'[s] = RemoveAt(cache[s], i) /\ stack' = stack
      BY <2>8, <3>1, <1>1 DEF Reopen
    <3>3. /\ OneEach(RemoveAt(cache[s], i))
          /\ \A q : FreedIn(RemoveAt(cache[s], i), q) => FreedIn(cache[s], q)
      BY <1>1, <1>4, RemovedCache
    <3>4. QED
      BY <3>2, <3>3, <1>3
  <2>9. QED
    BY <1>5, <2>1, <2>2, <2>3, <2>4, <2>5, <2>6, <2>7, <2>8 DEF Statement
<1>6. CASE Internal(s)
  <2>1. CASE Apply(s)
    <3> DEFINE a == cache[s][pos[s]]
    <3>1. pos[s] \in DOMAIN cache[s]
      BY <2>1, <1>1, LenProperties DEF Apply, Applying, TypeOK
    <3>2. cache'[s] = [cache[s] EXCEPT ![pos[s]].freed = TRUE]
      BY <2>1, <1>1 DEF Apply
    <3>3. CASE a.mode = "write" /\ stack' = [stack EXCEPT ![s] = ClearParent(@, a.rec)]
      <4>1. stack'[s] = ClearParent(stack[s], a.rec)
        BY <3>3, <1>1
      <4>2. QED
        <5>1. CommittedOnce([cache[s] EXCEPT ![pos[s]].freed = TRUE],
                            ClearParent(stack[s], a.rec))
          BY <3>1, <3>3, <1>1, OnceApplied
        <5>2. QED
          BY <3>2, <4>1, <5>1
    <3>4. CASE a.mode = "close" /\ stack' = stack
      <4>1. \A q : ~IsWriteOf(a, q)
        BY <3>4 DEF IsWriteOf
      <4>2. /\ OneEach([cache[s] EXCEPT ![pos[s]].freed = TRUE])
            /\ \A q : FreedIn([cache[s] EXCEPT ![pos[s]].freed = TRUE], q) => FreedIn(cache[s], q)
        BY <1>1, <1>4, <3>1, <4>1, AppliedCache
      <4>3. QED
        BY <3>2, <3>4, <4>2, <1>3
    <3>5. QED
      BY <2>1, <3>3, <3>4 DEF Apply
  <2>2. CASE CommitDone(s) \/ AbortRollback(s) \/ RollbackAll(s)
    BY <2>2, OnceEndLevel DEF CommitDone, AbortRollback, RollbackAll, Rollback
  <2>3. CASE ApplyFails(s) \/ Undo(s) \/ AbortUnlock(s) \/ AbortDone(s) \/ CommandDone(s)
    BY <2>3, <1>2 DEF ApplyFails, Undo, AbortUnlock, AbortDone, CommandDone, cached
  <2>4. QED
    BY <1>6, <2>1, <2>2, <2>3 DEF Internal
<1>7. CASE Event(s)
  <2>1. CASE Reap(s)
    <3>1. cache'[s] = <<>> /\ stack'[s] = <<>>
      BY <2>1, <1>1 DEF Reap
    <3>2. QED
      BY <3>1, OnceEmpty
  <2>2. CASE Abort(s) \/ Crash(s) \/ Fault(s)
    BY <2>2, <1>2 DEF Abort, Crash, Fault, cached
  <2>3. QED
    BY <1>7, <2>1, <2>2 DEF Event
<1>8. QED
  BY <1>5, <1>6, <1>7 DEF Step

LEMMA InnerStep ==
  ASSUME TypeOK, InnerInv, [Next]_vars
  PROVE  InnerInv'
<1>1. ASSUME NEW s \in Sessions, Step(s), NEW t \in Sessions
      PROVE  CommittedOnce(cache'[t], stack'[t])
  <2>1. CASE t = s
    BY <1>1, <2>1, MyOnce DEF InnerInv
  <2>2. CASE t # s
    BY <1>1, <2>2, OthersKeep DEF InnerInv
  <2>3. QED
    BY <2>1, <2>2
<1>2. CASE UNCHANGED vars
  BY <1>2 DEF vars, cached, InnerInv
<1>3. QED
  BY <1>1, <1>2, StepsOrNone DEF InnerInv

LEMMA InnerInvImplies == InnerInv => InnerWriteWins
<1> SUFFICES ASSUME InnerInv, NEW s \in Sessions, NEW i \in DOMAIN cache[s],
                    NEW j \in DOMAIN stack[s], cache[s][i].mode = "write", cache[s][i].freed
             PROVE  CachedIn(stack[s][j].cache, cache[s][i].rec) = Nothing
  BY DEF InnerWriteWins
<1>1. FreedIn(cache[s], cache[s][i].rec)
  BY DEF FreedIn, IsWriteOf
<1>2. ~HasWrite(stack[s][j].cache, cache[s][i].rec)
  BY <1>1 DEF InnerInv, CommittedOnce
<1>3. QED
  BY <1>2 DEF CachedIn

(* InnerWriteWins: at any depth of nesting, with failed commits, closes and *)
(* reopens, no transaction around a commit in flight still has an older     *)
(* write of a record the commit has written (clear_parent).                 *)
THEOREM InnerWritesWin == Spec => []InnerWriteWins
<1>1. Init => InnerInv
  BY OnceEmpty DEF Init, InnerInv
<1>2. TypeOK /\ InnerInv /\ [Next]_vars => InnerInv'
  BY InnerStep
<1>3. QED
  BY <1>1, <1>2, TransactionsTyped, InnerInvImplies, PTL DEF Spec
-----------------------------------------------------------------------------
(* What is left of a transaction that has ended.  Two things leave          *)
(* something behind and the theorem excludes them: a write that fails at    *)
(* COMMIT (Fallible) and a COMMIT after an abort that was trapped.          *)

(* No program commits a transaction that an abort has rolled back.          *)
LiveCommits == \A s \in Sessions : Commit(s) => txn[s] # 0

Idle == {"ready", "rollall", "abort"}

InProgress(s) == IF txn[s] # 0 \/ Committing(s) THEN 1 ELSE 0

LeftOK(s) ==
  /\ at[s] \in Idle => commitId[s] = 0 /\ undo[s] = <<>>
  /\ at[s] # "dead" => depth[s] = Len(stack[s]) + InProgress(s)
  /\ at[s] \in Idle /\ txn[s] = 0 => cache[s] = <<>> /\ stack[s] = <<>>
  /\ \A i \in DOMAIN stack[s] : stack[s][i].txn # 0

LeftInv == IdsKept /\ \A s \in Sessions : LeftOK(s)

(* The end of a level brings the outer transaction back or leaves nothing.  *)
LEMMA EndLevelLeaves ==
  ASSUME TypeOK, NEW s \in Sessions, EndLevel(s), depth[s] = Len(stack[s]) + 1,
         \A i \in DOMAIN stack[s] : stack[s][i].txn # 0
  PROVE  /\ depth'[s] = Len(stack'[s]) + IF txn'[s] # 0 THEN 1 ELSE 0
         /\ txn'[s] = 0 => cache'[s] = <<>> /\ stack'[s] = <<>>
         /\ \A i \in DOMAIN stack'[s] : stack'[s][i].txn # 0
<1>1. /\ txn \in [Sessions -> Ids] /\ depth \in [Sessions -> Int]
      /\ cache \in [Sessions -> Seq(Actions)]
      /\ stack \in [Sessions -> Seq(Outers(Ids))] /\ stack[s] \in Seq(Outers(Ids))
  BY DEF TypeOK
<1>2. depth'[s] = Len(stack[s]) /\ Len(stack[s]) \in Nat
  BY <1>1, LenProperties DEF EndLevel
<1>3. CASE stack[s] = <<>>
  <2>1. txn'[s] = 0 /\ cache'[s] = <<>> /\ stack'[s] = <<>>
    BY <1>1, <1>3 DEF EndLevel
  <2>2. Len(stack'[s]) = 0 /\ Len(stack[s]) = 0
    BY <2>1, <1>3
  <2>3. QED
    BY <1>2, <2>1, <2>2
<1>4. CASE stack[s] # <<>>
  <2>1. txn'[s] = Head(stack[s]).txn /\ stack'[s] = Tail(stack[s])
    BY <1>1, <1>4 DEF EndLevel
  <2>2. /\ DOMAIN stack[s] = 1 .. Len(stack[s]) /\ Len(stack[s]) \in Nat
        /\ 1 \in DOMAIN stack[s]
        /\ Len(Tail(stack[s])) = Len(stack[s]) - 1
        /\ DOMAIN Tail(stack[s]) = 1 .. (Len(stack[s]) - 1)
        /\ \A i \in 1 .. (Len(stack[s]) - 1) : Tail(stack[s])[i] = stack[s][i + 1]
        /\ Head(stack[s]) = stack[s][1]
    BY <1>1, <1>4, HeadTailProperties, LenProperties
  <2>3. txn'[s] # 0
    BY <2>1, <2>2
  <2>4. \A i \in DOMAIN stack'[s] : stack'[s][i].txn # 0
    BY <2>1, <2>2
  <2>5. depth'[s] = Len(stack'[s]) + 1
    BY <1>2, <2>1, <2>2
  <2>6. QED
    BY <2>3, <2>4, <2>5
<1>5. QED
  BY <1>3, <1>4

LEMMA MyLeft ==
  ASSUME TypeOK, LeftInv, Fallible = {}, NEW s \in Sessions, Step(s), Commit(s) => txn[s] # 0
  PROVE  LeftOK(s)'
<1>1. /\ txn \in [Sessions -> Ids] /\ depth \in [Sessions -> Int]
      /\ cache \in [Sessions -> Seq(Actions)] /\ undo \in [Sessions -> Seq(Images)]
      /\ stack \in [Sessions -> Seq(Outers(Ids))] /\ stack[s] \in Seq(Outers(Ids))
      /\ at \in [Sessions -> Places] /\ commitId \in [Sessions -> Ids]
  BY DEF TypeOK
<1>2. LeftOK(s) /\ (at[s] = "commit" => txn[s] = 0)
  BY DEF LeftInv, IdsKept, Committing
<1>3. ASSUME UNCHANGED <<txn, cache, stack, depth, commitId, undo>>,
             at'[s] = at[s] \/ (at[s] \in Idle /\ at'[s] \in Idle)
      PROVE  LeftOK(s)'
  BY <1>1, <1>2, <1>3 DEF LeftOK, InProgress, Committing, Idle
<1>4. ASSUME EndLevel(s), at[s] # "dead", txn[s] # 0 \/ at[s] = "commit",
             at'[s] \in Idle, commitId'[s] = 0, undo'[s] = <<>>
      PROVE  LeftOK(s)'
  <2>1. depth[s] = Len(stack[s]) + 1 /\ \A i \in DOMAIN stack[s] : stack[s][i].txn # 0
    BY <1>2, <1>4 DEF LeftOK, InProgress, Committing
  <2>2. /\ depth'[s] = Len(stack'[s]) + IF txn'[s] # 0 THEN 1 ELSE 0
        /\ txn'[s] = 0 => cache'[s] = <<>> /\ stack'[s] = <<>>
        /\ \A i \in DOMAIN stack'[s] : stack'[s][i].txn # 0
    BY <2>1, <1>4, EndLevelLeaves
  <2>3. QED
    BY <2>2, <1>4 DEF LeftOK, InProgress, Committing, Idle
<1>5. ASSUME at'[s] = at[s], txn'[s] = txn[s], txn[s] # 0, at[s] \in Idle,
             UNCHANGED <<stack, depth, commitId, undo>>
      PROVE  LeftOK(s)'
  BY <1>1, <1>2, <1>5 DEF LeftOK, InProgress, Committing, Idle
<1>6. CASE Statement(s)
  <2>1. CASE Begin(s)
    <3>1. /\ txn'[s] = nextTxn /\ nextTxn # 0 /\ depth'[s] = depth[s] + 1
          /\ at' = at /\ commitId' = commitId /\ undo' = undo /\ at[s] = "ready"
      BY <2>1, <1>1 DEF Begin, doing, TypeOK
    <3>2. CASE txn[s] = 0
      <4>1. stack' = stack
        BY <2>1, <3>2 DEF Begin
      <4>2. depth[s] = Len(stack[s]) /\ Len(stack[s]) \in Nat
        BY <3>1, <3>2, <1>1, <1>2, LenProperties DEF LeftOK, InProgress, Committing
      <4>3. QED
        BY <3>1, <4>1, <4>2, <1>2 DEF LeftOK, InProgress, Committing, Idle
    <3>3. CASE txn[s] # 0
      <4> DEFINE o == [txn |-> txn[s], level |-> level[s], cache |-> cache[s]]
      <4>1. o \in Outers(Ids) /\ o.txn = txn[s]
        BY DEF TypeOK, Outers
      <4>2. stack'[s] = <<o>> \o stack[s]
        BY <2>1, <1>1, <3>3 DEF Begin
      <4> HIDE DEF o
      <4>3. /\ DOMAIN stack'[s] = 1 .. (Len(stack[s]) + 1) /\ stack'[s][1] = o
            /\ Len(stack'[s]) = Len(stack[s]) + 1
            /\ \A k \in 2 .. (Len(stack[s]) + 1) : stack'[s][k] = stack[s][k - 1]
            /\ DOMAIN stack[s] = 1 .. Len(stack[s]) /\ Len(stack[s]) \in Nat
        BY <1>1, <4>1, <4>2, PushSeq, LenProperties
      <4>4. depth[s] = Len(stack[s]) + 1 /\ \A i \in DOMAIN stack[s] : stack[s][i].txn # 0
        BY <3>1, <3>3, <1>2 DEF LeftOK, InProgress
      <4>5. ASSUME NEW k \in DOMAIN stack'[s]
            PROVE  stack'[s][k].txn # 0
        <5>1. CASE k = 1
          BY <5>1, <4>1, <4>3, <3>3
        <5>2. CASE k # 1
          <6>1. k - 1 \in DOMAIN stack[s] /\ stack'[s][k] = stack[s][k - 1]
            BY <5>2, <4>3
          <6>2. QED
            BY <6>1, <4>4
        <5>3. QED
          BY <5>1, <5>2
      <4>6. QED
        BY <3>1, <4>3, <4>4, <4>5, <1>2 DEF LeftOK, InProgress, Committing, Idle
    <3>4. QED
      BY <3>2, <3>3
  <2>2. CASE Commit(s)
    <3>1. /\ txn[s] # 0 /\ at[s] = "ready" /\ at'[s] = "commit" /\ txn'[s] = 0
          /\ stack' = stack /\ depth' = depth
      BY <2>2, <1>1 DEF Commit, Goto
    <3>2. QED
      BY <3>1, <1>2 DEF LeftOK, InProgress, Committing, Idle
  <2>3. CASE End(s)
    <3>1. CASE txn[s] = 0
      BY <2>3, <3>1, <1>1, <1>3 DEF End, cached, Goto, Idle
    <3>2. CASE txn[s] # 0
      <4>1. /\ EndLevel(s) /\ at[s] = "ready" /\ at' = at
            /\ commitId' = commitId /\ undo' = undo
        BY <2>3, <3>2 DEF End, Rollback, doing
      <4>2. commitId[s] = 0 /\ undo[s] = <<>>
        BY <4>1, <1>2 DEF LeftOK, Idle
      <4>3. QED
        BY <4>1, <4>2, <3>2, <1>4 DEF Idle
    <3>3. QED
      BY <3>1, <3>2
  <2>4. CASE Execute(s) \/ EndCommand(s)
    BY <2>4, <1>1, <1>3 DEF Execute, EndCommand, cached, doing, Goto, Idle
  <2>5. CASE \E r \in Recs : LockRec(s, r) \/ Release(s, r)
    BY <2>5, <1>3 DEF LockRec, Release, cached, doing
  <2>6. CASE \E r \in Recs, v \in Contents, keep \in BOOLEAN : PutNow(s, r, v, keep)
    BY <2>6, <1>3 DEF PutNow, cached, doing
  <2>7. CASE \E r \in Recs, v \in Contents : PutLater(s, r, v)
    BY <2>7, <1>5 DEF PutLater, doing, Idle
  <2>8. ASSUME NEW f \in Files, Close(s, f)
        PROVE  LeftOK(s)'
    <3>1. CASE txn[s] = 0
      BY <2>8, <3>1, <1>3 DEF Close, cached, doing
    <3>2. CASE txn[s] # 0
      BY <2>8, <3>2, <1>5 DEF Close, doing, Idle
    <3>3. QED
      BY <3>1, <3>2
  <2>9. CASE \E f \in Files : Reopen(s, f)
    BY <2>9, <1>5 DEF Reopen, doing, Idle
  <2>10. QED
    BY <1>6, <2>1, <2>2, <2>3, <2>4, <2>5, <2>6, <2>7, <2>8, <2>9 DEF Statement
<1>7. CASE Internal(s)
  <2>1. CASE Apply(s)
    <3> DEFINE a == cache[s][pos[s]]
    <3>1. /\ at[s] = "commit" /\ at' = at /\ UNCHANGED <<txn, depth>>
          /\ (stack' = [stack EXCEPT ![s] = ClearParent(@, a.rec)] \/ stack' = stack)
      BY <2>1 DEF Apply, Applying, Committing
    <3>2. /\ Len(stack'[s]) = Len(stack[s]) /\ DOMAIN stack'[s] = DOMAIN stack[s]
          /\ \A i \in DOMAIN stack[s] : stack'[s][i].txn = stack[s][i].txn
      <4>1. CASE stack' = [stack EXCEPT ![s] = ClearParent(@, a.rec)]
        <5>1. stack'[s] = ClearParent(stack[s], a.rec)
          BY <4>1, <1>1
        <5>2. QED
          BY <5>1, <1>1, ClearParentSeq
      <4>2. CASE stack' = stack
        BY <4>2
      <4>3. QED
        BY <3>1, <4>1, <4>2
    <3>3. QED
      BY <3>1, <3>2, <1>2 DEF LeftOK, InProgress, Committing, Idle
  <2>2. CASE ApplyFails(s)
    BY <2>2 DEF ApplyFails
  <2>3. CASE CommitDone(s)
    <3>1. /\ EndLevel(s) /\ at[s] = "commit" /\ at'[s] = "ready"
          /\ commitId'[s] = 0 /\ undo'[s] = <<>>
      BY <2>3, <1>1 DEF CommitDone, Committing, Goto
    <3>2. QED
      BY <3>1, <1>4 DEF Idle
  <2>4. CASE Undo(s) \/ AbortUnlock(s)
    BY <2>4, <1>2 DEF Undo, AbortUnlock, LeftOK, Idle
  <2>5. CASE AbortRollback(s) \/ RollbackAll(s)
    <3>1. /\ EndLevel(s) /\ at[s] \in Idle /\ at' = at /\ txn[s] # 0
          /\ commitId' = commitId /\ undo' = undo
      BY <2>5 DEF AbortRollback, RollbackAll, Rollback, doing, Idle
    <3>2. commitId[s] = 0 /\ undo[s] = <<>> /\ at[s] # "dead"
      BY <3>1, <1>2 DEF LeftOK, Idle
    <3>3. QED
      BY <3>1, <3>2, <1>4
  <2>6. CASE AbortDone(s) \/ CommandDone(s)
    BY <2>6, <1>1, <1>3 DEF AbortDone, CommandDone, cached, Goto, Idle
  <2>7. QED
    BY <1>7, <2>1, <2>2, <2>3, <2>4, <2>5, <2>6 DEF Internal
<1>8. CASE Event(s)
  <2>1. CASE Abort(s)
    BY <2>1, <1>1, <1>3 DEF Abort, cached, Goto, Idle
  <2>2. CASE Crash(s) \/ Fault(s)
    <3>1. at'[s] = "dead" /\ stack' = stack
      BY <2>2, <1>1 DEF Crash, Fault, Goto, cached
    <3>2. QED
      BY <3>1, <1>2 DEF LeftOK, Idle
  <2>3. CASE Reap(s)
    <3>1. /\ at'[s] = "ready" /\ txn'[s] = 0 /\ cache'[s] = <<>> /\ stack'[s] = <<>>
          /\ depth'[s] = 0 /\ commitId'[s] = 0 /\ undo'[s] = <<>>
      BY <2>3, <1>1 DEF Reap, Goto
    <3>2. Len(stack'[s]) = 0 /\ DOMAIN stack'[s] = {}
      BY <3>1
    <3>3. QED
      BY <3>1, <3>2 DEF LeftOK, InProgress, Committing, Idle
  <2>4. QED
    BY <1>8, <2>1, <2>2, <2>3 DEF Event
<1>9. QED
  BY <1>6, <1>7, <1>8 DEF Step

LEMMA LeftStep ==
  ASSUME TypeOK, LeftInv, Fallible = {}, [Next]_vars, [LiveCommits]_vars
  PROVE  LeftInv'
<1>1. IdsKept'
  BY IdsKeptStep DEF LeftInv
<1>2. ASSUME NEW s \in Sessions, Step(s), ~UNCHANGED vars, NEW t \in Sessions
      PROVE  LeftOK(t)'
  <2>1. CASE t = s
    BY <1>2, <2>1, MyLeft DEF LiveCommits
  <2>2. CASE t # s
    <3>1. LeftOK(t)
      BY DEF LeftInv
    <3>2. /\ txn'[t] = txn[t] /\ cache'[t] = cache[t] /\ stack'[t] = stack[t]
          /\ depth'[t] = depth[t] /\ commitId'[t] = commitId[t] /\ undo'[t] = undo[t]
          /\ at'[t] = at[t]
      BY <1>2, <2>2, OthersKeep
    <3>3. QED
      BY <3>1, <3>2 DEF LeftOK, InProgress, Committing
  <2>3. QED
    BY <2>1, <2>2
<1>3. CASE UNCHANGED vars
  BY <1>3 DEF vars, cached, doing, LeftInv, IdsKept, LeftOK, InProgress, Committing
<1>4. QED
  BY <1>1, <1>2, <1>3, StepsOrNone DEF LeftInv

(* NothingLeftBehind: if no write fails at COMMIT and no program commits    *)
(* what an abort has rolled back, then at any depth of nesting, across      *)
(* EXECUTE, trapped aborts, closes, kills and reaping, a session outside a  *)
(* transaction has no deferred action, outer level, image or id left over.  *)
THEOREM NothingIsLeftBehind ==
  Fallible = {} => (Spec /\ [][LiveCommits]_vars => []NothingLeftBehind)
<1> SUFFICES ASSUME Fallible = {}
             PROVE  Spec /\ [][LiveCommits]_vars => []NothingLeftBehind
  OBVIOUS
<1>1. Init => LeftInv
  BY DEF Init, LeftInv, IdsKept, LeftOK, InProgress, Committing
<1>2. TypeOK /\ LeftInv /\ [Next]_vars /\ [LiveCommits]_vars => LeftInv'
  BY LeftStep
<1>3. LeftInv => NothingLeftBehind
  <2> SUFFICES ASSUME LeftInv, NEW s \in Sessions, at[s] = "ready", txn[s] = 0
               PROVE  /\ cache[s] = <<>> /\ stack[s] = <<>> /\ depth[s] = 0
                      /\ commitId[s] = 0 /\ undo[s] = <<>>
    BY DEF NothingLeftBehind
  <2>1. /\ cache[s] = <<>> /\ stack[s] = <<>> /\ commitId[s] = 0 /\ undo[s] = <<>>
        /\ depth[s] = Len(stack[s]) + InProgress(s) /\ InProgress(s) = 0
    BY DEF LeftInv, LeftOK, Idle, InProgress, Committing
  <2>2. Len(stack[s]) = 0
    BY <2>1
  <2>3. QED
    BY <2>1, <2>2
<1>4. QED
  BY <1>1, <1>2, <1>3, TransactionsTyped, PTL DEF Spec

(* All that a session has begun is of one level l, its own or one of the    *)
(* callers', and depth counts it, until "rollback all" has set about it.    *)
BegunAt(s, l) ==
  /\ l <= level[s] /\ (at[s] = "commit" => l = level[s])
  /\ \A k \in Levels : k # l => begun[s][k] = 0
  /\ (at[s] # "rollall" \/ l # level[s]) => begun[s][l] = depth[s]
  /\ txn[s] # 0 => txnLevel[s] = l
  /\ \A i \in DOMAIN stack[s] : stack[s][i].level = l

BegunOK(s) ==
  at[s] # "dead" => at[s] # "abort" /\ \E l \in Levels : BegunAt(s, l)

BegunInv == LeftInv /\ \A s \in Sessions : BegunOK(s)

LEMMA OthersLevel ==
  ASSUME TypeOK, NEW s \in Sessions, Step(s), NEW t \in Sessions, t # s
  PROVE  txnLevel'[t] = txnLevel[t]
<1>1. txnLevel \in [Sessions -> Levels]
  BY DEF TypeOK
<1>2. EndLevel(s) => txnLevel'[t] = txnLevel[t]
  BY <1>1 DEF EndLevel
<1>3. CASE Statement(s)
  BY <1>1, <1>2, <1>3 DEF Statement, LockRec, Release, PutNow, PutLater, Close, Reopen, Begin, Commit,
     End, Execute, EndCommand, Rollback, cached
<1>4. CASE Internal(s)
  BY <1>1, <1>2, <1>4 DEF Internal, Apply, ApplyFails, CommitDone, Undo, AbortUnlock, AbortRollback,
     AbortDone, RollbackAll, CommandDone, Rollback, cached
<1>5. CASE Event(s)
  BY <1>1, <1>5 DEF Event, Abort, Crash, Fault, Reap, cached
<1>6. QED
  BY <1>3, <1>4, <1>5 DEF Step

(* The end of a level leaves the outer transactions where they were begun.  *)
LEMMA EndLevelLevels ==
  ASSUME TypeOK, NEW s \in Sessions, EndLevel(s), NEW l,
         \A i \in DOMAIN stack[s] : stack[s][i].level = l
  PROVE  /\ txn'[s] # 0 => txnLevel'[s] = l
         /\ \A i \in DOMAIN stack'[s] : stack'[s][i].level = l
         /\ depth'[s] = depth[s] - 1
<1>1. /\ txn \in [Sessions -> Ids] /\ depth \in [Sessions -> Int]
      /\ txnLevel \in [Sessions -> Levels]
      /\ stack \in [Sessions -> Seq(Outers(Ids))] /\ stack[s] \in Seq(Outers(Ids))
  BY DEF TypeOK
<1>2. depth'[s] = depth[s] - 1
  BY <1>1 DEF EndLevel
<1>3. CASE stack[s] = <<>>
  BY <1>1, <1>2, <1>3 DEF EndLevel
<1>4. CASE stack[s] # <<>>
  <2>1. /\ txnLevel'[s] = Head(stack[s]).level /\ stack'[s] = Tail(stack[s])
    BY <1>1, <1>4 DEF EndLevel
  <2>2. /\ DOMAIN stack[s] = 1 .. Len(stack[s]) /\ Len(stack[s]) \in Nat
        /\ 1 \in DOMAIN stack[s]
        /\ DOMAIN Tail(stack[s]) = 1 .. (Len(stack[s]) - 1)
        /\ \A i \in 1 .. (Len(stack[s]) - 1) : Tail(stack[s])[i] = stack[s][i + 1]
        /\ Head(stack[s]) = stack[s][1]
    BY <1>1, <1>4, HeadTailProperties, LenProperties
  <2>3. txnLevel'[s] = l
    BY <2>1, <2>2
  <2>4. \A i \in DOMAIN stack'[s] : stack'[s][i].level = l
    BY <2>1, <2>2
  <2>5. QED
    BY <1>2, <2>3, <2>4
<1>5. QED
  BY <1>3, <1>4

(* Outside a transaction nothing is begun; inside, something is.            *)
LEMMA DepthMeans ==
  ASSUME TypeOK, LeftInv, NEW s \in Sessions, at[s] \in Idle
  PROVE  /\ txn[s] = 0 => depth[s] = 0 /\ stack[s] = <<>>
         /\ depth[s] = Len(stack[s]) + (IF txn[s] = 0 THEN 0 ELSE 1)
<1>1. LeftOK(s) /\ ~Committing(s) /\ at[s] # "dead"
  BY DEF LeftInv, Idle, Committing
<1>2. depth[s] = Len(stack[s]) + (IF txn[s] = 0 THEN 0 ELSE 1)
  BY <1>1 DEF LeftOK, InProgress
<1>3. txn[s] = 0 => stack[s] = <<>>
  BY <1>1 DEF LeftOK
<1>4. ASSUME txn[s] = 0
      PROVE  depth[s] = 0
  <2>1. Len(stack[s]) = 0
    BY <1>3, <1>4
  <2>2. QED
    BY <1>2, <1>4, <2>1
<1>5. QED
  BY <1>2, <1>3, <1>4

(* Only a session that has not been killed takes a step of its own.         *)
LEMMA StepOfTheLiving ==
  ASSUME NEW s \in Sessions, Step(s), ~Reap(s)
  PROVE  at[s] # "dead"
<1>1. CASE Statement(s)
  BY <1>1 DEF Statement, LockRec, Release, PutNow, PutLater, Close, Reopen, Begin, Commit, End, Execute,
     EndCommand
<1>2. CASE Internal(s)
  BY <1>2 DEF Internal, Apply, Applying, ApplyFails, Committing, CommitDone, Undo, AbortUnlock,
     AbortRollback, AbortDone, RollbackAll, CommandDone
<1>3. CASE Event(s)
  BY <1>3 DEF Event, Abort, Crash, Fault
<1>4. QED
  BY <1>1, <1>2, <1>3 DEF Step

(* Programs that do not abort, and whose commands begin no transaction in a *)
(* caller's: txn_abort takes all there are, and op_txnbgn notes the level   *)
(* of the command for the caller's transaction (txn.c:193).                 *)
OneLevel == Fallible = {} /\ Aborters = {} /\ Nesters = {}

(* The level a session has begun something at is its own.                   *)
LEMMA BegunHere ==
  ASSUME NEW s \in Sessions, NEW l, BegunAt(s, l), level[s] \in Levels, begun[s][level[s]] > 0
  PROVE  l = level[s]
BY DEF BegunAt

LEMMA MyBegun ==
  ASSUME TypeOK, BegunInv, OneLevel, NEW s \in Sessions, Step(s)
  PROVE  BegunOK(s)'
<1>1. /\ txn \in [Sessions -> Ids] /\ depth \in [Sessions -> Int]
      /\ txnLevel \in [Sessions -> Levels] /\ level \in [Sessions -> Levels]
      /\ begun \in [Sessions -> [Levels -> Nat]] /\ begun[s] \in [Levels -> Nat]
      /\ stack \in [Sessions -> Seq(Outers(Ids))] /\ stack[s] \in Seq(Outers(Ids))
      /\ at \in [Sessions -> Places] /\ level[s] \in Levels /\ depth[s] \in Int
  BY DEF TypeOK
<1>l. Levels \subseteq Nat \ {0}
  BY DEF Levels
<1>2. SUFFICES ASSUME at'[s] # "dead"
               PROVE  at'[s] # "abort" /\ \E l \in Levels : BegunAt(s, l)'
  BY DEF BegunOK
<1>3. CASE Reap(s)
  <2>1. /\ at'[s] = "ready" /\ level'[s] = 1 /\ begun'[s] = NoneBegun /\ depth'[s] = 0
        /\ txn'[s] = 0 /\ stack'[s] = <<>> /\ 1 \in Levels
    BY <1>1, <1>3, TxnConstants DEF Reap, Goto, Levels
  <2>2. DOMAIN stack'[s] = {}
    BY <2>1
  <2>3. PICK l \in Levels : l = 1
    BY <2>1
  <2>4. BegunAt(s, l)'
    BY <2>1, <2>2, <2>3 DEF BegunAt, NoneBegun
  <2>5. QED
    BY <2>1, <2>4
<1>4. CASE ~Reap(s)
  <2>1. at[s] # "dead"
    BY <1>4, StepOfTheLiving
  <2>2. PICK l \in Levels : BegunAt(s, l)
    BY <2>1 DEF BegunInv, BegunOK
  <2>t. /\ l \in Nat /\ level[s] \in Nat /\ begun[s][l] \in Nat /\ begun[s][level[s]] \in Nat
        /\ l > 0
    <3>1. level[s] \in Levels /\ begun[s] \in [Levels -> Nat]
      BY <1>1
    <3>2. l \in Nat \ {0} /\ level[s] \in Nat \ {0}
      BY <1>l, <3>1
    <3>3. begun[s][l] \in Nat /\ begun[s][level[s]] \in Nat
      BY <3>1
    <3>4. QED
      BY <3>2, <3>3
  <2>a. at[s] # "abort"
    BY <2>1 DEF BegunInv, BegunOK
  <2>i. at[s] \in Idle /\ txn[s] = 0 => depth[s] = 0 /\ stack[s] = <<>>
    BY DepthMeans DEF BegunInv
  <2>j. at[s] \in Idle /\ txn[s] # 0 => depth[s] > 0
    <3>1. Len(stack[s]) \in Nat
      BY <1>1, LenProperties
    <3>2. QED
      BY <1>1, <3>1, DepthMeans DEF BegunInv
  <2>3. ASSUME UNCHANGED <<txnLevel, level, begun, depth>>,
               at'[s] = at[s] \/ (at[s] = "ready" /\ at'[s] = "rollall")
                 \/ (at[s] = "ready" /\ at'[s] = "commit" /\ begun[s][level[s]] > 0),
               txn'[s] \in {txn[s], 0}, stack'[s] = stack[s]
        PROVE  at'[s] # "abort" /\ BegunAt(s, l)'
    <3>1. at'[s] = "commit" => l = level[s]
      BY <1>1, <2>2, <2>3, BegunHere DEF BegunAt
    <3>2. at'[s] # "rollall" => at[s] # "rollall"
      BY <2>3
    <3>3. QED
      BY <1>1, <2>2, <2>3, <2>a, <3>1, <3>2 DEF BegunAt
  <2>4. ASSUME EndLevel(s), UNCHANGED level, at'[s] \in {"ready", "rollall"}, l = level[s],
               \/ /\ begun' = [begun EXCEPT ![s][level[s]] = @ - 1]
                  /\ at[s] # "rollall"
               \/ UNCHANGED begun /\ at'[s] = "rollall"
        PROVE  at'[s] # "abort" /\ BegunAt(s, l)'
    <3>1. /\ txn'[s] # 0 => txnLevel'[s] = l
          /\ \A i \in DOMAIN stack'[s] : stack'[s][i].level = l
          /\ depth'[s] = depth[s] - 1
      BY <2>2, <2>4, EndLevelLevels DEF BegunAt
    <3>2. CASE begun' = [begun EXCEPT ![s][level[s]] = @ - 1] /\ at[s] # "rollall"
      <4>1. /\ begun'[s][l] = begun[s][l] - 1
            /\ \A k \in Levels : k # l => begun'[s][k] = begun[s][k]
        BY <1>1, <2>4, <3>2
      <4>2. begun[s][l] = depth[s]
        BY <2>2, <3>2 DEF BegunAt
      <4>3. QED
        BY <1>1, <1>l, <2>2, <2>4, <3>1, <4>1, <4>2 DEF BegunAt
    <3>3. CASE UNCHANGED begun /\ at'[s] = "rollall"
      BY <1>1, <1>l, <2>2, <2>4, <3>1, <3>3 DEF BegunAt
    <3>4. QED
      BY <2>4, <3>2, <3>3
  <2>5. CASE Statement(s)
    <3>1. CASE Begin(s)
      <4>1. /\ depth'[s] = depth[s] + 1 /\ txnLevel'[s] = level[s] /\ at' = at /\ at[s] = "ready"
            /\ level' = level /\ begun' = [begun EXCEPT ![s][level[s]] = @ + 1]
            /\ \A k \in 1 .. (level[s] - 1) : begun[s][k] = 0
        BY <3>1, <1>1 DEF Begin, doing, OneLevel
      <4>2. /\ begun'[s][level[s]] = begun[s][level[s]] + 1
            /\ \A k \in Levels : k # level[s] => begun'[s][k] = begun[s][k]
        BY <1>1, <4>1
      <4>3. begun[s][l] = depth[s] /\ l <= level[s]
        BY <2>2, <4>1 DEF BegunAt
      <4>4. ASSUME txn[s] # 0
            PROVE  l = level[s]
        <5>1. begun[s][l] > 0
          BY <2>j, <4>1, <4>3, <4>4 DEF Idle
        <5>2. CASE l < level[s]
          <6>1. l \in 1 .. (level[s] - 1)
            BY <2>t, <5>2
          <6>2. QED
            BY <4>1, <5>1, <6>1
        <5>3. QED
          BY <2>t, <4>3, <5>2
      <4>5. begun[s][level[s]] = depth[s]
        <5>1. CASE txn[s] = 0
          <6>1. depth[s] = 0
            BY <2>i, <4>1, <5>1 DEF Idle
          <6>2. QED
            BY <1>1, <2>2, <4>3, <6>1 DEF BegunAt
        <5>2. CASE txn[s] # 0
          BY <4>3, <4>4, <5>2
        <5>3. QED
          BY <5>1, <5>2
      <4>6. \A k \in Levels : k # level[s] => begun[s][k] = 0
        <5>1. CASE txn[s] = 0
          <6>1. depth[s] = 0
            BY <2>i, <4>1, <5>1 DEF Idle
          <6>2. QED
            BY <1>1, <2>2, <4>3, <6>1 DEF BegunAt
        <5>2. CASE txn[s] # 0
          BY <2>2, <4>4, <5>2 DEF BegunAt
        <5>3. QED
          BY <5>1, <5>2
      <4>7. \A i \in DOMAIN stack'[s] : stack'[s][i].level = level[s]
        <5>1. CASE txn[s] = 0
          <6>1. stack'[s] = <<>>
            BY <2>i, <3>1, <4>1, <5>1 DEF Begin, Idle
          <6>2. QED
            BY <6>1
        <5>2. CASE txn[s] # 0
          <6> DEFINE o == [txn |-> txn[s], level |-> level[s], cache |-> cache[s]]
          <6>1. o \in Outers(Ids) /\ o.level = level[s]
            BY DEF TypeOK, Outers
          <6>2. stack'[s] = <<o>> \o stack[s]
            BY <3>1, <1>1, <5>2 DEF Begin
          <6> HIDE DEF o
          <6>3. /\ DOMAIN stack'[s] = 1 .. (Len(stack[s]) + 1) /\ stack'[s][1] = o
                /\ \A k \in 2 .. (Len(stack[s]) + 1) : stack'[s][k] = stack[s][k - 1]
                /\ DOMAIN stack[s] = 1 .. Len(stack[s]) /\ Len(stack[s]) \in Nat
            BY <1>1, <6>1, <6>2, PushSeq, LenProperties
          <6>4. \A i \in DOMAIN stack[s] : stack[s][i].level = level[s]
            BY <2>2, <4>4, <5>2 DEF BegunAt
          <6>5. ASSUME NEW k \in DOMAIN stack'[s]
                PROVE  stack'[s][k].level = level[s]
            <7>1. k = 1 \/ (k - 1 \in DOMAIN stack[s] /\ stack'[s][k] = stack[s][k - 1])
              BY <6>3
            <7>2. QED
              BY <7>1, <6>1, <6>3, <6>4
          <6>6. QED
            BY <6>5
        <5>3. QED
          BY <5>1, <5>2
      <4>8. BegunAt(s, level[s])'
        <5>1. /\ level'[s] <= level'[s] /\ begun'[s][level[s]] = depth'[s]
              /\ \A k \in Levels : k # level[s] => begun'[s][k] = 0
          BY <2>t, <4>1, <4>2, <4>5, <4>6
        <5>2. level'[s] = level[s] /\ at'[s] = "ready" /\ txnLevel'[s] = level[s]
          BY <4>1
        <5>3. QED
          BY <4>7, <5>1, <5>2 DEF BegunAt
      <4>9. PICK h \in Levels : h = level[s]
        BY <1>1
      <4>10. BegunAt(s, h)'
        BY <4>1, <4>8, <4>9
      <4>11. QED
        BY <4>1, <4>10
    <3>2. CASE Commit(s)
      BY <3>2, <1>1, <2>3 DEF Commit, Goto, program
    <3>3. CASE End(s)
      <4>1. begun[s][level[s]] > 0 /\ at[s] = "ready"
        BY <3>3 DEF End
      <4>2. l = level[s] /\ begun[s][l] = depth[s]
        BY <1>1, <2>2, <4>1, BegunHere DEF BegunAt
      <4>3. txn[s] # 0
        BY <1>1, <2>i, <4>1, <4>2 DEF Idle
      <4>4. QED
        BY <3>3, <4>1, <4>2, <4>3, <2>4 DEF End, Rollback, doing
    <3>4. CASE Execute(s)
      <4>1. /\ at[s] = "ready" /\ at' = at /\ begun' = begun /\ level'[s] = level[s] + 1
            /\ UNCHANGED <<txn, stack, txnLevel, depth>>
        BY <3>4, <1>1 DEF Execute, doing, cached
      <4>2. l <= level[s] /\ l <= level[s] + 1
        BY <2>2, <2>t DEF BegunAt
      <4>3. BegunAt(s, l)'
        BY <2>2, <4>1, <4>2 DEF BegunAt
      <4>4. QED
        BY <4>1, <4>3
    <3>5. CASE EndCommand(s)
      BY <3>5, <1>1, <2>3 DEF EndCommand, cached, program, Goto
    <3>6. CASE \/ \E r \in Recs : LockRec(s, r) \/ Release(s, r)
               \/ \E r \in Recs, v \in Contents, keep \in BOOLEAN : PutNow(s, r, v, keep)
      BY <3>6, <2>3 DEF LockRec, Release, PutNow, cached, program, doing
    <3>7. CASE \E r \in Recs, v \in Contents : PutLater(s, r, v)
      BY <3>7, <2>3 DEF PutLater, program, doing
    <3>8. CASE \E f \in Files : Close(s, f) \/ Reopen(s, f)
      BY <3>8, <2>3 DEF Close, Reopen, cached, doing
    <3>9. QED
      BY <2>5, <3>1, <3>2, <3>3, <3>4, <3>5, <3>6, <3>7, <3>8 DEF Statement
  <2>6. CASE Internal(s)
    <3>1. CASE Apply(s)
      <4> DEFINE a == cache[s][pos[s]]
      <4>1. /\ at[s] = "commit" /\ at' = at /\ UNCHANGED <<txn, depth, txnLevel, level, begun>>
            /\ (stack' = [stack EXCEPT ![s] = ClearParent(@, a.rec)] \/ stack' = stack)
        BY <3>1 DEF Apply, Applying, Committing, program
      <4>2. /\ DOMAIN stack'[s] = DOMAIN stack[s]
            /\ \A i \in DOMAIN stack[s] : stack'[s][i].level = stack[s][i].level
        <5>1. CASE stack' = [stack EXCEPT ![s] = ClearParent(@, a.rec)]
          <6>1. stack'[s] = ClearParent(stack[s], a.rec)
            BY <5>1, <1>1
          <6>2. QED
            BY <6>1, <1>1, ClearParentSeq
        <5>2. CASE stack' = stack
          BY <5>2
        <5>3. QED
          BY <4>1, <5>1, <5>2
      <4>3. BegunAt(s, l)'
        BY <4>1, <4>2, <2>2 DEF BegunAt
      <4>4. QED
        BY <4>1, <4>3
    <3>2. CASE ApplyFails(s)
      BY <3>2 DEF ApplyFails, OneLevel
    <3>3. CASE CommitDone(s)
      <4>1. /\ at[s] = "commit" /\ at'[s] = "ready" /\ UNCHANGED level /\ EndLevel(s)
            /\ begun' = [begun EXCEPT ![s][level[s]] = @ - 1]
        BY <3>3, <1>1 DEF CommitDone, Committing, Goto
      <4>2. l = level[s]
        BY <2>2, <4>1 DEF BegunAt
      <4>3. QED
        BY <4>1, <4>2, <2>4
    <3>4. CASE Undo(s) \/ AbortUnlock(s) \/ AbortRollback(s) \/ AbortDone(s)
      BY <3>4, <2>a DEF Undo, AbortUnlock, AbortRollback, AbortDone
    <3>5. CASE RollbackAll(s)
      <4>1. /\ at[s] = "rollall" /\ at' = at /\ UNCHANGED <<level, begun>> /\ EndLevel(s)
            /\ txnLevel[s] >= level[s] /\ txn[s] # 0
        BY <3>5 DEF RollbackAll, Rollback, program, doing
      <4>2. l = level[s]
        BY <1>1, <1>l, <2>2, <4>1 DEF BegunAt
      <4>3. QED
        BY <4>1, <4>2, <2>4
    <3>6. CASE CommandDone(s)
      <4>1. /\ at[s] = "rollall" /\ at'[s] = "ready" /\ UNCHANGED <<txn, stack, txnLevel, depth>>
            /\ ~(txn[s] # 0 /\ txnLevel[s] >= level[s])
            /\ level'[s] = IF level[s] > 1 THEN level[s] - 1 ELSE 1
            /\ \A k \in Levels : begun'[s][k] = IF k = level[s] THEN 0 ELSE begun[s][k]
        BY <3>6, <1>1 DEF CommandDone, cached, Goto
      <4>2. CASE txn[s] # 0
        <5>1. l < level[s] /\ begun[s][l] = depth[s]
          BY <1>1, <1>l, <2>2, <4>1, <4>2 DEF BegunAt
        <5>2. BegunAt(s, l)'
          <6>1. l <= level'[s] /\ level[s] # l
            BY <2>t, <4>1, <5>1
          <6>2. begun'[s][l] = depth'[s] /\ \A k \in Levels : k # l => begun'[s][k] = 0
            BY <2>2, <4>1, <5>1, <6>1 DEF BegunAt
          <6>3. QED
            BY <2>2, <4>1, <4>2, <6>1, <6>2 DEF BegunAt
        <5>3. QED
          BY <4>1, <5>2
      <4>3. CASE txn[s] = 0
        <5>1. depth[s] = 0 /\ stack[s] = <<>>
          BY <2>i, <4>1, <4>3 DEF Idle
        <5>2. \A k \in Levels : begun'[s][k] = 0
          BY <1>1, <2>2, <4>1, <5>1 DEF BegunAt
        <5>3. 1 \in Levels /\ 1 <= level'[s]
          BY <1>1, <1>l, <4>1, TxnConstants DEF Levels
        <5>4. BegunAt(s, 1)'
          BY <4>1, <4>3, <5>1, <5>2, <5>3 DEF BegunAt
        <5>5. QED
          BY <4>1, <5>3, <5>4
      <4>4. QED
        BY <4>2, <4>3
    <3>7. QED
      BY <2>6, <3>1, <3>2, <3>3, <3>4, <3>5, <3>6 DEF Internal
  <2>7. CASE Event(s)
    <3>1. CASE Abort(s)
      BY <3>1 DEF Abort, OneLevel
    <3>2. CASE Crash(s) \/ Fault(s)
      BY <3>2, <1>1, <1>2 DEF Crash, Fault, Goto
    <3>3. QED
      BY <1>4, <2>7, <3>1, <3>2 DEF Event
  <2>8. QED
    BY <2>5, <2>6, <2>7 DEF Step
<1>5. QED
  BY <1>3, <1>4

(* A program at a level that has begun something is in a transaction, so it *)
(* commits one that is there.                                               *)
LEMMA BegunCommits ==
  ASSUME TypeOK, BegunInv
  PROVE  LiveCommits
<1> SUFFICES ASSUME NEW s \in Sessions, Commit(s)
             PROVE  txn[s] # 0
  BY DEF LiveCommits
<1>1. at[s] = "ready" /\ begun[s][level[s]] > 0 /\ level[s] \in Levels
  BY DEF Commit, TypeOK
<1>2. PICK l \in Levels : BegunAt(s, l)
  BY <1>1 DEF BegunInv, BegunOK
<1>3. begun[s][l] = depth[s] /\ l = level[s]
  BY <1>1, <1>2, BegunHere DEF BegunAt
<1>4. txn[s] = 0 => depth[s] = 0
  BY <1>1, DepthMeans DEF BegunInv, Idle
<1>5. QED
  BY <1>1, <1>3, <1>4

LEMMA BegunStep ==
  ASSUME TypeOK, BegunInv, OneLevel, [Next]_vars
  PROVE  BegunInv'
<1>1. LeftInv'
  BY BegunCommits, LeftStep DEF BegunInv, OneLevel
<1>2. ASSUME NEW s \in Sessions, Step(s), ~UNCHANGED vars, NEW t \in Sessions
      PROVE  BegunOK(t)'
  <2>1. CASE t = s
    BY <1>2, <2>1, MyBegun
  <2>2. CASE t # s
    <3>1. BegunOK(t)
      BY DEF BegunInv
    <3>2. /\ txn'[t] = txn[t] /\ stack'[t] = stack[t] /\ depth'[t] = depth[t]
          /\ at'[t] = at[t] /\ level'[t] = level[t] /\ begun'[t] = begun[t]
          /\ txnLevel'[t] = txnLevel[t]
      BY <1>2, <2>2, OthersKeep, OthersLevel
    <3>3. QED
      BY <3>1, <3>2 DEF BegunOK, BegunAt
  <2>3. QED
    BY <2>1, <2>2
<1>3. CASE UNCHANGED vars
  BY <1>1, <1>3 DEF vars, cached, program, doing, BegunInv, BegunOK, BegunAt
<1>4. QED
  BY <1>1, <1>2, <1>3, StepsOrNone DEF BegunInv

(* The transactions of one level are counted one by one.                    *)
LEMMA BegunCounted ==
  ASSUME NEW s, NEW l \in Levels, NEW n \in Nat, begun[s][l] = n,
         \A k \in Levels : k # l => begun[s][k] = 0
  PROVE  Cardinality(Begun(s)) = n
<1>1. Begun(s) = {l} \X (1 .. n)
  BY DEF Begun
<1> DEFINE f == [k \in 1 .. n |-> <<l, k>>]
<1>2. f \in Bijection(1 .. n, {l} \X (1 .. n))
  <2>1. f \in [1 .. n -> {l} \X (1 .. n)]
    OBVIOUS
  <2>2. \A a, b \in 1 .. n : f[a] = f[b] => a = b
    OBVIOUS
  <2>3. \A t \in {l} \X (1 .. n) : \E a \in 1 .. n : f[a] = t
    OBVIOUS
  <2> HIDE DEF f
  <2>4. QED
    BY <2>1, <2>2, <2>3, Fun_IsBij
<1>3. ExistsBijection(1 .. n, Begun(s))
  BY <1>1, <1>2 DEF ExistsBijection
<1>4. QED
  BY <1>3, FS_CountingElements

(* BegunAreLive: nested transactions, executed commands in and around them, *)
(* ends, commits, "rollback all" at the end of every command, killed and    *)
(* reaped sessions leave exactly what the programs have begun and not       *)
(* ended; a command executed inside a transaction leaves that one alone.    *)
(* It takes a command that begins a transaction of its own in there, an     *)
(* abort or a write that fails at COMMIT to lose one.                       *)
THEOREM BegunStayLive ==
  OneLevel => (Spec => []BegunAreLive)
<1> SUFFICES ASSUME OneLevel
             PROVE  Spec => []BegunAreLive
  OBVIOUS
<1>1. Init => BegunInv
  <2> SUFFICES ASSUME Init
               PROVE  BegunInv
    OBVIOUS
  <2>1. LeftInv
    BY DEF Init, LeftInv, IdsKept, LeftOK, InProgress, Committing
  <2>2. ASSUME NEW s \in Sessions
        PROVE  BegunOK(s)
    <3>1. /\ at[s] = "ready" /\ level[s] = 1 /\ begun[s] = NoneBegun /\ depth[s] = 0
          /\ txn[s] = 0 /\ stack[s] = <<>> /\ 1 \in Levels
      BY TxnConstants DEF Init, Levels
    <3>2. BegunAt(s, 1)
      BY <3>1 DEF BegunAt, NoneBegun
    <3>3. QED
      BY <3>1, <3>2 DEF BegunOK
  <2>3. QED
    BY <2>1, <2>2 DEF BegunInv
<1>2. TypeOK /\ BegunInv /\ [Next]_vars => BegunInv'
  BY BegunStep
<1>3. TypeOK /\ BegunInv => BegunAreLive
  <2> SUFFICES ASSUME TypeOK, BegunInv, NEW s \in Sessions, at[s] = "ready"
               PROVE  (IF txn[s] = 0 THEN 0 ELSE 1) + Len(stack[s]) = Cardinality(Begun(s))
    BY DEF BegunAreLive
  <2>1. begun[s] \in [Levels -> Nat] /\ Len(stack[s]) \in Nat
    BY LenProperties DEF TypeOK
  <2>2. PICK l \in Levels : BegunAt(s, l)
    BY DEF BegunInv, BegunOK
  <2>3. Cardinality(Begun(s)) = begun[s][l] /\ begun[s][l] = depth[s]
    BY <2>1, <2>2, BegunCounted DEF BegunAt
  <2>4. depth[s] = Len(stack[s]) + (IF txn[s] = 0 THEN 0 ELSE 1)
    BY DepthMeans DEF BegunInv, Idle
  <2>5. CASE txn[s] = 0
    BY <2>1, <2>3, <2>4, <2>5
  <2>6. CASE txn[s] # 0
    BY <2>1, <2>3, <2>4, <2>6
  <2>7. QED
    BY <2>5, <2>6
<1>4. QED
  BY <1>1, <1>2, <1>3, TransactionsTyped, PTL DEF Spec
-----------------------------------------------------------------------------
(* What a transaction is going to write stays locked.                       *)

(* Programs that do not nest transactions, do not begin one over the rest   *)
(* of a commit that failed and do not commit one that is gone.              *)
Disciplined ==
  \A s \in Sessions : /\ Begin(s) => txn[s] = 0 /\ cache[s] = <<>>
                      /\ Commit(s) => txn[s] # 0

(* A deferred close comes after the writes of its file, once, and the file  *)
(* is not among the open files fs: nothing is written to it any more.       *)
ClosedAfter(c, fs) ==
  \A i \in DOMAIN c : c[i].mode = "close" =>
    /\ c[i].file \notin fs
    /\ \A j \in DOMAIN c :
         /\ c[j].mode = "write" /\ FileOf[c[j].rec] = c[i].file => j < i
         /\ c[j].mode = "close" /\ c[j].file = c[i].file => j = i

(* The actions before n have been applied.                                  *)
FreedBelow(c, n) == \A i \in DOMAIN c : c[i].freed <=> i < n

Applied(s) == IF Committing(s) THEN pos[s] ELSE 1

WritesLocked(s) ==
  \A i \in DOMAIN cache[s] :
    cache[s][i].mode = "write" /\ ~cache[s][i].freed => Owns(s, cache[s][i].rec)

ImagesLocked(s) ==
  Closers = {} => /\ OnlyWrites(cache[s])
                  /\ \A i \in DOMAIN undo[s] : Owns(s, undo[s][i].rec)

OwnOK(s) ==
  /\ stack[s] = <<>>
  /\ InFlight(s) => /\ ClosedAfter(cache[s], open[s])
                    /\ FreedBelow(cache[s], Applied(s))
                    /\ WritesLocked(s)
  /\ at[s] \in {"ready", "rollall"} => undo[s] = <<>>
  /\ at[s] # "dead" /\ commitId[s] # 0 => txn[s] = 0
  /\ at[s] # "dead" => ImagesLocked(s)

OwnInv == IdsKept /\ \A s \in Sessions : OwnOK(s)

LEMMA DeferredLast ==
  ASSUME NEW c \in Seq(Actions), NEW r \in Recs, NEW v \in Contents, NEW fs,
         FileOf[r] \in fs, ClosedAfter(c, fs), FreedBelow(c, 1)
  PROVE  /\ ClosedAfter(Deferred(c, r, v), fs) /\ FreedBelow(Deferred(c, r, v), 1)
         /\ \A i \in DOMAIN Deferred(c, r, v) :
              Deferred(c, r, v)[i].mode = "write" =>
                \/ Deferred(c, r, v)[i].rec = r
                \/ \E j \in DOMAIN c : c[j].mode = "write" /\ c[j].rec = Deferred(c, r, v)[i].rec
<1> DEFINE d == Deferred(c, r, v)
<1>1. CASE HasWrite(c, r)
  <2> DEFINE w == WriteAt(c, r)
             e == [c[w] EXCEPT !.val = v]
  <2>1. w \in DOMAIN c /\ IsWriteOf(c[w], r)
    BY <1>1, WriteAtFound
  <2>2. c[w] \in Actions
    BY <2>1, LenProperties, ElementOfSeq
  <2>3. d = [c EXCEPT ![w] = e]
    BY <1>1 DEF Deferred
  <2>4. e.mode = "write" /\ e.rec = r /\ e.freed = c[w].freed
    BY <2>1, <2>2, ActionShape DEF IsWriteOf
  <2>5. DOMAIN d = DOMAIN c /\ d[w] = e /\ \A i \in DOMAIN c : i # w => d[i] = c[i]
    BY <2>1, <2>3
  <2> HIDE DEF d, w, e
  <2>6. \A i \in DOMAIN c :
          /\ d[i].mode = c[i].mode /\ d[i].freed = c[i].freed
          /\ c[i].mode = "write" => d[i].rec = c[i].rec
          /\ c[i].mode = "close" => d[i].file = c[i].file
    BY <2>1, <2>4, <2>5 DEF IsWriteOf
  <2>7. ClosedAfter(d, fs) /\ FreedBelow(d, 1)
    BY <2>5, <2>6 DEF ClosedAfter, FreedBelow
  <2>8. QED
    BY <2>5, <2>6, <2>7 DEF d
<1>2. CASE ~HasWrite(c, r)
  <2> DEFINE e == Write(r, v)
             n == Len(c) + 1
  <2>1. e \in Actions /\ e.mode = "write" /\ e.rec = r /\ e.freed = FALSE
    BY ActionShape
  <2> HIDE DEF e
  <2>2. d = Append(c, e)
    BY <1>2 DEF Deferred, e
  <2>3. /\ Len(d) = n /\ d[n] = e /\ \A i \in 1 .. Len(c) : d[i] = c[i]
    BY <2>1, <2>2, AppendProperties
  <2>4. /\ DOMAIN c = 1 .. Len(c) /\ DOMAIN d = 1 .. n /\ Len(c) \in Nat
    BY <2>1, <2>2, <2>3, LenProperties, AppendProperties
  <2>5. /\ \A i \in DOMAIN d : i \in DOMAIN c \/ i = n
        /\ \A i \in DOMAIN c : d[i] = c[i] /\ i < n
        /\ n >= 1
    BY <2>3, <2>4
  <2> HIDE DEF d, n
  <2>6. ClosedAfter(d, fs)
    <3>1. ASSUME NEW i \in DOMAIN d, d[i].mode = "close"
          PROVE  i \in DOMAIN c /\ d[i] = c[i] /\ c[i].file \notin fs
      BY <3>1, <2>1, <2>3, <2>5 DEF ClosedAfter
    <3>2. ASSUME NEW i \in DOMAIN d, d[i].mode = "close", NEW j \in DOMAIN d
          PROVE  /\ d[j].mode = "write" /\ FileOf[d[j].rec] = d[i].file => j < i
                 /\ d[j].mode = "close" /\ d[j].file = d[i].file => j = i
      <4>1. CASE j = n
        BY <4>1, <3>1, <3>2, <2>1, <2>3
      <4>2. CASE j \in DOMAIN c
        BY <4>2, <3>1, <3>2, <2>5 DEF ClosedAfter
      <4>3. QED
        BY <4>1, <4>2, <2>5
    <3>3. QED
      BY <3>1, <3>2 DEF ClosedAfter
  <2>7. FreedBelow(d, 1)
    BY <2>1, <2>3, <2>5 DEF FreedBelow
  <2>8. \A i \in DOMAIN d : d[i].mode = "write" =>
          d[i].rec = r \/ \E j \in DOMAIN c : c[j].mode = "write" /\ c[j].rec = d[i].rec
    BY <2>1, <2>3, <2>5
  <2>9. QED
    BY <2>6, <2>7, <2>8 DEF d
<1>3. QED
  BY <1>1, <1>2

LEMMA ClosedLast ==
  ASSUME NEW c \in Seq(Actions), NEW f \in Files, NEW fs, f \in fs,
         ClosedAfter(c, fs), FreedBelow(c, 1)
  PROVE  /\ ClosedAfter(Append(c, CloseOf(f)), fs \ {f})
         /\ FreedBelow(Append(c, CloseOf(f)), 1)
         /\ \A i \in DOMAIN Append(c, CloseOf(f)) :
              Append(c, CloseOf(f))[i].mode = "write" =>
                \E j \in DOMAIN c : c[j].mode = "write" /\ c[j].rec = Append(c, CloseOf(f))[i].rec
<1> DEFINE e == CloseOf(f)
           d == Append(c, e)
           n == Len(c) + 1
<1>1. e \in Actions /\ e.mode = "close" /\ e.freed = FALSE /\ e.file = f
  BY ActionShape DEF CloseOf
<1> HIDE DEF e
<1>2. /\ d \in Seq(Actions) /\ Len(d) = n /\ \A i \in 1 .. Len(c) : d[i] = c[i]
      /\ d[n] = e
  BY <1>1, AppendProperties
<1>3. /\ DOMAIN c = 1 .. Len(c) /\ DOMAIN d = 1 .. n /\ Len(c) \in Nat
  BY <1>2, LenProperties
<1>4. /\ \A i \in DOMAIN d : i \in DOMAIN c \/ i = n
      /\ \A i \in DOMAIN c : d[i] = c[i] /\ i < n
      /\ n >= 1
  BY <1>2, <1>3
<1> HIDE DEF d, n
<1>5. ASSUME NEW i \in DOMAIN d, d[i].mode = "close", NEW j \in DOMAIN d
      PROVE  /\ d[i].file \notin fs \ {f}
             /\ d[j].mode = "write" /\ FileOf[d[j].rec] = d[i].file => j < i
             /\ d[j].mode = "close" /\ d[j].file = d[i].file => j = i
  <2>1. CASE i = n /\ j = n
    BY <2>1, <1>1, <1>2
  <2>2. CASE i = n /\ j \in DOMAIN c
    BY <2>2, <1>1, <1>2, <1>4 DEF ClosedAfter
  <2>3. CASE i \in DOMAIN c /\ j = n
    BY <2>3, <1>1, <1>2, <1>4, <1>5 DEF ClosedAfter
  <2>4. CASE i \in DOMAIN c /\ j \in DOMAIN c
    BY <2>4, <1>4, <1>5 DEF ClosedAfter
  <2>5. QED
    BY <2>1, <2>2, <2>3, <2>4, <1>4
<1>6. ClosedAfter(d, fs \ {f})
  BY <1>5 DEF ClosedAfter
<1>7. FreedBelow(d, 1)
  BY <1>1, <1>2, <1>4 DEF FreedBelow
<1>8. \A i \in DOMAIN d : d[i].mode = "write" =>
        \E j \in DOMAIN c : c[j].mode = "write" /\ c[j].rec = d[i].rec
  BY <1>1, <1>2, <1>4
<1>9. QED
  BY <1>6, <1>7, <1>8 DEF d, e

LEMMA ReopenedLast ==
  ASSUME NEW c \in Seq(Actions), NEW fs, NEW k \in DOMAIN c, c[k].mode = "close",
         ClosedAfter(c, fs), FreedBelow(c, 1)
  PROVE  /\ ClosedAfter(RemoveAt(c, k), fs \cup {c[k].file})
         /\ FreedBelow(RemoveAt(c, k), 1)
         /\ \A i \in DOMAIN RemoveAt(c, k) : \E j \in DOMAIN c : c[j] = RemoveAt(c, k)[i]
<1> DEFINE d == RemoveAt(c, k)
           old(i) == IF i < k THEN i ELSE i + 1
<1>1. /\ DOMAIN d = 1 .. (Len(c) - 1)
      /\ \A i \in 1 .. (Len(c) - 1) : d[i] = IF i < k THEN c[i] ELSE c[i + 1]
  BY RemoveAtSeq
<1> HIDE DEF d
<1>2. DOMAIN c = 1 .. Len(c) /\ Len(c) \in Nat /\ k \in 1 .. Len(c)
  BY LenProperties
<1>3. /\ \A i \in DOMAIN d : old(i) \in DOMAIN c /\ old(i) # k /\ d[i] = c[old(i)]
      /\ \A i, j \in DOMAIN d : /\ old(i) < old(j) => i < j
                                /\ old(i) = old(j) => i = j
  BY <1>1, <1>2
<1>4. \A i \in DOMAIN d : ~(i < 1) /\ ~(old(i) < 1)
  BY <1>1, <1>2
<1> HIDE DEF old
<1>5. ClosedAfter(d, fs \cup {c[k].file})
  <2>1. ASSUME NEW i \in DOMAIN d, d[i].mode = "close", NEW j \in DOMAIN d
        PROVE  /\ d[i].file \notin fs \cup {c[k].file}
               /\ d[j].mode = "write" /\ FileOf[d[j].rec] = d[i].file => j < i
               /\ d[j].mode = "close" /\ d[j].file = d[i].file => j = i
    BY <2>1, <1>3 DEF ClosedAfter
  <2>2. QED
    BY <2>1 DEF ClosedAfter
<1>6. FreedBelow(d, 1)
  BY <1>3, <1>4 DEF FreedBelow
<1>7. QED
  BY <1>3, <1>5, <1>6 DEF d
(* LockRec gives no lock of the session up.                                 *)
LEMMA LockedAfter ==
  ASSUME TypeOK, NEW s \in Sessions, NEW q \in Recs, LockRec(s, q), NEW r \in Recs, Owns(s, r)
  PROVE  Owns(s, r)'
<1>1. /\ lock' = [lock EXCEPT ![q] = [owner |-> s, txn |-> txn[s]]]
      /\ lock \in [Recs -> [owner : Sessions, txn : Ids] \cup {NoLock}] /\ txn[s] \in Nat
  BY IdsTyped DEF LockRec, TypeOK
<1>2. [owner |-> s, txn |-> txn[s]] # NoLock
  BY <1>1, TxnConstants
<1>3. QED
  BY <1>1, <1>2 DEF Owns

Freed(c, p) == [c EXCEPT ![p].freed = TRUE]

LEMMA AppliedLast ==
  ASSUME NEW c \in Seq(Actions), NEW p \in DOMAIN c, NEW fs,
         NEW d, d = Freed(c, p)
  PROVE  /\ DOMAIN d = DOMAIN c
         /\ \A j \in DOMAIN c : /\ d[j].mode = c[j].mode
                                /\ d[j].freed <=> c[j].freed \/ j = p
                                /\ c[j].mode = "write" => d[j].rec = c[j].rec
                                /\ j # p => d[j] = c[j]
         /\ OnlyWrites(c) => OnlyWrites(d)
         /\ ClosedAfter(c, fs) => ClosedAfter(d, fs)
         /\ FreedBelow(c, p) => FreedBelow(d, p + 1)
<1>1. DOMAIN c = 1 .. Len(c) /\ Len(c) \in Nat /\ p \in Nat /\ c[p] \in Actions
  BY LenProperties, ElementOfSeq
<1> USE DEF Freed
<1>2. /\ DOMAIN d = DOMAIN c
      /\ \A j \in DOMAIN c : /\ d[j].mode = c[j].mode
                             /\ d[j].freed <=> c[j].freed \/ j = p
  <2>1. d = [c EXCEPT ![p].freed = TRUE]
    OBVIOUS
  <2> HIDE DEF Freed
  <2>2. QED
    BY <2>1, AppliedCache
<1>2a. OnlyWrites(c) => OnlyWrites(d)
  BY <1>2 DEF OnlyWrites
<1>3. \A j \in DOMAIN c : j # p => d[j] = c[j]
  OBVIOUS
<1>3a. \A j \in DOMAIN c : c[j].mode = "write" => d[j].rec = c[j].rec
  <2>1. c[p].mode = "write" => d[p].rec = c[p].rec
    BY <1>1 DEF Actions
  <2>2. QED
    BY <2>1, <1>3
<1>4. c[p].mode = "close" => d[p].file = c[p].file
  BY <1>1 DEF Actions
<1>5. \A j \in DOMAIN c : j < p + 1 <=> j < p \/ j = p
  BY <1>1
<1>6. ClosedAfter(c, fs) => ClosedAfter(d, fs)
  BY <1>2, <1>3, <1>3a, <1>4 DEF ClosedAfter
<1>7. FreedBelow(c, p) => FreedBelow(d, p + 1)
  BY <1>2, <1>5 DEF FreedBelow
<1>8. QED
  BY <1>2, <1>2a, <1>3, <1>3a, <1>6, <1>7

LEMMA ApplyOwn ==
  ASSUME TypeOK, NEW s \in Sessions, Apply(s), OwnOK(s), at[s] = "commit" => txn[s] = 0
  PROVE  OwnOK(s)'
<1> DEFINE c == cache[s]
           p == pos[s]
           d == cache'[s]
<1>1. /\ cache \in [Sessions -> Seq(Actions)] /\ c \in Seq(Actions)
      /\ undo \in [Sessions -> Seq(Images)] /\ undo[s] \in Seq(Images)
      /\ stack \in [Sessions -> Seq(Outers(Ids))] /\ disk \in [Recs -> Contents]
      /\ pos \in [Sessions -> Nat \ {0}] /\ p \in Nat \ {0}
  BY DEF TypeOK
<1>2. /\ at[s] = "commit" /\ at' = at /\ txn' = txn /\ commitId' = commitId /\ open' = open
      /\ pos'[s] = p + 1 /\ d = Freed(c, p) /\ p \in DOMAIN c
  BY <1>1, LenProperties DEF Apply, Applying, Committing, program, Freed
<1>3. /\ c[p] \in Actions /\ DOMAIN c \subseteq Nat
  BY <1>1, <1>2, LenProperties, ElementOfSeq
<1>4. /\ stack[s] = <<>> /\ ClosedAfter(c, open[s]) /\ FreedBelow(c, p) /\ WritesLocked(s)
      /\ ImagesLocked(s) /\ txn[s] = 0
  BY <1>2 DEF OwnOK, InFlight, Applied, Committing
<1>5. /\ DOMAIN d = DOMAIN c
      /\ \A j \in DOMAIN c : /\ d[j].mode = c[j].mode
                             /\ d[j].freed <=> c[j].freed \/ j = p
                             /\ c[j].mode = "write" => d[j].rec = c[j].rec
                             /\ j # p => d[j] = c[j]
      /\ OnlyWrites(c) => OnlyWrites(d)
      /\ ClosedAfter(c, open[s]) => ClosedAfter(d, open[s])
      /\ FreedBelow(c, p) => FreedBelow(d, p + 1)
  <2> HIDE DEF c, p, d
  <2>1. c \in Seq(Actions) /\ p \in DOMAIN c /\ d = Freed(c, p)
    BY <1>1, <1>2
  <2>2. QED
    BY <2>1, AppliedLast
<1> HIDE DEF c, p, d
<1>7. ClosedAfter(d, open[s])
  BY <1>4, <1>5
<1>8. FreedBelow(d, p + 1)
  BY <1>4, <1>5
<1>9. \A j \in DOMAIN d : d[j].mode = "write" /\ ~d[j].freed =>
        Owns(s, d[j].rec) /\ j # p /\ d[j] = c[j] /\ ~(j < p)
  BY <1>4, <1>5 DEF WritesLocked, FreedBelow, c
<1>10. stack'[s] = <<>>
  <2>1. \/ stack' = stack
        \/ \E r : stack'[s] = ClearParent(stack[s], r)
    BY <1>1 DEF Apply
  <2>2. \A r : ClearParent(<<>>, r) = <<>>
    BY DEF ClearParent
  <2>3. QED
    BY <1>4, <2>1, <2>2
<1>11. WritesLocked(s)' /\ ImagesLocked(s)'
  <2>1. CASE c[p].mode = "write" /\ TakeImage(s, c[p].rec) /\ lock' = lock
    <3> DEFINE e == Image(c[p].rec, disk[c[p].rec])
    <3>1. c[p].rec \in Recs
      BY <1>3, <2>1, ActionShape
    <3>2. e \in Images /\ e.rec = c[p].rec
      BY <3>1, <1>1 DEF Images, Image
    <3>3. undo'[s] = <<e>> \o undo[s]
      BY <1>1, <2>1 DEF TakeImage
    <3> HIDE DEF e
    <3>4. Owns(s, e.rec)
      <4>1. ~c[p].freed
        BY <1>1, <1>2, <1>4 DEF FreedBelow, c, p
      <4>2. QED
        BY <4>1, <3>2, <2>1, <1>2, <1>4 DEF WritesLocked, c, p
    <3>5. \A i \in DOMAIN undo'[s] : undo'[s][i] = e \/ \E j \in DOMAIN undo[s] : undo'[s][i] = undo[s][j]
      <4>1. /\ DOMAIN undo'[s] = 1 .. (Len(undo[s]) + 1) /\ undo'[s][1] = e
            /\ \A k \in 2 .. (Len(undo[s]) + 1) : undo'[s][k] = undo[s][k - 1]
            /\ DOMAIN undo[s] = 1 .. Len(undo[s]) /\ Len(undo[s]) \in Nat
        BY <1>1, <3>2, <3>3, PushSeq, LenProperties
      <4>2. ASSUME NEW i \in DOMAIN undo'[s], i # 1
            PROVE  i - 1 \in DOMAIN undo[s] /\ undo'[s][i] = undo[s][i - 1]
        BY <4>1, <4>2
      <4>3. QED
        BY <4>1, <4>2
    <3>6. ImagesLocked(s)'
      BY <1>4, <1>5, <2>1, <3>4, <3>5 DEF ImagesLocked, Owns, c, d
    <3>7. QED
      BY <1>9, <2>1, <3>6 DEF WritesLocked, Owns, d
  <2>2. CASE c[p].mode = "close" /\ Unlock(FileLocks(s, {c[p].file})) /\ undo' = undo
    <3>1. Closers # {}
      BY <1>2, <1>4, <2>2 DEF ImagesLocked, OnlyWrites, c
    <3>2. ASSUME NEW j \in DOMAIN d, d[j].mode = "write", ~d[j].freed
          PROVE  lock'[d[j].rec] # NoLock /\ lock'[d[j].rec].owner = s
      <4>1. FileOf[d[j].rec] # c[p].file
        BY <1>2, <1>4, <1>5, <1>9, <2>2, <3>2 DEF ClosedAfter
      <4>2. d[j].rec \in Recs
        BY <1>1, <1>5, <1>9, <3>2, LenProperties, ElementOfSeq, ActionShape DEF c
      <4>3. QED
        BY <1>9, <2>2, <3>2, <4>1, <4>2 DEF Unlock, FileLocks, Owns
    <3>3. QED
      BY <3>1, <3>2 DEF WritesLocked, ImagesLocked, Owns, d
  <2>3. QED
    BY <2>1, <2>2 DEF Apply, c, p
<1>12. QED
  <2>1. Applied(s)' = p + 1
    BY <1>2 DEF Applied, Committing
  <2>2. QED
    BY <1>2, <1>4, <1>7, <1>8, <1>10, <1>11, <2>1 DEF OwnOK, d

LEMMA FailOwn ==
  ASSUME TypeOK, NEW s \in Sessions, ApplyFails(s), OwnOK(s), at[s] = "commit" => txn[s] = 0
  PROVE  OwnOK(s)'
<1> DEFINE a == cache[s][pos[s]]
           e == Image(a.rec, disk[a.rec])
<1>1. /\ cache \in [Sessions -> Seq(Actions)] /\ cache[s] \in Seq(Actions)
      /\ undo \in [Sessions -> Seq(Images)] /\ undo[s] \in Seq(Images)
      /\ disk \in [Recs -> Contents] /\ pos[s] \in Nat \ {0} /\ at \in [Sessions -> Places]
  BY DEF TypeOK
<1>2. /\ at[s] = "commit" /\ at'[s] = "abort" /\ txn' = txn /\ cache' = cache /\ stack' = stack
      /\ lock' = lock /\ a.mode = "write" /\ TakeImage(s, a.rec) /\ pos[s] \in DOMAIN cache[s]
  BY <1>1, LenProperties DEF ApplyFails, Applying, Committing, cached, Goto
<1>3. a \in Actions /\ a.rec \in Recs
  BY <1>1, <1>2, LenProperties, ElementOfSeq, ActionShape
<1>4. e \in Images /\ e.rec = a.rec
  BY <1>1, <1>3 DEF Images, Image
<1>5. undo'[s] = <<e>> \o undo[s]
  BY <1>1, <1>2 DEF TakeImage
<1> HIDE DEF e
<1>6. Owns(s, e.rec)
  <2>1. FreedBelow(cache[s], pos[s]) /\ WritesLocked(s)
    BY <1>2 DEF OwnOK, InFlight, Applied, Committing
  <2>2. ~a.freed
    BY <1>1, <1>2, <2>1 DEF FreedBelow
  <2>3. QED
    BY <1>2, <1>4, <2>1, <2>2 DEF WritesLocked
<1>7. \A i \in DOMAIN undo'[s] : undo'[s][i] = e \/ \E j \in DOMAIN undo[s] : undo'[s][i] = undo[s][j]
  <2>1. /\ DOMAIN undo'[s] = 1 .. (Len(undo[s]) + 1) /\ undo'[s][1] = e
        /\ \A k \in 2 .. (Len(undo[s]) + 1) : undo'[s][k] = undo[s][k - 1]
        /\ DOMAIN undo[s] = 1 .. Len(undo[s]) /\ Len(undo[s]) \in Nat
    BY <1>1, <1>4, <1>5, PushSeq, LenProperties
  <2>2. ASSUME NEW i \in DOMAIN undo'[s], i # 1
        PROVE  i - 1 \in DOMAIN undo[s] /\ undo'[s][i] = undo[s][i - 1]
    BY <2>1, <2>2
  <2>3. QED
    BY <2>1, <2>2
<1>8. ImagesLocked(s)'
  BY <1>2, <1>6, <1>7 DEF OwnOK, ImagesLocked, Owns
<1>9. ~InFlight(s)'
  BY <1>2 DEF InFlight, Committing
<1>10. QED
  BY <1>2, <1>8, <1>9 DEF OwnOK

LEMMA UndoOwn ==
  ASSUME TypeOK, NEW s \in Sessions, Undo(s), OwnOK(s)
  PROVE  OwnOK(s)'
<1>1. undo \in [Sessions -> Seq(Images)] /\ undo[s] \in Seq(Images)
  BY DEF TypeOK
<1>2. /\ at[s] = "abort" /\ at' = at /\ undo[s] # <<>> /\ undo'[s] = Tail(undo[s])
      /\ UNCHANGED <<lock, txn, cache, stack, commitId, open>>
  BY <1>1 DEF Undo, cached, program, doing
<1>3. \A i \in DOMAIN undo'[s] : \E j \in DOMAIN undo[s] : undo'[s][i] = undo[s][j]
  <2>1. /\ DOMAIN undo[s] = 1 .. Len(undo[s]) /\ Len(undo[s]) \in Nat
        /\ DOMAIN undo'[s] = 1 .. (Len(undo[s]) - 1)
        /\ \A i \in 1 .. (Len(undo[s]) - 1) : undo'[s][i] = undo[s][i + 1]
    BY <1>1, <1>2, HeadTailProperties, LenProperties
  <2>2. \A i \in DOMAIN undo'[s] : i + 1 \in DOMAIN undo[s] /\ undo'[s][i] = undo[s][i + 1]
    BY <2>1
  <2>3. QED
    BY <2>2
<1>4. ImagesLocked(s)'
  BY <1>2, <1>3 DEF OwnOK, ImagesLocked, Owns
<1>5. InFlight(s)' => InFlight(s) /\ WritesLocked(s)' /\ Applied(s)' = Applied(s)
  BY <1>2 DEF OwnOK, InFlight, WritesLocked, Applied, Committing, Owns
<1>6. QED
  BY <1>2, <1>4, <1>5 DEF OwnOK
LEMMA MyOwn ==
  ASSUME TypeOK, OwnInv, NEW s \in Sessions, Step(s),
         Begin(s) => txn[s] = 0 /\ cache[s] = <<>>, Commit(s) => txn[s] # 0
  PROVE  OwnOK(s)'
<1> DEFINE Quiet == {"ready", "rollall"}
<1>1. /\ txn \in [Sessions -> Ids] /\ commitId \in [Sessions -> Ids]
      /\ cache \in [Sessions -> Seq(Actions)] /\ cache[s] \in Seq(Actions)
      /\ undo \in [Sessions -> Seq(Images)] /\ undo[s] \in Seq(Images)
      /\ stack \in [Sessions -> Seq(Outers(Ids))] /\ at \in [Sessions -> Places]
      /\ pos \in [Sessions -> Nat \ {0}] /\ open \in [Sessions -> SUBSET Files]
  BY DEF TypeOK
<1>2. /\ OwnOK(s) /\ stack[s] = <<>>
      /\ at[s] = "commit" => txn[s] = 0
      /\ at[s] \in Quiet => commitId[s] = 0 /\ undo[s] = <<>>
  BY DEF OwnInv, OwnOK, IdsKept, Committing
<1>3. ASSUME UNCHANGED <<txn, cache, stack, commitId, undo, open>>,
             \A r \in Recs : Owns(s, r) => Owns(s, r)',
             \/ at'[s] = at[s] /\ pos'[s] = pos[s]
             \/ at[s] \in Quiet /\ at'[s] \in Quiet \cup {"abort"}
      PROVE  OwnOK(s)'
  <2>1. \A i \in DOMAIN cache[s] : cache[s][i].mode = "write" => cache[s][i].rec \in Recs
    BY <1>1, LenProperties, ElementOfSeq, ActionShape
  <2>2. \A i \in DOMAIN undo[s] : undo[s][i].rec \in Recs
    <3>1. \A i \in DOMAIN undo[s] : undo[s][i] \in Images
      BY <1>1, LenProperties, ElementOfSeq
    <3>2. QED
      BY <3>1 DEF Images
  <2>3. at'[s] \in Quiet => undo'[s] = <<>>
    BY <1>2, <1>3
  <2>4. InFlight(s)' => InFlight(s)
    BY <1>3 DEF InFlight, Committing
  <2>5. Applied(s)' = Applied(s) /\ (at'[s] # "dead" => at[s] # "dead")
    BY <1>3 DEF Applied, Committing
  <2>6. WritesLocked(s) => WritesLocked(s)'
    BY <1>3, <2>1 DEF WritesLocked
  <2>7. ImagesLocked(s) => ImagesLocked(s)'
    BY <1>3, <2>2 DEF ImagesLocked
  <2>8. QED
    BY <1>2, <1>3, <2>3, <2>4, <2>5, <2>6, <2>7 DEF OwnOK, ClosedAfter, FreedBelow
<1>4. ASSUME txn'[s] = 0, at[s] # "dead", at'[s] \in Quiet \cup {"abort"}, stack'[s] = <<>>,
             undo'[s] = <<>>, cache'[s] = cache[s] \/ cache'[s] = <<>>
      PROVE  OwnOK(s)'
  <2>1. ~InFlight(s)'
    BY <1>4 DEF InFlight, Committing
  <2>2. ImagesLocked(s)'
    BY <1>2, <1>4 DEF OwnOK, ImagesLocked, OnlyWrites
  <2>3. QED
    BY <1>4, <2>1, <2>2 DEF OwnOK
<1>5. ASSUME EndLevel(s)
      PROVE  txn'[s] = 0 /\ cache'[s] = <<>> /\ stack'[s] = <<>>
  BY <1>1, <1>2, <1>5 DEF EndLevel
<1>6. ASSUME at[s] = "ready", at'[s] = "ready", txn[s] # 0, txn'[s] # 0,
             UNCHANGED <<lock, stack, commitId, undo>>,
             ClosedAfter(cache'[s], open'[s]), FreedBelow(cache'[s], 1),
             OnlyWrites(cache[s]) /\ Closers = {} => OnlyWrites(cache'[s]),
             \A i \in DOMAIN cache'[s] : cache'[s][i].mode = "write" =>
               \/ Owns(s, cache'[s][i].rec)
               \/ \E j \in DOMAIN cache[s] :
                    cache[s][j].mode = "write" /\ cache[s][j].rec = cache'[s][i].rec
      PROVE  OwnOK(s)'
  <2>1. InFlight(s) /\ Applied(s) = 1 /\ Applied(s)' = 1
    BY <1>6 DEF InFlight, Applied, Committing
  <2>2. \A j \in DOMAIN cache[s] : ~cache[s][j].freed
    <3>1. FreedBelow(cache[s], 1) /\ \A j \in DOMAIN cache[s] : ~(j < 1)
      BY <1>1, <1>2, <2>1, LenProperties DEF OwnOK
    <3>2. QED
      BY <3>1 DEF FreedBelow
  <2>3. \A j \in DOMAIN cache[s] : cache[s][j].mode = "write" => Owns(s, cache[s][j].rec)
    BY <1>2, <2>1, <2>2 DEF OwnOK, WritesLocked
  <2>4. WritesLocked(s)'
    BY <1>6, <2>3 DEF WritesLocked, Owns
  <2>5. ImagesLocked(s)'
    BY <1>2, <1>6 DEF OwnOK, ImagesLocked, Owns
  <2>6. QED
    BY <1>2, <1>6, <2>1, <2>4, <2>5 DEF OwnOK
<1>7. CASE Statement(s)
  <2>1. CASE Begin(s)
    <3>1. /\ txn[s] = 0 /\ cache[s] = <<>> /\ cache' = cache /\ stack' = stack /\ undo' = undo
          /\ commitId' = commitId /\ at' = at /\ at[s] = "ready" /\ open' = open
      BY <1>7, <2>1 DEF Begin, doing
    <3>2. DOMAIN cache'[s] = {}
      BY <3>1
    <3>3. /\ ClosedAfter(cache'[s], open'[s]) /\ FreedBelow(cache'[s], Applied(s)')
          /\ WritesLocked(s)'
      BY <3>2 DEF ClosedAfter, FreedBelow, WritesLocked
    <3>4. undo[s] = <<>> /\ commitId[s] = 0 /\ DOMAIN undo'[s] = {}
      BY <1>2, <3>1
    <3>5. ImagesLocked(s)'
      BY <3>2, <3>4 DEF ImagesLocked, OnlyWrites
    <3>6. QED
      BY <1>2, <3>1, <3>3, <3>4, <3>5 DEF OwnOK
  <2>2. CASE Commit(s)
    <3>1. /\ txn[s] # 0 /\ txn'[s] = 0 /\ at[s] = "ready" /\ at'[s] = "commit" /\ pos'[s] = 1
          /\ UNCHANGED <<cache, stack, lock, undo, open>>
      BY <1>1, <2>2 DEF Commit, Goto, program
    <3>2. InFlight(s) /\ Applied(s) = 1 /\ Applied(s)' = 1
      BY <3>1 DEF InFlight, Applied, Committing
    <3>3. WritesLocked(s)' /\ ImagesLocked(s)'
      BY <1>2, <3>1, <3>2 DEF OwnOK, WritesLocked, ImagesLocked, Owns
    <3>4. QED
      BY <1>2, <3>1, <3>2, <3>3 DEF OwnOK
  <2>3. CASE End(s)
    <3>1. CASE txn[s] = 0
      BY <1>1, <1>2, <1>4, <2>3, <3>1 DEF End, cached, Goto
    <3>2. CASE txn[s] # 0
      BY <1>2, <1>4, <1>5, <2>3, <3>2 DEF End, Rollback, doing
    <3>3. QED
      BY <3>1, <3>2
  <2>4. CASE Execute(s) \/ EndCommand(s)
    BY <1>1, <1>3, <2>4 DEF Execute, EndCommand, cached, program, doing, Goto, Owns
  <2>5. ASSUME NEW q \in Recs, LockRec(s, q)
        PROVE  OwnOK(s)'
    <3>1. ASSUME NEW r \in Recs, Owns(s, r)
          PROVE  Owns(s, r)'
      BY <2>5, <3>1, LockedAfter
    <3>2. QED
      BY <1>3, <2>5, <3>1 DEF LockRec, cached, program, doing
  <2>6. CASE \E q \in Recs : Release(s, q)
    BY <1>2, <1>4, <2>6 DEF Release, cached, doing
  <2>7. CASE \E q \in Recs, v \in Contents, keep \in BOOLEAN : PutNow(s, q, v, keep)
    BY <1>2, <1>4, <2>7 DEF PutNow, cached, doing
  <2>8. ASSUME NEW q \in Recs, NEW v \in Contents, PutLater(s, q, v)
        PROVE  OwnOK(s)'
    <3>1. /\ at[s] = "ready" /\ at' = at /\ txn[s] # 0 /\ UNCHANGED <<txn, lock, stack, commitId, undo, open>>
          /\ cache'[s] = Deferred(cache[s], q, v) /\ FileOf[q] \in open[s] /\ Owns(s, q)
      BY <1>1, <2>8 DEF PutLater, Defer, program, doing
    <3>2. ClosedAfter(cache[s], open[s]) /\ FreedBelow(cache[s], 1)
      BY <1>2, <3>1 DEF OwnOK, InFlight, Applied, Committing
    <3>3. /\ ClosedAfter(cache'[s], open[s]) /\ FreedBelow(cache'[s], 1)
          /\ \A i \in DOMAIN cache'[s] : cache'[s][i].mode = "write" =>
               \/ cache'[s][i].rec = q
               \/ \E j \in DOMAIN cache[s] :
                    cache[s][j].mode = "write" /\ cache[s][j].rec = cache'[s][i].rec
      BY <1>1, <3>1, <3>2, DeferredLast
    <3>4. OnlyWrites(cache[s]) => OnlyWrites(cache'[s])
      BY <1>1, <3>1, DeferredCache
    <3>5. QED
      BY <1>6, <3>1, <3>3, <3>4
  <2>9. ASSUME NEW f \in Files, Close(s, f)
        PROVE  OwnOK(s)'
    <3>1. CASE txn[s] = 0
      BY <1>2, <1>4, <2>9, <3>1 DEF Close, doing
    <3>2. CASE txn[s] # 0
      <4>1. /\ at[s] = "ready" /\ at' = at /\ UNCHANGED <<txn, lock, stack, commitId, undo>>
            /\ cache'[s] = Append(cache[s], CloseOf(f)) /\ f \in open[s] /\ open'[s] = open[s] \ {f}
            /\ Closers # {}
        BY <1>1, <2>9, <3>2 DEF Close, doing
      <4>2. ClosedAfter(cache[s], open[s]) /\ FreedBelow(cache[s], 1)
        BY <1>2, <3>2, <4>1 DEF OwnOK, InFlight, Applied, Committing
      <4>3. /\ ClosedAfter(cache'[s], open'[s]) /\ FreedBelow(cache'[s], 1)
            /\ \A i \in DOMAIN cache'[s] : cache'[s][i].mode = "write" =>
                 \E j \in DOMAIN cache[s] :
                    cache[s][j].mode = "write" /\ cache[s][j].rec = cache'[s][i].rec
        <5> DEFINE c == cache[s]
                   fs == open[s]
        <5>1. c \in Seq(Actions) /\ f \in fs /\ ClosedAfter(c, fs) /\ FreedBelow(c, 1)
          BY <1>1, <4>1, <4>2
        <5> HIDE DEF c, fs
        <5>2. /\ ClosedAfter(Append(c, CloseOf(f)), fs \ {f})
              /\ FreedBelow(Append(c, CloseOf(f)), 1)
              /\ \A i \in DOMAIN Append(c, CloseOf(f)) :
                   Append(c, CloseOf(f))[i].mode = "write" =>
                     \E j \in DOMAIN c : /\ c[j].mode = "write"
                                        /\ c[j].rec = Append(c, CloseOf(f))[i].rec
          BY <5>1, ClosedLast
        <5>3. QED
          BY <4>1, <5>2 DEF c, fs
      <4>4. QED
        BY <1>6, <3>2, <4>1, <4>3
    <3>3. QED
      BY <3>1, <3>2
  <2>10. ASSUME NEW f \in Files, Reopen(s, f)
         PROVE  OwnOK(s)'
    <3>1. /\ at[s] = "ready" /\ at' = at /\ txn[s] # 0 /\ UNCHANGED <<txn, lock, stack, commitId, undo>>
          /\ open'[s] = open[s] \cup {f}
      BY <1>1, <2>10 DEF Reopen, doing
    <3>2. PICK k \in DOMAIN cache[s] : /\ cache[s][k].mode = "close" /\ cache[s][k].file = f
                                       /\ cache'[s] = RemoveAt(cache[s], k)
      BY <1>1, <2>10 DEF Reopen
    <3>3. ClosedAfter(cache[s], open[s]) /\ FreedBelow(cache[s], 1)
      BY <1>2, <3>1 DEF OwnOK, InFlight, Applied, Committing
    <3>4. /\ ClosedAfter(cache'[s], open'[s]) /\ FreedBelow(cache'[s], 1)
          /\ \A i \in DOMAIN cache'[s] : \E j \in DOMAIN cache[s] : cache[s][j] = cache'[s][i]
      <4> DEFINE c == cache[s]
                 fs == open[s]
      <4>1. /\ c \in Seq(Actions) /\ k \in DOMAIN c /\ c[k].mode = "close"
            /\ ClosedAfter(c, fs) /\ FreedBelow(c, 1)
        BY <1>1, <3>2, <3>3
      <4> HIDE DEF c, fs
      <4>2. /\ ClosedAfter(RemoveAt(c, k), fs \cup {c[k].file})
            /\ FreedBelow(RemoveAt(c, k), 1)
            /\ \A i \in DOMAIN RemoveAt(c, k) : \E j \in DOMAIN c : c[j] = RemoveAt(c, k)[i]
        BY <4>1, ReopenedLast
      <4>3. QED
        BY <3>1, <3>2, <4>2 DEF c, fs
    <3>5. OnlyWrites(cache[s]) => OnlyWrites(cache'[s])
      BY <3>4 DEF OnlyWrites
    <3>6. QED
      BY <1>6, <3>1, <3>4, <3>5
  <2>11. QED
    BY <1>7, <2>1, <2>2, <2>3, <2>4, <2>5, <2>6, <2>7, <2>8, <2>9, <2>10 DEF Statement
<1>8. CASE Internal(s)
  <2>1. CASE Apply(s)
    BY <1>1, <1>2, <2>1, ApplyOwn
  <2>2. CASE ApplyFails(s)
    BY <1>1, <1>2, <2>2, FailOwn
  <2>3. CASE CommitDone(s)
    BY <1>1, <1>4, <1>5, <2>3 DEF CommitDone, Committing, Goto
  <2>4. CASE Undo(s)
    BY <2>4, UndoOwn, <1>2
  <2>5. CASE AbortUnlock(s)
    <3>1. txn[s] = 0
      BY <1>2, <2>5 DEF AbortUnlock, OwnOK
    <3>2. QED
      BY <1>2, <1>4, <2>5, <3>1 DEF AbortUnlock, cached, doing
  <2>6. CASE AbortRollback(s)
    BY <1>2, <1>4, <1>5, <2>6 DEF AbortRollback, Rollback, doing
  <2>7. CASE RollbackAll(s)
    BY <1>2, <1>4, <1>5, <2>7 DEF RollbackAll, Rollback, doing
  <2>8. CASE AbortDone(s)
    BY <1>1, <1>2, <1>4, <2>8 DEF AbortDone, cached, Goto
  <2>9. CASE CommandDone(s)
    BY <1>1, <1>3, <2>9 DEF CommandDone, cached, Goto, Owns
  <2>10. QED
    BY <1>8, <2>1, <2>2, <2>3, <2>4, <2>5, <2>6, <2>7, <2>8, <2>9 DEF Internal
<1>9. CASE Event(s)
  <2>1. CASE Abort(s)
    BY <1>1, <1>3, <2>1 DEF Abort, cached, program, Goto, Owns
  <2>2. CASE Crash(s) \/ Fault(s)
    <3>1. at'[s] = "dead" /\ stack' = stack
      BY <1>1, <2>2 DEF Crash, Fault, Goto, cached
    <3>2. QED
      BY <1>2, <3>1 DEF OwnOK, InFlight
  <2>3. CASE Reap(s)
    <3>1. /\ at'[s] = "ready" /\ txn'[s] = 0 /\ cache'[s] = <<>> /\ stack'[s] = <<>>
          /\ commitId'[s] = 0 /\ undo'[s] = <<>>
      BY <1>1, <2>3 DEF Reap, Goto
    <3>2. ~InFlight(s)' /\ ImagesLocked(s)'
      BY <3>1 DEF InFlight, Committing, ImagesLocked, OnlyWrites
    <3>3. QED
      BY <3>1, <3>2 DEF OwnOK
  <2>4. QED
    BY <1>9, <2>1, <2>2, <2>3 DEF Event
<1>10. QED
  BY <1>7, <1>8, <1>9 DEF Step
LEMMA TheirsOwn ==
  ASSUME TypeOK, NEW s \in Sessions, Step(s), NEW t \in Sessions, t # s, OwnOK(t)
  PROVE  OwnOK(t)'
<1>1. /\ cache[t] \in Seq(Actions) /\ undo[t] \in Seq(Images)
  BY DEF TypeOK
<1>2. /\ txn'[t] = txn[t] /\ cache'[t] = cache[t] /\ stack'[t] = stack[t]
      /\ commitId'[t] = commitId[t] /\ undo'[t] = undo[t]
      /\ at'[t] = at[t] /\ pos'[t] = pos[t] /\ open'[t] = open[t]
      /\ \A r \in Recs : Owns(t, r) => Owns(t, r)'
  BY OthersKeep
<1>3. \A i \in DOMAIN cache[t] : cache[t][i].mode = "write" => cache[t][i].rec \in Recs
  BY <1>1, LenProperties, ElementOfSeq, ActionShape
<1>4. \A i \in DOMAIN undo[t] : undo[t][i].rec \in Recs
  <2>1. \A i \in DOMAIN undo[t] : undo[t][i] \in Images
    BY <1>1, LenProperties, ElementOfSeq
  <2>2. QED
    BY <2>1 DEF Images
<1>5. /\ WritesLocked(t) => WritesLocked(t)'
      /\ ImagesLocked(t) => ImagesLocked(t)'
      /\ InFlight(t)' <=> InFlight(t)
      /\ Applied(t)' = Applied(t)
  <2>1. WritesLocked(t) => WritesLocked(t)'
    BY <1>2, <1>3 DEF WritesLocked
  <2>2. ImagesLocked(t) => ImagesLocked(t)'
    BY <1>2, <1>4 DEF ImagesLocked
  <2>3. QED
    BY <1>2, <2>1, <2>2 DEF InFlight, Applied, Committing
<1>6. QED
  BY <1>2, <1>5 DEF OwnOK

LEMMA OwnStep ==
  ASSUME TypeOK, OwnInv, [Next]_vars, [Disciplined]_vars
  PROVE  OwnInv'
<1>1. IdsKept'
  BY IdsKeptStep DEF OwnInv
<1>2. ASSUME NEW s \in Sessions, Step(s), ~UNCHANGED vars, NEW t \in Sessions
      PROVE  OwnOK(t)'
  <2>1. CASE t = s
    BY <1>2, <2>1, MyOwn DEF Disciplined
  <2>2. CASE t # s
    BY <1>2, <2>2, TheirsOwn DEF OwnInv
  <2>3. QED
    BY <2>1, <2>2
<1>3. CASE UNCHANGED vars
  BY <1>3 DEF vars, cached, program, doing, OwnInv, IdsKept, OwnOK, InFlight, Applied, Committing,
     WritesLocked, ImagesLocked, Owns
<1>4. QED
  BY <1>1, <1>2, <1>3, StepsOrNone DEF OwnInv

LEMMA OwnInit == Init => OwnInv
<1> HAVE Init
<1>1. ASSUME NEW s \in Sessions
      PROVE  OwnOK(s)
  <2>1. /\ at[s] = "ready" /\ txn[s] = 0 /\ cache[s] = <<>> /\ stack[s] = <<>>
        /\ commitId[s] = 0 /\ undo[s] = <<>>
    BY DEF Init
  <2>2. ~InFlight(s) /\ ImagesLocked(s)
    BY <2>1 DEF InFlight, Committing, ImagesLocked, OnlyWrites
  <2>3. QED
    BY <2>1, <2>2 DEF OwnOK
<1>2. IdsKept
  BY DEF Init, IdsKept, Committing
<1>3. QED
  BY <1>1, <1>2 DEF OwnInv

(* PendingLocked: of disciplined programs, whatever fails, aborts, closes   *)
(* files or dies, no record a running transaction is still going to write   *)
(* is free or another session's: a deferred close frees the locks of its    *)
(* file only after the last write to it.                                    *)
THEOREM PendingStaysLocked == Spec /\ [][Disciplined]_vars => []PendingLocked
<1>1. OwnInv => PendingLocked
  <2> SUFFICES ASSUME OwnInv, NEW s \in Sessions, InFlight(s), NEW c \in CachesOf(s),
                      NEW i \in DOMAIN c, c[i].mode = "write", ~c[i].freed
               PROVE  Owns(s, c[i].rec)
    BY DEF PendingLocked
  <2>1. stack[s] = <<>> /\ WritesLocked(s)
    BY DEF OwnInv, OwnOK
  <2>2. c = cache[s]
    BY <2>1 DEF CachesOf
  <2>3. QED
    BY <2>1, <2>2 DEF WritesLocked
<1>2. TypeOK /\ OwnInv /\ [Next]_vars /\ [Disciplined]_vars => OwnInv'
  BY OwnStep
<1>3. QED
  BY <1>1, <1>2, OwnInit, TransactionsTyped, PTL DEF Spec

(* UndoIsMine: without deferred closes, txn_abort writes before images only *)
(* to records the failed transaction still has locked, wherever the commit  *)
(* failed and whatever the other sessions did since.                        *)
THEOREM UndoStaysMine ==
  Closers = {} => (Spec /\ [][Disciplined]_vars => []UndoIsMine)
<1> SUFFICES ASSUME Closers = {}
             PROVE  Spec /\ [][Disciplined]_vars => []UndoIsMine
  OBVIOUS
<1>1. OwnInv => UndoIsMine
  BY DEF OwnInv, OwnOK, ImagesLocked, UndoIsMine
<1>2. TypeOK /\ OwnInv /\ [Next]_vars /\ [Disciplined]_vars => OwnInv'
  BY OwnStep
<1>3. QED
  BY <1>1, <1>2, OwnInit, TransactionsTyped, PTL DEF Spec
-----------------------------------------------------------------------------
(* What the images say of a commit.                                         *)

HasImage(u, r) == \E i \in DOMAIN u : u[i].rec = r

ImageIs(u, r, v) == \E i \in DOMAIN u : u[i].rec = r /\ u[i].val = v

NoneTwice(u) == \A i, j \in DOMAIN u : u[i].rec = u[j].rec => i = j

AppliedTo(c, n, r) == \E i \in DOMAIN c : i < n /\ c[i].rec = r

(* A commit has an image of each record it has written and of no other, and *)
(* what it has written is there.                                            *)
AtomOK(s) ==
  /\ at[s] # "dead"
  /\ NoneTwice(undo[s])
  /\ Committing(s) =>
       /\ \A i \in DOMAIN cache[s] : i < pos[s] => disk[cache[s][i].rec] = cache[s][i].val
       /\ \A r \in Recs : HasImage(undo[s], r) <=> AppliedTo(cache[s], pos[s], r)

AtomInv == OwnInv /\ InnerInv /\ \A s \in Sessions : AtomOK(s)

(* Deferred closes, killed sessions and images that cannot go back are the  *)
(* ways in which a commit is known not to be atomic.                        *)
Benign == Closers = {} /\ Mortals = {} /\ Unrestorable = {}

LEMMA PushedImage ==
  ASSUME NEW u \in Seq(Images), NEW e \in Images, NEW q, q = <<e>> \o u
  PROVE  /\ \A r : HasImage(q, r) <=> e.rec = r \/ HasImage(u, r)
         /\ \A r, v : ImageIs(u, r, v) => ImageIs(q, r, v)
         /\ ImageIs(q, e.rec, e.val)
         /\ NoneTwice(u) /\ ~HasImage(u, e.rec) => NoneTwice(q)
<1>1. /\ DOMAIN q = 1 .. (Len(u) + 1) /\ q[1] = e
      /\ \A k \in 2 .. (Len(u) + 1) : q[k] = u[k - 1]
      /\ DOMAIN u = 1 .. Len(u) /\ Len(u) \in Nat
  BY PushSeq, LenProperties
<1>2. /\ 1 \in DOMAIN q
      /\ \A k \in DOMAIN q : k = 1 \/ (k - 1 \in DOMAIN u /\ q[k] = u[k - 1])
      /\ \A k \in DOMAIN u : k + 1 \in DOMAIN q /\ q[k + 1] = u[k] /\ k + 1 # 1
      /\ \A j, k \in DOMAIN q : j - 1 = k - 1 => j = k
  BY <1>1
<1>3. ASSUME NEW r
      PROVE  HasImage(q, r) <=> e.rec = r \/ HasImage(u, r)
  <2>1. ASSUME NEW k \in DOMAIN q, q[k].rec = r
        PROVE  e.rec = r \/ HasImage(u, r)
    BY <1>1, <1>2, <2>1 DEF HasImage
  <2>2. ASSUME NEW k \in DOMAIN u, u[k].rec = r
        PROVE  HasImage(q, r)
    <3>1. k + 1 \in DOMAIN q /\ q[k + 1].rec = r
      BY <1>2, <2>2
    <3>2. QED
      BY <3>1 DEF HasImage
  <2>3. e.rec = r => HasImage(q, r)
    BY <1>1, <1>2 DEF HasImage
  <2>4. QED
    BY <2>1, <2>2, <2>3 DEF HasImage
<1>4. ASSUME NEW r, NEW v, ImageIs(u, r, v)
      PROVE  ImageIs(q, r, v)
  <2>1. PICK k \in DOMAIN u : u[k].rec = r /\ u[k].val = v
    BY <1>4 DEF ImageIs
  <2>2. k + 1 \in DOMAIN q /\ q[k + 1] = u[k]
    BY <1>2
  <2>3. QED
    BY <2>1, <2>2 DEF ImageIs
<1>5. ImageIs(q, e.rec, e.val)
  BY <1>1, <1>2 DEF ImageIs
<1>6. ASSUME NoneTwice(u), ~HasImage(u, e.rec)
      PROVE  NoneTwice(q)
  BY <1>1, <1>2, <1>6 DEF NoneTwice, HasImage
<1>7. QED
  BY <1>3, <1>4, <1>5, <1>6

LEMMA PoppedImage ==
  ASSUME NEW u \in Seq(Images), u # <<>>, NoneTwice(u), NEW q, q = Tail(u)
  PROVE  /\ Head(u) \in Images
         /\ NoneTwice(q)
         /\ ImageIs(u, Head(u).rec, Head(u).val)
         /\ ~HasImage(q, Head(u).rec)
         /\ \A r : HasImage(q, r) => HasImage(u, r)
         /\ \A r : r # Head(u).rec =>
              /\ HasImage(u, r) => HasImage(q, r)
              /\ \A v : ImageIs(u, r, v) => ImageIs(q, r, v)
<1>1. /\ Head(u) = u[1] /\ Head(u) \in Images
      /\ DOMAIN u = 1 .. Len(u) /\ Len(u) \in Nat /\ 1 \in DOMAIN u
      /\ DOMAIN q = 1 .. (Len(u) - 1)
      /\ \A i \in 1 .. (Len(u) - 1) : q[i] = u[i + 1]
  BY HeadTailProperties, LenProperties
<1>2. /\ \A k \in DOMAIN q : k + 1 \in DOMAIN u /\ q[k] = u[k + 1] /\ k + 1 # 1
      /\ \A k \in DOMAIN u : k = 1 \/ (k - 1 \in DOMAIN q /\ q[k - 1] = u[k])
      /\ \A j, k \in DOMAIN q : j + 1 = k + 1 => j = k
  BY <1>1
<1>3. NoneTwice(q)
  BY <1>2 DEF NoneTwice
<1>4. ImageIs(u, Head(u).rec, Head(u).val)
  BY <1>1 DEF ImageIs
<1>5. ~HasImage(q, Head(u).rec)
  BY <1>1, <1>2 DEF HasImage, NoneTwice
<1>6. \A r : HasImage(q, r) => HasImage(u, r)
  BY <1>2 DEF HasImage
<1>7. ASSUME NEW r, r # Head(u).rec, NEW k \in DOMAIN u, u[k].rec = r
      PROVE  HasImage(q, r) /\ ImageIs(q, r, u[k].val)
  <2>1. k - 1 \in DOMAIN q /\ q[k - 1] = u[k]
    BY <1>1, <1>2, <1>7
  <2>2. QED
    BY <1>7, <2>1 DEF HasImage, ImageIs
<1>8. \A r : r # Head(u).rec =>
        /\ HasImage(u, r) => HasImage(q, r)
        /\ \A v : ImageIs(u, r, v) => ImageIs(q, r, v)
  <2>1. ASSUME NEW r, r # Head(u).rec, HasImage(u, r)
        PROVE  HasImage(q, r)
    BY <1>7, <2>1 DEF HasImage
  <2>2. ASSUME NEW r, NEW v, r # Head(u).rec, ImageIs(u, r, v)
        PROVE  ImageIs(q, r, v)
    <3>1. PICK k \in DOMAIN u : u[k].rec = r /\ u[k].val = v
      BY <2>2 DEF ImageIs
    <3>2. ImageIs(q, r, u[k].val)
      BY <1>7, <2>2, <3>1
    <3>3. QED
      BY <3>1, <3>2
  <2>3. QED
    BY <2>1, <2>2
<1>9. QED
  BY <1>1, <1>3, <1>4, <1>5, <1>6, <1>8

LEMMA ImagesOwned ==
  ASSUME AtomInv, Benign, NEW s \in Sessions, NEW r, HasImage(undo[s], r)
  PROVE  Owns(s, r)
BY DEF AtomInv, AtomOK, OwnInv, OwnOK, ImagesLocked, Benign, HasImage

LEMMA PendingOwned ==
  ASSUME TypeOK, AtomInv, Benign, NEW s \in Sessions, NEW r \in Recs, InFlight(s), HasWrite(cache[s], r)
  PROVE  Owns(s, r)
<1>1. PICK i \in DOMAIN cache[s] : cache[s][i].mode = "write" /\ cache[s][i].rec = r
  BY DEF HasWrite, IsWriteOf
<1>2. /\ WritesLocked(s) /\ FreedBelow(cache[s], Applied(s)) /\ AtomOK(s)
  BY DEF AtomInv, OwnInv, OwnOK
<1>3. CASE ~cache[s][i].freed
  BY <1>1, <1>2, <1>3 DEF WritesLocked
<1>4. CASE cache[s][i].freed
  <2>1. cache[s] \in Seq(Actions)
    BY DEF TypeOK
  <2>2. i < Applied(s) /\ ~(i < 1)
    BY <1>2, <1>4, <2>1, LenProperties DEF FreedBelow
  <2>3. Committing(s) /\ i < pos[s]
    BY <2>2 DEF Applied
  <2>4. HasImage(undo[s], r)
    BY <1>1, <1>2, <2>3 DEF AtomOK, AppliedTo
  <2>5. QED
    BY <2>4, ImagesOwned
<1>5. QED
  BY <1>3, <1>4

(* What a commit applies next is a write that it has not applied, of a      *)
(* record it has locked.                                                    *)
LEMMA NextWrite ==
  ASSUME TypeOK, AtomInv, Benign, NEW s \in Sessions, Applying(s)
  PROVE  /\ pos[s] \in DOMAIN cache[s] /\ cache[s] \in Seq(Actions)
         /\ cache[s][pos[s]] \in Actions /\ cache[s][pos[s]].mode = "write"
         /\ cache[s][pos[s]].rec \in Recs /\ cache[s][pos[s]].val \in Contents
         /\ OneEach(cache[s]) /\ OnlyWrites(cache[s])
         /\ InFlight(s) /\ HasWrite(cache[s], cache[s][pos[s]].rec)
         /\ Owns(s, cache[s][pos[s]].rec)
         /\ ~HasImage(undo[s], cache[s][pos[s]].rec)
         /\ Image(cache[s][pos[s]].rec, disk[cache[s][pos[s]].rec]) \in Images
<1> DEFINE a == cache[s][pos[s]]
<1>1. /\ pos[s] \in DOMAIN cache[s] /\ cache[s] \in Seq(Actions) /\ a \in Actions
      /\ DOMAIN cache[s] \subseteq Nat /\ pos[s] \in Nat
  BY LenProperties, ElementOfSeq DEF TypeOK, Applying
<1>2. at[s] = "commit" /\ OneEach(cache[s]) /\ OnlyWrites(cache[s])
  BY DEF Applying, Committing, AtomInv, InnerInv, CommittedOnce, OwnInv, OwnOK, ImagesLocked, Benign
<1>3. a.mode = "write" /\ a.rec \in Recs /\ a.val \in Contents
  BY <1>1, <1>2, ActionShape DEF OnlyWrites
<1>4. InFlight(s) /\ HasWrite(cache[s], a.rec)
  BY <1>1, <1>2, <1>3 DEF InFlight, Committing, HasWrite, IsWriteOf
<1>5. Owns(s, a.rec)
  BY <1>3, <1>4, PendingOwned
<1>6. ~HasImage(undo[s], a.rec)
  <2>1. ~AppliedTo(cache[s], pos[s], a.rec)
    <3>1. ASSUME NEW i \in DOMAIN cache[s], i < pos[s], cache[s][i].rec = a.rec
          PROVE  FALSE
      <4>1. i = pos[s]
        BY <1>1, <1>2, <3>1 DEF OneEach, OnlyWrites
      <4>2. QED
        BY <1>1, <3>1, <4>1
    <3>2. QED
      BY <3>1 DEF AppliedTo
  <2>2. QED
    BY <1>2, <1>3, <2>1 DEF AtomInv, AtomOK, Committing
<1>7. Image(a.rec, disk[a.rec]) \in Images
  BY <1>3 DEF TypeOK, Image, Images
<1>8. QED
  BY <1>1, <1>2, <1>3, <1>4, <1>5, <1>6, <1>7

(* A session writes to a file only what it has locked.                      *)
LEMMA DiskSteps ==
  ASSUME TypeOK, AtomInv, Benign, NEW s \in Sessions, Step(s), NEW r \in Recs
  PROVE  disk'[r] = disk[r] \/ Owns(s, r)
<1> USE DEF TypeOK
<1>1. ASSUME NEW q \in Recs, NEW v, disk' = [disk EXCEPT ![q] = v], Owns(s, q)
      PROVE  disk'[r] = disk[r] \/ Owns(s, r)
  BY <1>1
<1>2. CASE Statement(s)
  <2>1. CASE \E q \in Recs, v \in Contents, keep \in BOOLEAN : PutNow(s, q, v, keep)
    BY <1>1, <2>1 DEF PutNow
  <2>2. CASE disk' = disk
    BY <2>2
  <2>3. QED
    BY <1>2, <2>1, <2>2 DEF Statement, LockRec, Release, PutLater, Close, Reopen, Begin, Commit,
       End, Execute, EndCommand
<1>3. CASE Apply(s) \/ ApplyFails(s)
  <2>1. Applying(s)
    BY <1>3 DEF Apply, ApplyFails
  <2>2. \/ disk' = disk
        \/ \E v : disk' = [disk EXCEPT ![cache[s][pos[s]].rec] = v]
    BY <1>3 DEF Apply, ApplyFails
  <2>3. cache[s][pos[s]].rec \in Recs /\ Owns(s, cache[s][pos[s]].rec)
    BY <2>1, NextWrite
  <2>4. QED
    BY <1>1, <2>2, <2>3
<1>4. CASE Undo(s)
  <2>1. undo[s] \in Seq(Images) /\ undo[s] # <<>> /\ NoneTwice(undo[s])
    BY <1>4 DEF Undo, AtomInv, AtomOK
  <2>2. Head(undo[s]) \in Images /\ ImageIs(undo[s], Head(undo[s]).rec, Head(undo[s]).val)
    BY <2>1, PoppedImage
  <2>3. Head(undo[s]).rec \in Recs /\ HasImage(undo[s], Head(undo[s]).rec)
    BY <2>2 DEF Images, ImageIs, HasImage
  <2>4. Owns(s, Head(undo[s]).rec)
    BY <2>3, ImagesOwned
  <2>5. disk' = disk \/ disk' = [disk EXCEPT ![Head(undo[s]).rec] = Head(undo[s]).val]
    BY <1>4 DEF Undo
  <2>6. QED
    BY <1>1, <2>3, <2>4, <2>5
<1>5. CASE CommitDone(s) \/ AbortUnlock(s) \/ AbortRollback(s) \/ AbortDone(s) \/ RollbackAll(s)
           \/ CommandDone(s) \/ Event(s)
  BY <1>5 DEF CommitDone, AbortUnlock, AbortRollback, AbortDone, RollbackAll, CommandDone, Event,
     Abort, Crash, Fault, Reap
<1>6. QED
  BY <1>2, <1>3, <1>4, <1>5 DEF Step, Internal
LEMMA MyAtom ==
  ASSUME TypeOK, AtomInv, Benign, NEW s \in Sessions, Step(s),
         Begin(s) => txn[s] = 0 /\ cache[s] = <<>>, Commit(s) => txn[s] # 0
  PROVE  AtomOK(s)'
<1>1. /\ cache \in [Sessions -> Seq(Actions)] /\ cache[s] \in Seq(Actions)
      /\ undo \in [Sessions -> Seq(Images)] /\ undo[s] \in Seq(Images)
      /\ disk \in [Recs -> Contents] /\ at \in [Sessions -> Places]
      /\ pos \in [Sessions -> Nat \ {0}] /\ pos[s] \in Nat \ {0}
  BY DEF TypeOK
<1>2. /\ AtomOK(s) /\ at[s] # "dead" /\ NoneTwice(undo[s])
      /\ at[s] \in {"ready", "rollall"} => undo[s] = <<>>
  BY DEF AtomInv, AtomOK, OwnInv, OwnOK
<1>3. ASSUME at'[s] \notin {"dead", "commit"}, undo'[s] = undo[s] \/ undo'[s] = <<>>
      PROVE  AtomOK(s)'
  BY <1>2, <1>3 DEF AtomOK, Committing, NoneTwice
<1>4. CASE Statement(s)
  <2>1. CASE Commit(s)
    <3>1. undo'[s] = <<>> /\ pos'[s] = 1 /\ at'[s] = "commit" /\ cache' = cache
      BY <1>1, <1>2, <2>1 DEF Commit, Goto
    <3>2. /\ \A r : ~HasImage(undo'[s], r) /\ NoneTwice(undo'[s])
          /\ \A i \in DOMAIN cache'[s] : ~(i < pos'[s])
      BY <1>1, <3>1, LenProperties DEF HasImage, NoneTwice
    <3>3. QED
      BY <3>1, <3>2 DEF AtomOK, AppliedTo
  <2>2. CASE End(s)
    BY <1>1, <1>3, <2>2 DEF End, Goto, doing
  <2>3. CASE EndCommand(s)
    BY <1>1, <1>3, <2>3 DEF EndCommand, Goto
  <2>4. CASE at[s] = "ready" /\ UNCHANGED <<at, undo>>
    BY <1>3, <2>4
  <2>5. QED
    BY <1>4, <2>1, <2>2, <2>3, <2>4 DEF Statement, LockRec, Release, PutLater, PutNow, Close,
       Reopen, Begin, Execute, doing
<1>5. CASE Apply(s)
  <2> DEFINE c == cache[s]
             p == pos[s]
             a == c[p]
             e == Image(a.rec, disk[a.rec])
             d == cache'[s]
  <2>1. Applying(s) /\ at'[s] = "commit"
    BY <1>5 DEF Apply, Applying, Committing
  <2>2. /\ p \in DOMAIN c /\ a.mode = "write" /\ a.rec \in Recs /\ OneEach(c) /\ OnlyWrites(c)
        /\ ~HasImage(undo[s], a.rec) /\ e \in Images /\ e.rec = a.rec
    BY <2>1, NextWrite DEF Image
  <2>3. /\ disk'[a.rec] = a.val /\ \A r \in Recs : r # a.rec => disk'[r] = disk[r]
        /\ undo'[s] = <<e>> \o undo[s] /\ pos'[s] = p + 1 /\ d = Freed(c, p)
    BY <1>1, <1>5, <2>2 DEF Apply, TakeImage, Freed
  <2>4. /\ \A i \in DOMAIN c : i < p => disk[c[i].rec] = c[i].val
        /\ \A r \in Recs : HasImage(undo[s], r) <=> AppliedTo(c, p, r)
    BY <1>2, <2>1 DEF AtomOK, Applying
  <2>5. \A i \in DOMAIN c : i \in Nat /\ c[i] \in Actions /\ c[i].mode = "write" /\ c[i].rec \in Recs
    BY <1>1, <2>2, LenProperties, ElementOfSeq, ActionShape DEF OnlyWrites
  <2>6. /\ DOMAIN d = DOMAIN c
        /\ \A i \in DOMAIN c : d[i].rec = c[i].rec /\ d[i].val = c[i].val
    <3>1. \A i \in DOMAIN c : /\ [c EXCEPT ![p].freed = TRUE][i].rec = c[i].rec
                              /\ [c EXCEPT ![p].freed = TRUE][i].val = c[i].val
      BY <1>1, <2>2, <2>5, AppliedCache
    <3>2. QED
      BY <2>3, <3>1 DEF Freed
  <2> HIDE DEF e, d
  <2>7. /\ \A r : HasImage(undo'[s], r) <=> a.rec = r \/ HasImage(undo[s], r)
        /\ NoneTwice(undo'[s])
    <3>1. undo[s] \in Seq(Images) /\ e \in Images /\ undo'[s] = <<e>> \o undo[s]
      BY <1>1, <2>2, <2>3
    <3>2. /\ \A r : HasImage(undo'[s], r) <=> e.rec = r \/ HasImage(undo[s], r)
          /\ NoneTwice(undo[s]) /\ ~HasImage(undo[s], e.rec) => NoneTwice(undo'[s])
      BY <3>1, PushedImage
    <3>3. QED
      BY <1>2, <2>2, <3>2
  <2>8. ASSUME NEW i \in DOMAIN d, i < p + 1
        PROVE  disk'[d[i].rec] = d[i].val
    <3>1. CASE i = p
      BY <2>2, <2>3, <2>6, <3>1
    <3>2. CASE i # p
      <4>1. i < p /\ c[i].rec # a.rec
        BY <1>1, <2>2, <2>5, <2>6, <2>8, <3>2 DEF OneEach
      <4>2. QED
        BY <2>3, <2>4, <2>5, <2>6, <4>1
    <3>3. QED
      BY <3>1, <3>2
  <2>9. \A r : AppliedTo(d, p + 1, r) <=> a.rec = r \/ AppliedTo(c, p, r)
    <3>1. \A i \in DOMAIN c : i < p + 1 <=> i < p \/ i = p
      BY <1>1, <2>5
    <3>2. QED
      BY <2>2, <2>6, <3>1 DEF AppliedTo
  <2>10. QED
    BY <2>1, <2>3, <2>4, <2>7, <2>8, <2>9 DEF AtomOK, d
<1>6. CASE ApplyFails(s)
  <2> DEFINE a == cache[s][pos[s]]
             e == Image(a.rec, disk[a.rec])
  <2>1. Applying(s) /\ at'[s] = "abort" /\ undo'[s] = <<e>> \o undo[s]
    BY <1>1, <1>6 DEF ApplyFails, Goto, TakeImage
  <2>2. ~HasImage(undo[s], e.rec) /\ e \in Images
    BY <2>1, NextWrite DEF Image
  <2> HIDE DEF e
  <2>3. NoneTwice(undo'[s])
    BY <1>1, <1>2, <2>1, <2>2, PushedImage
  <2>4. QED
    BY <2>1, <2>3 DEF AtomOK, Committing
<1>7. CASE Undo(s)
  <2>1. at[s] = "abort" /\ at'[s] = "abort" /\ undo[s] # <<>> /\ undo'[s] = Tail(undo[s])
    BY <1>1, <1>7 DEF Undo, doing
  <2>2. NoneTwice(undo'[s])
    BY <1>1, <1>2, <2>1, PoppedImage
  <2>3. QED
    BY <2>1, <2>2 DEF AtomOK, Committing
<1>8. CASE Internal(s)
  <2>1. CASE CommitDone(s)
    BY <1>1, <1>3, <2>1 DEF CommitDone, Goto
  <2>2. CASE AbortUnlock(s) \/ AbortRollback(s) \/ RollbackAll(s)
    BY <1>3, <2>2 DEF AbortUnlock, AbortRollback, RollbackAll, doing
  <2>3. CASE AbortDone(s) \/ CommandDone(s)
    BY <1>1, <1>3, <2>3 DEF AbortDone, CommandDone, Goto
  <2>4. QED
    BY <1>5, <1>6, <1>7, <1>8, <2>1, <2>2, <2>3 DEF Internal
<1>9. CASE Event(s)
  <2>1. CASE Abort(s)
    BY <1>1, <1>3, <2>1 DEF Abort, Goto
  <2>2. ~Crash(s) /\ ~Reap(s)
    BY <1>2 DEF Crash, Reap, Benign
  <2>3. ~Fault(s)
    <3>1. ASSUME at[s] = "ready", txn[s] # 0, NEW i \in DOMAIN cache[s], cache[s][i].freed
          PROVE  FALSE
      <4>1. FreedBelow(cache[s], 1)
        BY <3>1 DEF AtomInv, OwnInv, OwnOK, InFlight, Applied, Committing
      <4>2. QED
        BY <1>1, <3>1, <4>1, LenProperties DEF FreedBelow
    <3>2. QED
      BY <3>1 DEF Fault
  <2>4. QED
    BY <1>9, <2>1, <2>2, <2>3 DEF Event
<1>10. QED
  BY <1>4, <1>8, <1>9 DEF Step

LEMMA TheirsAtom ==
  ASSUME TypeOK, AtomInv, Benign, NEW s \in Sessions, Step(s), NEW t \in Sessions, t # s
  PROVE  AtomOK(t)'
<1>1. AtomOK(t) /\ cache[t] \in Seq(Actions) /\ (Committing(t) => OnlyWrites(cache[t]))
  BY DEF AtomInv, OwnInv, OwnOK, ImagesLocked, Benign, TypeOK, Committing
<1>2. cache'[t] = cache[t] /\ undo'[t] = undo[t] /\ at'[t] = at[t] /\ pos'[t] = pos[t]
  BY OthersKeep
<1>3. ASSUME Committing(t), NEW i \in DOMAIN cache[t], i < pos[t]
      PROVE  disk'[cache[t][i].rec] = cache[t][i].val
  <2> DEFINE r == cache[t][i].rec
  <2>1. r \in Recs
    BY <1>1, <1>3, LenProperties, ElementOfSeq, ActionShape DEF OnlyWrites
  <2>2. disk[r] = cache[t][i].val /\ HasImage(undo[t], r)
    BY <1>1, <1>3, <2>1 DEF AtomOK, AppliedTo
  <2>3. ~Owns(s, r)
    BY <2>2, ImagesOwned DEF Owns
  <2>4. QED
    BY <2>1, <2>2, <2>3, DiskSteps
<1>4. QED
  BY <1>1, <1>2, <1>3 DEF AtomOK, Committing

LEMMA AtomStep ==
  ASSUME TypeOK, AtomInv, Benign, [Next]_vars, [Disciplined]_vars
  PROVE  AtomInv'
<1>1. OwnInv' /\ InnerInv'
  BY OwnStep, InnerStep DEF AtomInv
<1>2. ASSUME NEW s \in Sessions, Step(s), ~UNCHANGED vars, NEW t \in Sessions
      PROVE  AtomOK(t)'
  <2>1. CASE t = s
    BY <1>2, <2>1, MyAtom DEF Disciplined
  <2>2. CASE t # s
    BY <1>2, <2>2, TheirsAtom
  <2>3. QED
    BY <2>1, <2>2
<1>3. CASE UNCHANGED vars
  BY <1>1, <1>3 DEF vars, cached, doing, AtomInv, AtomOK, Committing
<1>4. QED
  BY <1>1, <1>2, <1>3, StepsOrNone DEF AtomInv
-----------------------------------------------------------------------------
(* Every step is a step of the service or none.                             *)

Store == [r \in Recs |-> Committed(r)]

Pend == [s \in Sessions |-> [r \in Recs |-> Pending(s, r)]]

(* Images of a record are one session's, and one.                           *)
ImagesApart ==
  /\ \A s \in Sessions : at[s] # "dead" /\ NoneTwice(undo[s])
  /\ \A s, t \in Sessions : \A r \in Recs :
       HasImage(undo[s], r) /\ HasImage(undo[t], r) => s = t

(* The committed content of a record is its image, or what is in the file.  *)
ContentIs(r, v) ==
  \/ \E s \in Sessions : ImageIs(undo[s], r, v)
  \/ disk[r] = v /\ \A s \in Sessions : ~HasImage(undo[s], r)

ContentsRead == TypeOK /\ ImagesApart => \A r \in Recs : \A v : ContentIs(r, v) => Committed(r) = v

LEMMA ReadContents == ContentsRead
<1> SUFFICES ASSUME TypeOK, ImagesApart, NEW r \in Recs, NEW v, ContentIs(r, v)
             PROVE  Committed(r) = v
  BY DEF ContentsRead
<1>1. CASE disk[r] = v /\ \A s \in Sessions : ~HasImage(undo[s], r)
  <2>1. Imaged(r) = {}
    BY <1>1 DEF Imaged, HasImage
  <2>2. QED
    BY <1>1, <2>1 DEF Committed
<1>2. ASSUME NEW s \in Sessions, ImageIs(undo[s], r, v)
      PROVE  Committed(r) = v
  <2> DEFINE u == undo[s]
  <2>1. PICK i \in DOMAIN u : u[i].rec = r /\ u[i].val = v
    BY <1>2 DEF ImageIs
  <2>2. Imaged(r) = {s}
    <3>1. s \in Imaged(r)
      BY <2>1 DEF Imaged, ImagesApart
    <3>2. \A t \in Imaged(r) : t = s
      BY <2>1 DEF Imaged, ImagesApart, HasImage
    <3>3. QED
      BY <3>1, <3>2
  <2>3. (CHOOSE t \in Imaged(r) : TRUE) = s
    BY <2>2
  <2>4. Committed(r) = u[Oldest(u, r)].val
    BY <2>2, <2>3 DEF Committed
  <2>5. NoneTwice(u)
    BY DEF ImagesApart
  <2>6. u \in Seq(Images)
    BY DEF TypeOK
  <2> HIDE DEF u
  <2>7. Oldest(u, r) = i
    <3>1. \A k \in DOMAIN u : u[k].rec = r <=> k = i
      BY <2>1, <2>5 DEF NoneTwice
    <3>2. i <= i
      BY <2>1, <2>6, LenProperties
    <3>3. QED
      BY <2>1, <3>1, <3>2 DEF Oldest
  <2>8. QED
    BY <2>1, <2>4, <2>7
<1>3. QED
  BY <1>1, <1>2 DEF ContentIs

LEMMA ApartImages ==
  ASSUME AtomInv, Benign
  PROVE  ImagesApart
<1>1. ASSUME NEW s \in Sessions, NEW t \in Sessions, NEW r \in Recs,
             HasImage(undo[s], r), HasImage(undo[t], r)
      PROVE  s = t
  BY <1>1, ImagesOwned DEF Owns
<1>2. QED
  BY <1>1 DEF ImagesApart, AtomInv, AtomOK

LEMMA ContentExists ==
  ASSUME TypeOK, AtomInv, Benign, NEW r \in Recs
  PROVE  ContentIs(r, Committed(r))
<1>1. \E v : ContentIs(r, v)
  <2>1. CASE \A s \in Sessions : ~HasImage(undo[s], r)
    BY <2>1 DEF ContentIs
  <2>2. ASSUME NEW s \in Sessions, HasImage(undo[s], r)
        PROVE  \E v : ContentIs(r, v)
    <3>1. PICK i \in DOMAIN undo[s] : undo[s][i].rec = r
      BY <2>2 DEF HasImage
    <3>2. ImageIs(undo[s], r, undo[s][i].val)
      BY <3>1 DEF ImageIs
    <3>3. QED
      BY <3>2 DEF ContentIs
  <2>3. QED
    BY <2>1, <2>2
<1>2. QED
  BY <1>1, ReadContents, ApartImages DEF ContentsRead

(* The content of a record stays if its image or its place in the file does. *)
LEMMA ContentKept ==
  ASSUME TypeOK, AtomInv, Benign, NEW s \in Sessions, Step(s), NEW r \in Recs, NEW v,
         ContentIs(r, v), disk'[r] = disk[r],
         HasImage(undo'[s], r) => HasImage(undo[s], r),
         ImageIs(undo[s], r, v) => ImageIs(undo'[s], r, v)
  PROVE  ContentIs(r, v)'
<1>1. \A t \in Sessions : t # s => undo'[t] = undo[t]
  BY OthersKeep
<1>2. CASE \E t \in Sessions : ImageIs(undo[t], r, v)
  BY <1>1, <1>2 DEF ContentIs
<1>3. CASE disk[r] = v /\ \A t \in Sessions : ~HasImage(undo[t], r)
  BY <1>1, <1>3 DEF ContentIs
<1>4. QED
  BY <1>2, <1>3 DEF ContentIs

(* Taking an image, writing, and putting images back do not change what is  *)
(* committed.                                                               *)
LEMMA ImageTaken ==
  ASSUME TypeOK, AtomInv, Benign, NEW s \in Sessions, Step(s), Applying(s),
         TakeImage(s, cache[s][pos[s]].rec),
         \E w : disk' = [disk EXCEPT ![cache[s][pos[s]].rec] = w],
         NEW r \in Recs, NEW v, ContentIs(r, v)
  PROVE  ContentIs(r, v)'
<1> DEFINE q == cache[s][pos[s]].rec
           e == Image(q, disk[q])
<1>1. undo \in [Sessions -> Seq(Images)] /\ undo[s] \in Seq(Images) /\ disk \in [Recs -> Contents]
  BY DEF TypeOK
<1>2. q \in Recs /\ Owns(s, q) /\ ~HasImage(undo[s], q) /\ e \in Images /\ e.rec = q /\ e.val = disk[q]
  BY NextWrite DEF Image
<1>3. undo'[s] = <<e>> \o undo[s] /\ \A p \in Recs : p # q => disk'[p] = disk[p]
  BY <1>1, <1>2 DEF TakeImage
<1> HIDE DEF e, q
<1>4. /\ \A p : HasImage(undo'[s], p) <=> e.rec = p \/ HasImage(undo[s], p)
      /\ \A p, w : ImageIs(undo[s], p, w) => ImageIs(undo'[s], p, w)
      /\ ImageIs(undo'[s], e.rec, e.val)
  BY <1>1, <1>2, <1>3, PushedImage
<1>5. CASE r = q
  <2>1. \A t \in Sessions : ~HasImage(undo[t], q)
    BY <1>2, ImagesOwned DEF Owns
  <2>2. disk[q] = v
    BY <1>5, <2>1 DEF ContentIs, ImageIs, HasImage
  <2>3. ImageIs(undo'[s], r, v)
    BY <1>2, <1>4, <1>5, <2>2
  <2>4. QED
    BY <2>3 DEF ContentIs
<1>6. CASE r # q
  BY <1>2, <1>3, <1>4, <1>6, ContentKept
<1>7. QED
  BY <1>5, <1>6

LEMMA ImagePutBack ==
  ASSUME TypeOK, AtomInv, Benign, NEW s \in Sessions, Undo(s),
         NEW r \in Recs, NEW v, ContentIs(r, v)
  PROVE  ContentIs(r, v)'
<1> DEFINE u == undo[s]
           h == Head(undo[s])
<1>1. undo \in [Sessions -> Seq(Images)] /\ u \in Seq(Images) /\ disk \in [Recs -> Contents]
  BY DEF TypeOK
<1>2. /\ u # <<>> /\ undo'[s] = Tail(u) /\ NoneTwice(u) /\ Step(s)
      /\ disk' = [disk EXCEPT ![h.rec] = h.val]
  BY <1>1 DEF Undo, AtomInv, AtomOK, Benign, Step, Internal
<1>3. /\ h \in Images /\ ImageIs(u, h.rec, h.val) /\ ~HasImage(undo'[s], h.rec)
      /\ \A p : HasImage(undo'[s], p) => HasImage(u, p)
      /\ \A p : p # h.rec => \A w : ImageIs(u, p, w) => ImageIs(undo'[s], p, w)
  BY <1>1, <1>2, PoppedImage
<1>4. h.rec \in Recs /\ HasImage(u, h.rec)
  BY <1>3 DEF Images, ImageIs, HasImage
<1>5. CASE r = h.rec
  <2>1. \A t \in Sessions : t # s => ~HasImage(undo[t], r)
    BY <1>4, <1>5, ApartImages DEF ImagesApart
  <2>2. ContentIs(r, h.val)
    BY <1>3, <1>5 DEF ContentIs
  <2>3. v = h.val
    BY <2>2, ReadContents, ApartImages DEF ContentsRead
  <2>4. \A t \in Sessions : t # s => undo'[t] = undo[t]
    BY <1>2, OthersKeep
  <2>5. disk'[r] = v /\ \A t \in Sessions : ~HasImage(undo'[t], r)
    BY <1>1, <1>2, <1>3, <1>4, <1>5, <2>1, <2>3, <2>4
  <2>6. QED
    BY <2>5 DEF ContentIs
<1>6. CASE r # h.rec
  <2>1. disk'[r] = disk[r]
    BY <1>1, <1>2, <1>4, <1>6
  <2>2. QED
    BY <1>2, <1>3, <1>6, <2>1, ContentKept
<1>7. QED
  BY <1>5, <1>6

PutsNow(s) == \E r \in Recs, v \in Contents : \E keep \in BOOLEAN : PutNow(s, r, v, keep)

LEMMA StoreKept ==
  ASSUME TypeOK, AtomInv, Benign, NEW s \in Sessions, Step(s), ~PutsNow(s), ~CommitDone(s),
         NEW r \in Recs, NEW v, ContentIs(r, v)
  PROVE  ContentIs(r, v)'
<1>1. CASE UNCHANGED <<disk, undo>>
  BY <1>1 DEF ContentIs
<1>2. CASE Apply(s)
  <2>1. Applying(s)
    BY <1>2 DEF Apply
  <2>2. cache[s][pos[s]].mode = "write"
    BY <2>1, NextWrite
  <2>3. QED
    BY <1>2, <2>1, <2>2, ImageTaken DEF Apply
<1>3. CASE ApplyFails(s)
  BY <1>3, ImageTaken DEF ApplyFails
<1>4. CASE Undo(s)
  BY <1>4, ImagePutBack
<1>5. CASE Statement(s)
  BY <1>1, <1>5 DEF Statement, PutsNow, LockRec, Release, PutLater, Close, Reopen, Begin, Commit,
     End, Execute, EndCommand
<1>6. CASE Internal(s)
  BY <1>1, <1>2, <1>3, <1>4, <1>6 DEF Internal, AbortUnlock, AbortRollback, AbortDone, RollbackAll,
     CommandDone
<1>7. CASE Event(s)
  <2>1. ~Reap(s)
    BY DEF Reap, AtomInv, AtomOK
  <2>2. QED
    BY <1>1, <1>7, <2>1 DEF Event, Abort, Crash, Fault
<1>8. QED
  BY <1>5, <1>6, <1>7 DEF Step
(* The end of a commit: what was pending is what is committed.              *)
LEMMA StoreApplied ==
  ASSUME TypeOK, AtomInv, Benign, NEW s \in Sessions, CommitDone(s), NEW r \in Recs, NEW v,
         v = (IF Pending(s, r) = Nothing THEN Committed(r) ELSE Pending(s, r))
  PROVE  ContentIs(r, v)'
<1> DEFINE c == cache[s]
<1>1. /\ Step(s) /\ at[s] = "commit" /\ ~Applying(s) /\ undo'[s] = <<>> /\ disk' = disk
  BY DEF CommitDone, Committing, Step, Internal, TypeOK
<1>2. /\ c \in Seq(Actions) /\ OneEach(c) /\ OnlyWrites(c) /\ AtomOK(s) /\ pos[s] \in Nat
  BY <1>1 DEF TypeOK, AtomInv, InnerInv, CommittedOnce, OwnInv, OwnOK, ImagesLocked, Benign
<1>3. \A i \in DOMAIN c : i < pos[s] /\ c[i] \in Actions
  BY <1>1, <1>2, LenProperties, ElementOfSeq DEF Applying, Committing
<1>4. ~HasImage(undo'[s], r)
  BY <1>1 DEF HasImage
<1>5. Pending(s, r) = CachedIn(c, r)
  BY <1>1 DEF Pending, InFlight, Committing
<1>6. CASE HasWrite(c, r)
  <2>1. PICK i \in DOMAIN c : IsWriteOf(c[i], r)
    BY <1>6 DEF HasWrite
  <2>2. CachedIn(c, r) = c[i].val
    BY <1>2, <2>1, WriteAtOnly
  <2>3. c[i].val \in Contents /\ c[i].rec = r
    BY <1>3, <2>1, ActionShape DEF IsWriteOf
  <2>4. v = c[i].val
    BY <1>5, <2>2, <2>3, TxnConstants
  <2>5. disk[r] = v /\ HasImage(undo[s], r)
    BY <1>1, <1>2, <1>3, <2>3, <2>4 DEF AtomOK, Committing, AppliedTo
  <2>6. \A t \in Sessions : t # s => ~HasImage(undo'[t], r)
    BY <1>1, <2>5, OthersKeep, ApartImages DEF ImagesApart
  <2>7. QED
    BY <1>1, <1>4, <2>5, <2>6 DEF ContentIs
<1>7. CASE ~HasWrite(c, r)
  <2>1. v = Committed(r)
    BY <1>5, <1>7 DEF CachedIn
  <2>2. ~HasImage(undo[s], r)
    <3>1. ~AppliedTo(c, pos[s], r)
      BY <1>2, <1>7 DEF AppliedTo, HasWrite, IsWriteOf, OnlyWrites
    <3>2. QED
      BY <1>1, <1>2, <3>1 DEF AtomOK, Committing
  <2>3. ContentIs(r, v) /\ ~ImageIs(undo[s], r, v)
    BY <2>1, <2>2, ContentExists DEF HasImage, ImageIs
  <2>4. QED
    BY <1>1, <1>4, <2>3, ContentKept
<1>8. QED
  BY <1>6, <1>7

(* A write outside a transaction meets no image of the record.              *)
LEMMA StorePut ==
  ASSUME TypeOK, AtomInv, Benign, NEW s \in Sessions, NEW q \in Recs, NEW w \in Contents,
         NEW keep \in BOOLEAN, PutNow(s, q, w, keep), NEW r \in Recs, NEW v,
         v = (IF r = q THEN w ELSE Committed(r))
  PROVE  ContentIs(r, v)'
<1>1. /\ Step(s) /\ at[s] = "ready" /\ undo' = undo /\ Owns(s, q)
      /\ disk \in [Recs -> Contents] /\ disk' = [disk EXCEPT ![q] = w]
  BY DEF PutNow, Step, Statement, TypeOK
<1>2. CASE r = q
  <2>1. undo[s] = <<>>
    BY <1>1 DEF AtomInv, OwnInv, OwnOK
  <2>2. ~HasImage(undo[s], r)
    BY <2>1 DEF HasImage
  <2>3. \A t \in Sessions : ~HasImage(undo[t], r)
    BY <1>1, <1>2, <2>2, ImagesOwned DEF Owns
  <2>4. QED
    BY <1>1, <1>2, <2>3 DEF ContentIs
<1>3. CASE r # q
  <2>1. disk'[r] = disk[r] /\ ContentIs(r, v)
    BY <1>1, <1>3, ContentExists
  <2>2. QED
    BY <1>1, <2>1, ContentKept
<1>4. QED
  BY <1>2, <1>3

(* What a step makes of the pending writes of its session.                  *)
LEMMA PendSteps ==
  ASSUME TypeOK, AtomInv, Benign, NEW s \in Sessions, Step(s),
         Begin(s) => txn[s] = 0 /\ cache[s] = <<>>, Commit(s) => txn[s] # 0,
         \A r \in Recs, v \in Contents : ~PutLater(s, r, v)
  PROVE  \/ \A r \in Recs : Pending(s, r)' = Pending(s, r)
         \/ \A r \in Recs : Pending(s, r)' = Nothing
<1> DEFINE Same == \A r \in Recs : Pending(s, r)' = Pending(s, r)
           None == \A r \in Recs : Pending(s, r)' = Nothing
<1>1. /\ cache \in [Sessions -> Seq(Actions)] /\ cache[s] \in Seq(Actions)
      /\ txn \in [Sessions -> Ids] /\ at \in [Sessions -> Places]
      /\ stack \in [Sessions -> Seq(Outers(Ids))]
  BY DEF TypeOK
<1>2. stack[s] = <<>> /\ at[s] # "dead"
  BY DEF AtomInv, AtomOK, OwnInv, OwnOK
<1>3. ASSUME cache'[s] = cache[s], InFlight(s)' <=> InFlight(s)
      PROVE  Same
  BY <1>3 DEF Pending
<1>4. ASSUME txn'[s] = 0, at'[s] # "commit"
      PROVE  None
  BY <1>4 DEF Pending, InFlight, Committing
<1>5. ASSUME EndLevel(s)
      PROVE  txn'[s] = 0
  BY <1>1, <1>2, <1>5 DEF EndLevel
<1>6. CASE Statement(s)
  <2>1. CASE Begin(s)
    <3>1. cache'[s] = <<>>
      BY <2>1 DEF Begin
    <3>2. \A r : CachedIn(cache'[s], r) = Nothing
      BY <3>1 DEF CachedIn, HasWrite
    <3>3. QED
      BY <3>2 DEF Pending
  <2>2. CASE Commit(s)
    BY <1>1, <1>3, <2>2 DEF Commit, Goto, InFlight, Committing
  <2>3. CASE End(s)
    <3>1. CASE txn[s] = 0
      BY <1>1, <1>4, <2>3, <3>1 DEF End, Goto, cached
    <3>2. CASE txn[s] # 0
      BY <1>4, <1>5, <2>3, <3>2 DEF End, Rollback, doing
    <3>3. QED
      BY <3>1, <3>2
  <2>4. CASE EndCommand(s)
    BY <1>1, <1>3, <2>4 DEF EndCommand, Goto, cached, InFlight, Committing
  <2>5. ~\E f \in Files : Close(s, f) \/ Reopen(s, f)
    <3>1. OnlyWrites(cache[s])
      BY <1>2 DEF AtomInv, OwnInv, OwnOK, ImagesLocked, Benign
    <3>2. QED
      BY <3>1 DEF Close, Reopen, Benign, OnlyWrites
  <2>6. CASE UNCHANGED <<cached, at>>
    BY <1>3, <2>6 DEF cached, InFlight, Committing
  <2>7. QED
    BY <1>6, <2>1, <2>2, <2>3, <2>4, <2>5, <2>6 DEF Statement, LockRec, Release, PutNow, Execute,
       doing
<1>7. CASE Internal(s)
  <2>1. CASE Apply(s)
    <3>1. /\ Applying(s) /\ cache'[s] = [cache[s] EXCEPT ![pos[s]].freed = TRUE]
          /\ txn' = txn /\ at' = at
      BY <1>1, <2>1 DEF Apply
    <3>2. pos[s] \in DOMAIN cache[s] /\ OneEach(cache[s])
      BY <3>1, NextWrite
    <3>3. \A r : CachedIn([cache[s] EXCEPT ![pos[s]].freed = TRUE], r) = CachedIn(cache[s], r)
      BY <1>1, <3>2, AppliedCache
    <3>3a. \A r : CachedIn(cache'[s], r) = CachedIn(cache[s], r)
      BY <3>1, <3>3
    <3>4. QED
      BY <3>1, <3>3a DEF Pending, InFlight, Committing
  <2>2. CASE ApplyFails(s)
    <3>1. txn[s] = 0
      BY <2>2 DEF ApplyFails, Applying, AtomInv, OwnInv, IdsKept
    <3>2. QED
      BY <1>1, <1>4, <2>2, <3>1 DEF ApplyFails, Goto, cached
  <2>3. CASE CommitDone(s)
    BY <1>1, <1>4, <1>5, <2>3 DEF CommitDone, Goto
  <2>4. CASE Undo(s) \/ AbortUnlock(s)
    BY <1>3, <2>4 DEF Undo, AbortUnlock, cached, doing, InFlight, Committing
  <2>5. CASE AbortRollback(s) \/ RollbackAll(s)
    BY <1>4, <1>5, <2>5 DEF AbortRollback, RollbackAll, Rollback, doing
  <2>6. CASE AbortDone(s) \/ CommandDone(s)
    BY <1>1, <1>3, <2>6 DEF AbortDone, CommandDone, Goto, cached, InFlight, Committing
  <2>7. QED
    BY <1>7, <2>1, <2>2, <2>3, <2>4, <2>5, <2>6 DEF Internal
<1>8. CASE Event(s)
  <2>1. CASE Abort(s)
    BY <1>1, <1>3, <2>1 DEF Abort, Goto, cached, InFlight, Committing
  <2>2. ~Crash(s) /\ ~Reap(s)
    BY <1>2 DEF Crash, Reap, Benign
  <2>3. AtomOK(s)'
    BY MyAtom
  <2>4. ~Fault(s)
    BY <1>1, <2>3 DEF Fault, Goto, AtomOK
  <2>5. QED
    BY <1>8, <2>1, <2>2, <2>4 DEF Event
<1>9. QED
  BY <1>6, <1>7, <1>8 DEF Step

LEMMA OthersPend ==
  ASSUME TypeOK, NEW s \in Sessions, Step(s), NEW t \in Sessions, t # s, NEW r
  PROVE  Pending(t, r)' = Pending(t, r)
BY OthersKeep DEF Pending, InFlight, Committing

(* A record s has locked is pending in no other session.                    *)
LEMMA AloneWithLock ==
  ASSUME TypeOK, AtomInv, Benign, NEW s \in Sessions, NEW r \in Recs, Owns(s, r),
         NEW t \in Sessions, t # s
  PROVE  Pending(t, r) = Nothing
<1>1. CASE InFlight(t) /\ HasWrite(cache[t], r)
  <2>1. Owns(t, r)
    BY <1>1, PendingOwned
  <2>2. QED
    BY <2>1 DEF Owns
<1>2. CASE ~(InFlight(t) /\ HasWrite(cache[t], r))
  BY <1>2 DEF Pending, CachedIn
<1>3. QED
  BY <1>1, <1>2

LEMMA PutPends ==
  ASSUME TypeOK, AtomInv, Benign, NEW s \in Sessions, NEW q \in Recs, NEW v \in Contents,
         PutLater(s, q, v), NEW r \in Recs
  PROVE  Pending(s, r)' = IF r = q THEN v ELSE Pending(s, r)
<1>1. /\ cache[s] \in Seq(Actions) /\ OneEach(cache[s])
  BY DEF TypeOK, AtomInv, InnerInv, CommittedOnce
<1>2. cache'[s] = Deferred(cache[s], q, v) /\ InFlight(s) /\ InFlight(s)'
  BY DEF PutLater, Defer, TypeOK, InFlight, Committing, doing
<1>3. CachedIn(cache'[s], r) = IF r = q THEN v ELSE CachedIn(cache[s], r)
  BY <1>1, <1>2, DeferredCache
<1>4. QED
  BY <1>2, <1>3 DEF Pending
(* What is committed after a step is what the images and the files then say. *)
LEMMA ReadAfter ==
  ASSUME TypeOK', AtomInv', Benign
  PROVE  \A r \in Recs : \A v : ContentIs(r, v)' => Committed(r)' = v
<1>1. ContentsRead'
  BY ReadContents, PTL
<1>2. ASSUME NEW s \in Sessions
      PROVE  at'[s] # "dead" /\ NoneTwice(undo'[s])
  BY <1>2 DEF AtomInv, AtomOK
<1>3. ASSUME NEW s \in Sessions, NEW t \in Sessions, NEW r \in Recs,
             HasImage(undo'[s], r), HasImage(undo'[t], r)
      PROVE  s = t
  <2>1. Owns(s, r)' /\ Owns(t, r)'
    BY <1>3 DEF AtomInv, AtomOK, OwnInv, OwnOK, ImagesLocked, Benign, HasImage
  <2>2. QED
    BY <2>1 DEF Owns
<1>4. ImagesApart'
  BY <1>2, <1>3 DEF ImagesApart
<1>5. QED
  BY <1>1, <1>4 DEF ContentsRead

LEMMA StepIsService ==
  ASSUME TypeOK, AtomInv, Benign, TypeOK', AtomInv', NEW s \in Sessions, Step(s),
         Begin(s) => txn[s] = 0 /\ cache[s] = <<>>, Commit(s) => txn[s] # 0
  PROVE  Service!TSNext \/ (Store' = Store /\ Pend' = Pend)
<1> DEFINE Kept == \A r \in Recs : Committed(r)' = Committed(r)
<1>1. ASSUME ~PutsNow(s), ~CommitDone(s)
      PROVE  Store' = Store
  <2>1. ASSUME NEW r \in Recs
        PROVE  Committed(r)' = Committed(r)
    <3>1. ContentIs(r, Committed(r))
      BY ContentExists
    <3>2. \A v : ContentIs(r, v) => ContentIs(r, v)'
      BY <1>1, StoreKept
    <3>3. \A v : ContentIs(r, v)' => Committed(r)' = v
      BY ReadAfter
    <3>4. QED
      BY <3>1, <3>2, <3>3
  <2>2. QED
    BY <2>1 DEF Store
<1>2. \A t \in Sessions : t # s => \A r : Pending(t, r)' = Pending(t, r)
  BY OthersPend
<1>3. ASSUME NEW q \in Recs, Owns(s, q)
      PROVE  Service!Alone(s, q)
  BY <1>3, AloneWithLock DEF Service!Alone
<1>4. ASSUME NEW q \in Recs, NEW v \in Contents, PutLater(s, q, v)
      PROVE  Service!TSNext
  <2>1. Owns(s, q) /\ ~PutsNow(s) /\ ~CommitDone(s)
    BY <1>4 DEF PutLater, PutsNow, PutNow, CommitDone, Committing
  <2>2. \A r \in Recs : Pending(s, r)' = IF r = q THEN v ELSE Pending(s, r)
    BY <1>4, PutPends
  <2>3. Pend' = [Pend EXCEPT ![s][q] = v]
    BY <1>2, <2>2 DEF Pend
  <2>4. Service!Put(s, q, v)
    BY <1>1, <1>3, <2>1, <2>3 DEF Service!Put, Store, Pend
  <2>5. QED
    BY <2>4 DEF Service!TSNext, Service!Contents, Contents
<1>5. ASSUME NEW q \in Recs, NEW v \in Contents, NEW keep \in BOOLEAN, PutNow(s, q, v, keep)
      PROVE  Service!TSNext
  <2>1. /\ Owns(s, q) /\ txn[s] = 0 /\ at[s] = "ready"
        /\ UNCHANGED <<cached, doing>>
    BY <1>5 DEF PutNow
  <2>2. \A r \in Recs : Pending(s, r) = Nothing /\ Pending(s, r)' = Nothing
    BY <2>1 DEF Pending, InFlight, Committing, cached, doing
  <2>3. \A r \in Recs : Committed(r)' = IF r = q THEN v ELSE Committed(r)
    <3> TAKE r \in Recs
    <3>0. PICK w : w = (IF r = q THEN v ELSE Committed(r))
      OBVIOUS
    <3>1. ContentIs(r, w)'
      BY <1>5, <3>0, StorePut
    <3>2. \A u : ContentIs(r, u)' => Committed(r)' = u
      BY ReadAfter
    <3>3. QED
      BY <3>0, <3>1, <3>2
  <2>4. Store' = [Store EXCEPT ![q] = v]
    BY <2>3 DEF Store
  <2>5. Pend' = Pend /\ Pend[s] = [r \in Recs |-> Nothing]
    BY <1>2, <2>2 DEF Pend
  <2>6. Service!PutNow(s, q, v)
    BY <1>3, <2>1, <2>4, <2>5 DEF Service!PutNow, Service!NonePending, Store, Pend
  <2>7. QED
    BY <2>6 DEF Service!TSNext, Service!Contents, Contents
<1>6. ASSUME CommitDone(s)
      PROVE  Service!TSNext
  <2>1. \A r \in Recs :
          Committed(r)' = IF Pending(s, r) = Nothing THEN Committed(r) ELSE Pending(s, r)
    <3> TAKE r \in Recs
    <3>0. PICK w : w = (IF Pending(s, r) = Nothing THEN Committed(r) ELSE Pending(s, r))
      OBVIOUS
    <3>1. ContentIs(r, w)'
      BY <1>6, <3>0, StoreApplied
    <3>2. \A u : ContentIs(r, u)' => Committed(r)' = u
      BY ReadAfter
    <3>3. QED
      BY <3>0, <3>1, <3>2
  <2>2. stack[s] = <<>> /\ s \in DOMAIN txn /\ s \in DOMAIN at
    BY DEF AtomInv, OwnInv, OwnOK, TypeOK
  <2>3. txn'[s] = 0 /\ at'[s] = "ready"
    BY <1>6, <2>2 DEF CommitDone, EndLevel, Goto, TypeOK
  <2>4. \A r \in Recs : Pending(s, r)' = Nothing
    BY <2>3 DEF Pending, InFlight, Committing
  <2>5. Pend' = [Pend EXCEPT ![s] = [r \in Recs |-> Nothing]]
    BY <1>2, <2>4 DEF Pend
  <2>6. Store' = [r \in Recs |-> IF Pend[s][r] = Nothing THEN Store[r] ELSE Pend[s][r]]
    BY <2>1 DEF Pend, Store
  <2>7. Service!Commit(s)
    BY <2>5, <2>6 DEF Service!Commit, Service!NonePending, Store, Pend
  <2>8. QED
    BY <2>7 DEF Service!TSNext
<1>7. ASSUME ~PutsNow(s), ~CommitDone(s), \A r \in Recs, v \in Contents : ~PutLater(s, r, v)
      PROVE  Service!TSNext \/ (Store' = Store /\ Pend' = Pend)
  <2>1. Store' = Store
    BY <1>1, <1>7
  <2>2. CASE \A r \in Recs : Pending(s, r)' = Pending(s, r)
    BY <1>2, <2>1, <2>2 DEF Pend
  <2>3. CASE \A r \in Recs : Pending(s, r)' = Nothing
    <3>1. Pend' = [Pend EXCEPT ![s] = [r \in Recs |-> Nothing]]
      BY <1>2, <2>3 DEF Pend
    <3>2. Service!Discard(s)
      BY <2>1, <3>1 DEF Service!Discard, Service!NonePending, Store, Pend
    <3>3. QED
      BY <3>2 DEF Service!TSNext
  <2>4. QED
    BY <1>7, <2>2, <2>3, PendSteps
<1>8. QED
  BY <1>4, <1>5, <1>6, <1>7 DEF PutsNow

LEMMA NoStepNoService ==
  ASSUME UNCHANGED vars
  PROVE  Store' = Store /\ Pend' = Pend
BY DEF vars, cached, doing, Store, Pend, Committed, Imaged, Pending, InFlight, Committing

LEMMA AtomInit == Init => AtomInv
<1> HAVE Init
<1>1. ASSUME NEW s \in Sessions
      PROVE  AtomOK(s) /\ CommittedOnce(cache[s], stack[s])
  <2>1. at[s] = "ready" /\ undo[s] = <<>> /\ cache[s] = <<>> /\ stack[s] = <<>>
    BY DEF Init
  <2>2. QED
    BY <2>1, OnceEmpty DEF AtomOK, NoneTwice, Committing
<1>2. QED
  BY <1>1, OwnInit DEF AtomInv, InnerInv

LEMMA InitIsService == Init => Service!TSInit
<1> HAVE Init
<1>1. \A r \in Recs : Imaged(r) = {}
  BY DEF Init, Imaged
<1>2. \A r \in Recs : Committed(r) = NoRec
  BY <1>1 DEF Init, Committed
<1>3. \A s \in Sessions : \A r \in Recs : Pending(s, r) = Nothing
  BY DEF Init, Pending, InFlight, Committing
<1>4. QED
  BY <1>2, <1>3 DEF Service!TSInit, Service!NonePending

(* CommitsAtomically: where no close is deferred, no session is killed and  *)
(* every before image can be put back, a commit is one step as far as the   *)
(* committed contents go.  Wherever the write of one of its actions fails,  *)
(* and whatever the other sessions do between two of them, either all of    *)
(* the writes of the transaction take effect or none does.                  *)
THEOREM TransactionsCommitAtomically ==
  Closers = {} /\ Mortals = {} /\ Unrestorable = {}
    => (Spec /\ [][Disciplined]_vars => CommitsAtomically)
<1> SUFFICES ASSUME Benign
             PROVE  Spec /\ [][Disciplined]_vars => CommitsAtomically
  BY DEF Benign
<1>1. TypeOK /\ AtomInv /\ [Next]_vars /\ [Disciplined]_vars => AtomInv'
  BY AtomStep
<1>2. TypeOK /\ AtomInv /\ TypeOK' /\ AtomInv' /\ [Next]_vars /\ [Disciplined]_vars
        => [Service!TSNext]_(Service!tsvars)
  <2> SUFFICES ASSUME TypeOK, AtomInv, TypeOK', AtomInv', [Next]_vars, [Disciplined]_vars
               PROVE  Service!TSNext \/ (Store' = Store /\ Pend' = Pend)
    BY DEF Service!tsvars, Store, Pend
  <2>1. CASE UNCHANGED vars
    BY <2>1, NoStepNoService
  <2>2. ASSUME NEW s \in Sessions, Step(s), ~UNCHANGED vars
        PROVE  Service!TSNext \/ (Store' = Store /\ Pend' = Pend)
    BY <2>2, StepIsService DEF Disciplined
  <2>3. QED
    BY <2>1, <2>2, StepsOrNone
<1>3. QED
  BY <1>1, <1>2, AtomInit, InitIsService, TransactionsTyped, PTL
     DEF Spec, CommitsAtomically, Service!TSSpec
=============================================================================
