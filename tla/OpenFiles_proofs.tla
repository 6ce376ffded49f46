-------------------------- MODULE OpenFiles_proofs --------------------------
(* The file table for any sessions, files, size of the table and of the     *)
(* caches, any number of updates and attempts: what one inductive invariant *)
(* gives.                                                                   *)
EXTENDS OpenFiles, FiniteSetTheorems, SequenceTheorems, WellFoundedInduction, TLAPS

Distinct(q) == \A j, k \in DOMAIN q : q[j] = q[k] => j = k

One(b) == IF b THEN 1 ELSE 0

(* The files an operation has still to close, and the one it goes on with. *)
Pending(o) == IF o.kind = "close" THEN {o.file} \cup Range(o.rest) ELSE {}

GoesOn(o, f) == \/ o.kind = "close" /\ o.next = f
                \/ o.kind = "exclusive" /\ o.file = f

OpOK(o) ==
  /\ o.kind = "idle" => o = Idle
  /\ o.kind # "idle" => o.file \in Files
  /\ o.kind \in {"open", "flush", "index", "trigger"} => Len(o.hdr) = 1
  /\ o.kind = "exclusive" => o.hdr = <<>>
  /\ o.kind = "close" => /\ Distinct(o.rest)
                         /\ o.file \notin Range(o.rest)
                         /\ o.hdr # <<>> => Len(o.hdr) = 1

(* A session in itself: d its DH_FILEs, q its cache, o its operation.  The  *)
(* references a DH_FILE counts cover that of the cache, the one about to be *)
(* released and the one an attempt at exclusive access goes on with.        *)
SessionOK(d, q, o) ==
  /\ Distinct(q)
  /\ OpOK(o)
  /\ \A f \in Files :
       /\ d[f].open_count >= One(f \in Range(q)) + One(f \in Pending(o)) + One(GoesOn(o, f))
       /\ d[f] # NoDh => d[f].open_count >= 1
  /\ o.kind \in {"flush", "index", "trigger"} => d[o.file] # NoDh
  /\ o.kind = "open" => d[o.file] = NoDh
  /\ o.kind = "close" /\ o.hdr = <<>> => ~d[o.file].updated

SessionsOK ==
  \A s \in Sessions :
    /\ SessionOK(dh[s], cache[s], op[s])
    /\ life[s] # "live" => /\ op[s] = Idle /\ cache[s] = <<>>
                           /\ dh[s] = [f \in Files |-> NoDh]

(* The session has the file of entry i open, or dh_open has freed its       *)
(* DH_FILE under exclusive access.                                          *)
HasOrLost(s, i) == (\E f \in Files : EntryOf(s, f) = i) \/ table[i].ref_ct < 0

(* The file table against the file maps and the DH_FILEs.                   *)
TableOK ==
  /\ RefCountExact
  /\ \A i, j \in Entries : InUse(i) /\ InUse(j) /\ table[i].file = table[j].file => i = j
  /\ \A i \in Entries : InUse(i) => table[i].file \in Files
  /\ \A s \in Sessions, f \in Files : IsOpen(s, f) =>
       s \in ufm[EntryOf(s, f)] /\ table[EntryOf(s, f)].file = f
  /\ \A s \in Sessions, i \in Entries : s \in ufm[i] =>
       life[s] = "dead" \/ HasOrLost(s, i)

(* A file under exclusive access has one reference, which is a file         *)
(* variable's that is not about to be closed.                               *)
ReservedOK ==
  \A s \in Sessions, f \in Files :
    IsOpen(s, f) /\ table[EntryOf(s, f)].ref_ct < 0 =>
      dh[s][f].open_count = 1 /\ f \notin Range(cache[s]) /\ f \notin Pending(op[s])

(* A header a session holds in memory, its operation being o, has the       *)
(* trigger of the one on disk, or the one it is about to set, and then it   *)
(* has exclusive access.                                                    *)
HoldsHeader(s, o) ==
  /\ o.kind \in {"close", "flush", "index"} /\ o.hdr # <<>> =>
       o.hdr[1].trigger = disk[o.file].trigger
  /\ o.kind = "trigger" => /\ o.hdr[1].trigger = disk[o.file].trigger + 1
                           /\ table[EntryOf(s, o.file)].ref_ct < 0

HeadersOK == TriggerKept /\ \A s \in Sessions : HoldsHeader(s, op[s])

(* Parameters that differ from those on disk are marked FILE_UPDATED by     *)
(* some session.                                                            *)
ParamsOK ==
  \A f \in Files \ stale :
    /\ \A i \in Matching(f) : table[i].params = real[f].params
    /\ disk[f].params # real[f].params => \E s \in Sessions : dh[s][f].updated

FileInv == SessionsOK /\ TableOK /\ ReservedOK /\ HeadersOK /\ ParamsOK

-----------------------------------------------------------------------------
(* Sequences without repetition: the cache and the files still to be closed.*)

(* The rest of a list does not hold its head again.                         *)
LEMMA TailOfDistinct ==
  ASSUME NEW S, NEW q \in Seq(S), q # <<>>, Distinct(q)
  PROVE  /\ Head(q) \in S /\ Tail(q) \in Seq(S)
         /\ Range(q) = {Head(q)} \cup Range(Tail(q))
         /\ Head(q) \notin Range(Tail(q))
         /\ Distinct(Tail(q))
<1>1. /\ Head(q) = q[1] /\ Head(q) \in S /\ Tail(q) \in Seq(S)
      /\ Len(Tail(q)) = Len(q) - 1 /\ Len(q) \in Nat /\ Len(q) >= 1
      /\ \A i \in 1 .. Len(Tail(q)) : Tail(q)[i] = q[i + 1]
      /\ DOMAIN q = 1 .. Len(q) /\ DOMAIN Tail(q) = 1 .. Len(Tail(q))
  BY HeadTailProperties, LenProperties, EmptySeq
<1> DEFINE t == Tail(q)
<1>2. \A i \in DOMAIN t : i + 1 \in DOMAIN q /\ t[i] = q[i + 1] /\ i \in Nat /\ i >= 1
  BY <1>1
<1>3. \A j \in DOMAIN q : j # 1 => j - 1 \in DOMAIN t /\ t[j - 1] = q[j]
  BY <1>1
<1>4. Distinct(t)
  BY <1>2 DEF Distinct
<1>5. q[1] \notin Range(t)
  <2> SUFFICES ASSUME NEW i \in DOMAIN t, t[i] = q[1] PROVE FALSE
    BY DEF Range
  <2> QED
    BY <1>1, <1>2 DEF Distinct
<1>6. Range(q) = {q[1]} \cup Range(t)
  <2>1. ASSUME NEW x \in Range(q) PROVE x = q[1] \/ x \in Range(t)
    <3>1. PICK j \in DOMAIN q : x = q[j]
      BY DEF Range
    <3> QED
      BY <1>3, <3>1 DEF Range
  <2>2. Range(t) \subseteq Range(q)
    BY <1>2 DEF Range
  <2>3. q[1] \in Range(q)
    BY <1>1 DEF Range
  <2> QED
    BY <2>1, <2>2, <2>3
<1> QED
  BY <1>1, <1>4, <1>5, <1>6

(* Nothing is in the empty list.                                            *)
LEMMA EmptyDistinct == Distinct(<<>>) /\ Range(<<>>) = {} /\ \A S : <<>> \in Seq(S)
  BY DEF Distinct, Range

(* A file that is not cached goes to the end of the cache.                  *)
LEMMA AppendDistinct ==
  ASSUME NEW S, NEW q \in Seq(S), NEW f \in S, Distinct(q), f \notin Range(q)
  PROVE  /\ Append(q, f) \in Seq(S)
         /\ Range(Append(q, f)) = Range(q) \cup {f}
         /\ Distinct(Append(q, f))
<1> DEFINE a == Append(q, f)
           n == Len(q)
<1>1. /\ a \in Seq(S) /\ Len(a) = n + 1 /\ a[n + 1] = f
      /\ \A i \in 1 .. n : a[i] = q[i]
      /\ n \in Nat /\ DOMAIN q = 1 .. n /\ DOMAIN a = 1 .. n + 1
  BY AppendProperties, LenProperties
<1> HIDE DEF a, n
<1>2. \A i \in DOMAIN a : i = n + 1 \/ (i \in DOMAIN q /\ a[i] = q[i])
  BY <1>1
<1>3. \A i \in DOMAIN q : i \in DOMAIN a /\ i # n + 1 /\ a[i] = q[i] /\ q[i] # f
  BY <1>1 DEF Range
<1>4. Range(a) = Range(q) \cup {f}
  <2>1. n + 1 \in DOMAIN a
    BY <1>1
  <2> QED
    BY <1>1, <1>2, <1>3, <2>1 DEF Range
<1>5. Distinct(a)
  BY <1>1, <1>2, <1>3 DEF Distinct
<1> QED
  BY <1>1, <1>4, <1>5 DEF a

(* Or it takes the place of another.                                        *)
LEMMA ReplaceDistinct ==
  ASSUME NEW S, NEW q \in Seq(S), NEW k \in DOMAIN q, NEW f \in S,
         Distinct(q), f \notin Range(q)
  PROVE  /\ [q EXCEPT ![k] = f] \in Seq(S)
         /\ Range([q EXCEPT ![k] = f]) = (Range(q) \ {q[k]}) \cup {f}
         /\ Distinct([q EXCEPT ![k] = f])
<1> DEFINE a == [q EXCEPT ![k] = f]
<1>1. a \in Seq(S) /\ DOMAIN a = DOMAIN q
      /\ \A j \in DOMAIN q : a[j] = IF j = k THEN f ELSE q[j]
  BY ExceptSeq, LenProperties
<1> HIDE DEF a
<1>2. Range(a) = (Range(q) \ {q[k]}) \cup {f}
  BY <1>1 DEF Range, Distinct
<1>3. Distinct(a)
  BY <1>1 DEF Distinct, Range
<1> QED
  BY <1>1, <1>2, <1>3 DEF a

(* A cached file that is opened again comes to the front.                   *)
LEMMA ToFrontDistinct ==
  ASSUME NEW S, NEW q \in Seq(S), NEW f \in Range(q), Distinct(q)
  PROVE  /\ ToFront(q, f) \in Seq(S)
         /\ Range(ToFront(q, f)) = Range(q)
         /\ Distinct(ToFront(q, f))
<1> DEFINE k == CHOOSE k \in DOMAIN q : q[k] = f
           a == [j \in DOMAIN q |-> IF j = 1 THEN f ELSE IF j <= k THEN q[j - 1] ELSE q[j]]
<1>1. k \in DOMAIN q /\ q[k] = f
  BY DEF Range
<1>2. DOMAIN q = 1 .. Len(q) /\ Len(q) \in Nat /\ \A j \in DOMAIN q : q[j] \in S
  BY LenProperties, ElementOfSeq
<1>3. ToFront(q, f) = a
  BY DEF ToFront
<1> HIDE DEF k
<1>4. /\ DOMAIN a = DOMAIN q
      /\ \A j \in DOMAIN q :
           a[j] = q[IF j = 1 THEN k ELSE IF j <= k THEN j - 1 ELSE j]
  BY <1>1
<1> HIDE DEF a
<1> DEFINE old(j) == IF j = 1 THEN k ELSE IF j <= k THEN j - 1 ELSE j
           new(j) == IF j = k THEN 1 ELSE IF j < k THEN j + 1 ELSE j
<1>5. \A j \in DOMAIN q : old(j) \in DOMAIN q /\ new(j) \in DOMAIN q /\ old(new(j)) = j
                          /\ new(old(j)) = j /\ a[j] = q[old(j)]
  BY <1>1, <1>2, <1>4
<1> HIDE DEF old, new
<1>6. Range(a) = Range(q)
  BY <1>4, <1>5 DEF Range
<1>7. Distinct(a)
  BY <1>4, <1>5 DEF Distinct
<1>8. a \in Seq(S)
  <2>1. a = [j \in 1 .. Len(q) |-> a[j]] /\ \A j \in 1 .. Len(q) : a[j] \in S
    BY <1>2, <1>4, <1>5 DEF a
  <2> QED
    BY <1>2, <2>1, IsASeq
<1> QED
  BY <1>3, <1>6, <1>7, <1>8

-----------------------------------------------------------------------------
(* Operations and headers.                                                  *)

(* A file that is open has an entry of the table.                           *)
LEMMA OpenHasEntry ==
  ASSUME TypeOK, NEW s \in Sessions, NEW f \in Files
  PROVE  /\ IsOpen(s, f) <=> EntryOf(s, f) \in Entries
         /\ IsOpen(s, f) => dh[s][f] \in DhFile
         /\ dh[s][f].open_count \in Nat /\ dh[s][f].updated \in BOOLEAN
         /\ ~IsOpen(s, f) => dh[s][f] = NoDh /\ dh[s][f].open_count = 0
<1>1. dh[s][f] \in DhFile \cup {NoDh}
  BY DEF TypeOK
<1>2. CASE dh[s][f] = NoDh
  <2>1. 0 \notin Entries
    BY DEF Entries
  <2>2. NoDh.file_id = 0 /\ NoDh.open_count = 0
    BY DEF NoDh
  <2>3. NoDh.updated \in BOOLEAN
    BY DEF NoDh
  <2>4. dh[s][f].updated \in BOOLEAN
    BY <1>2, <2>3
  <2> QED
    BY <1>2, <2>1, <2>2, <2>4 DEF IsOpen, EntryOf
<1>3. CASE dh[s][f] # NoDh
  <2>1. dh[s][f] \in DhFile
    BY <1>1, <1>3
  <2> QED
    BY <1>3, <2>1 DEF IsOpen, EntryOf, DhFile
<1> QED
  BY <1>2, <1>3

(* What dh_flush_header is about to write keeps the trigger on disk.        *)
LEMMA FlushedHeader ==
  ASSUME TypeOK, NEW s \in Sessions, NEW f \in Files, IsOpen(s, f)
  PROVE  /\ Flushed(s, f) \in Header
         /\ Flushed(s, f).trigger = disk[f].trigger
         /\ Flushed(s, f).params = table[EntryOf(s, f)].params
<1>1. disk[f] \in Header /\ table[EntryOf(s, f)] \in Entry
  BY OpenHasEntry DEF TypeOK
<1> QED
  BY <1>1 DEF Flushed, Header, Entry

(* A header is a list of one.                                               *)
LEMMA OneHeader ==
  ASSUME NEW h \in Header
  PROVE  <<h>> \in Seq(Header) /\ Len(<<h>>) = 1 /\ <<h>>[1] = h /\ <<h>> # <<>>
  OBVIOUS

(* The idle operation is one, and has nothing to close.                     *)
LEMMA IdleOK ==
  /\ Idle \in Op /\ OpOK(Idle) /\ Pending(Idle) = {} /\ Idle.kind = "idle"
  /\ \A f : ~GoesOn(Idle, f)
<1>1. <<>> \in Seq(Header) /\ <<>> \in Seq(Files)
  BY EmptyDistinct
<1>2. Idle \in Op
  BY <1>1 DEF Idle, Op
<1> QED
  BY <1>2 DEF Idle, OpOK, Pending, GoesOn

(* An operation that works with a header it has read.                       *)
HeaderOp(k, f, h, voc) ==
  [Idle EXCEPT !.kind = k, !.file = f, !.voc = voc, !.hdr = <<h>>]

(* It is well formed and has no file to close.                              *)
LEMMA HeaderOpOK ==
  ASSUME NEW k \in {"open", "flush", "index", "trigger"}, NEW f \in Files,
         NEW h \in Header, NEW voc \in BOOLEAN, NEW o, o = HeaderOp(k, f, h, voc)
  PROVE  /\ o \in Op /\ OpOK(o) /\ Pending(o) = {}
         /\ o.kind = k /\ o.file = f /\ o.hdr[1] = h
         /\ \A g : ~GoesOn(o, g)
<1>1. <<h>> \in Seq(Header) /\ Len(<<h>>) = 1 /\ <<h>>[1] = h /\ <<>> \in Seq(Files)
  BY OneHeader, EmptyDistinct
<1>2. o = [kind |-> k, file |-> f, hdr |-> <<h>>, voc |-> voc, rest |-> <<>>,
           next |-> NoFile, tries |-> 0]
  BY DEF Idle, HeaderOp
<1>3. o \in Op
  <2> DEFINE hh == <<h>>
             none == <<>>
  <2>1. hh \in Seq(Header) /\ none \in Seq(Files)
    BY <1>1
  <2>2. o = [kind |-> k, file |-> f, hdr |-> hh, voc |-> voc, rest |-> none,
             next |-> NoFile, tries |-> 0]
    BY <1>2
  <2> HIDE DEF hh, none
  <2> QED
    BY <1>1, <2>1, <2>2 DEF Op
<1>4. o.kind = k /\ o.file = f /\ o.hdr = <<h>>
  BY <1>2
<1> QED
  BY <1>1, <1>3, <1>4 DEF OpOK, Pending, GoesOn

(* What Closing makes of a list of different files, all open: it has just   *)
(* these to close, and goes on with the file it was given, if any.          *)
Closes(o, s, d, fs, next) ==
  /\ o \in Op /\ OpOK(o) /\ Pending(o) = Range(fs)
  /\ o.kind \in {"idle", "exclusive", "close"}
  /\ \A f \in Files : GoesOn(o, f) <=> f = next
  /\ o.kind = "close" => /\ o.file \in Range(fs)
                         /\ o.hdr = <<>> <=> ~d[o.file].updated
                         /\ o.hdr # <<>> => o.hdr[1] = Flushed(s, o.file)

(* The list becomes one operation after the other.                          *)
LEMMA ClosingOK ==
  ASSUME TypeOK, NEW s \in Sessions, NEW d, NEW fs \in Seq(Files),
         NEW next \in Files \cup {NoFile}, NEW tries \in Nat, Distinct(fs),
         \A f \in Range(fs) : IsOpen(s, f) /\ d[f].updated \in BOOLEAN
  PROVE  Closes(Closing(d, s, fs, next, tries), s, d, fs, next)
<1> DEFINE o == Closing(d, s, fs, next, tries)
<1> USE DEF Closes
<1>1. CASE fs = <<>> /\ next = NoFile
  <2>1. o = Idle /\ Range(fs) = {}
    BY <1>1, EmptyDistinct DEF Closing
  <2> QED
    BY <1>1, <2>1, IdleOK, OpenFilesConstants
<1>2. CASE fs = <<>> /\ next # NoFile
  <2>1. o = [Idle EXCEPT !.kind = "exclusive", !.file = next, !.tries = tries]
        /\ Range(fs) = {}
    BY <1>2, EmptyDistinct DEF Closing
  <2>2. o = [kind |-> "exclusive", file |-> next, hdr |-> <<>>, voc |-> FALSE,
             rest |-> <<>>, next |-> NoFile, tries |-> tries]
    BY <2>1 DEF Idle
  <2>3. o \in Op
    <3> DEFINE hh == <<>>
               none == <<>>
    <3>1. hh \in Seq(Header) /\ none \in Seq(Files)
      BY EmptyDistinct
    <3>2. o = [kind |-> "exclusive", file |-> next, hdr |-> hh, voc |-> FALSE,
               rest |-> none, next |-> NoFile, tries |-> tries]
      BY <2>2
    <3> HIDE DEF hh, none
    <3> QED
      BY <3>1, <3>2 DEF Op
  <2>4. o.kind = "exclusive" /\ o.file = next /\ o.hdr = <<>>
    BY <2>2
  <2> QED
    BY <1>2, <2>1, <2>3, <2>4 DEF OpOK, Pending, GoesOn
<1>3. CASE fs # <<>>
  <2> DEFINE h == IF d[Head(fs)].updated THEN <<Flushed(s, Head(fs))>> ELSE <<>>
  <2>1. /\ Head(fs) \in Files /\ Tail(fs) \in Seq(Files)
        /\ Range(fs) = {Head(fs)} \cup Range(Tail(fs))
        /\ Head(fs) \notin Range(Tail(fs)) /\ Distinct(Tail(fs))
    BY <1>3, TailOfDistinct
  <2>2. Flushed(s, Head(fs)) \in Header /\ d[Head(fs)].updated \in BOOLEAN
    BY <2>1, FlushedHeader
  <2>3. /\ h \in Seq(Header) /\ (h # <<>> => Len(h) = 1)
        /\ h = <<>> <=> ~d[Head(fs)].updated
        /\ h # <<>> => h[1] = Flushed(s, Head(fs))
    BY <2>2, OneHeader, EmptyDistinct
  <2> HIDE DEF h
  <2>4. o = [kind |-> "close", file |-> Head(fs), hdr |-> h, voc |-> FALSE,
             rest |-> Tail(fs), next |-> next, tries |-> tries]
    BY <1>3 DEF Closing, Idle, h
  <2>5. o \in Op
    BY <2>1, <2>3, <2>4 DEF Op
  <2>6. o.kind = "close" /\ o.file = Head(fs) /\ o.hdr = h /\ o.rest = Tail(fs)
        /\ o.next = next
    BY <2>4
  <2> QED
    BY <2>1, <2>3, <2>5, <2>6 DEF OpOK, Pending, GoesOn
<1> QED
  BY <1>1, <1>2, <1>3

-----------------------------------------------------------------------------
(* What a step of a session does to its own state.                          *)

(* s goes on with the DH_FILEs d, the cache q and the operation o.          *)
Move(s, d, q, o) ==
  /\ life[s] = "live" /\ UNCHANGED life
  /\ d \in [Files -> DhFile \cup {NoDh}] /\ q \in Seq(Files) /\ o \in Op
  /\ dh' = [dh EXCEPT ![s] = d]
  /\ cache' = [cache EXCEPT ![s] = q]
  /\ op' = [op EXCEPT ![s] = o]
  /\ SessionOK(d, q, o)

(* The state of one session, typed and in itself.                           *)
LEMMA OwnState ==
  ASSUME TypeOK, SessionsOK, NEW s \in Sessions
  PROVE  /\ dh[s] \in [Files -> DhFile \cup {NoDh}] /\ cache[s] \in Seq(Files)
         /\ op[s] \in Op /\ SessionOK(dh[s], cache[s], op[s])
         /\ op[s].hdr \in Seq(Header) /\ op[s].rest \in Seq(Files)
         /\ op[s].next \in Files \cup {NoFile} /\ op[s].tries \in Nat
         /\ op[s].voc \in BOOLEAN
<1>1. op[s] \in Op
  BY DEF TypeOK
<1>2. op[s].hdr \in Seq(Header) /\ op[s].rest \in Seq(Files)
      /\ op[s].next \in Files \cup {NoFile} /\ op[s].tries \in Nat /\ op[s].voc \in BOOLEAN
  BY <1>1 DEF Op
<1> QED
  BY <1>1, <1>2 DEF TypeOK, SessionsOK

(* The other sessions are as they were.                                     *)
LEMMA MoveSessions ==
  ASSUME TypeOK, SessionsOK, NEW s \in Sessions, NEW d, NEW q, NEW o, Move(s, d, q, o)
  PROVE  /\ SessionsOK'
         /\ dh' \in [Sessions -> [Files -> DhFile \cup {NoDh}]]
         /\ cache' \in [Sessions -> Seq(Files)] /\ op' \in [Sessions -> Op]
         /\ life' \in [Sessions -> {"live", "dead", "gone"}]
         /\ dh'[s] = d /\ cache'[s] = q /\ op'[s] = o
         /\ \A t \in Sessions : t # s => dh'[t] = dh[t] /\ cache'[t] = cache[t]
                                         /\ op'[t] = op[t]
<1>1. /\ dh' \in [Sessions -> [Files -> DhFile \cup {NoDh}]]
      /\ cache' \in [Sessions -> Seq(Files)] /\ op' \in [Sessions -> Op]
      /\ life' \in [Sessions -> {"live", "dead", "gone"}]
  BY DEF Move, TypeOK
<1>2. dh'[s] = d /\ cache'[s] = q /\ op'[s] = o
  BY DEF Move, TypeOK
<1>3. \A t \in Sessions : t # s => dh'[t] = dh[t] /\ cache'[t] = cache[t] /\ op'[t] = op[t]
  BY DEF Move, TypeOK
<1>4. ASSUME NEW t \in Sessions
      PROVE  /\ SessionOK(dh'[t], cache'[t], op'[t])
             /\ life'[t] # "live" => /\ op'[t] = Idle /\ cache'[t] = <<>>
                                     /\ dh'[t] = [f \in Files |-> NoDh]
  <2>1. CASE t = s
    BY <2>1, <1>2 DEF Move
  <2>2. CASE t # s
    BY <2>2, <1>3 DEF Move, SessionsOK
  <2> QED
    BY <2>1, <2>2
<1> QED
  BY <1>1, <1>2, <1>3, <1>4 DEF SessionsOK

(* A session begins an operation that reads a header of a file it has open, *)
(* or is going to open.                                                     *)
LEMMA BeginHeaderOp ==
  ASSUME TypeOK, SessionsOK, NEW s \in Sessions, Begin(s), UNCHANGED <<dh, cache, life>>,
         NEW k \in {"open", "flush", "index", "trigger"}, NEW f \in Files,
         NEW h \in Header, NEW voc \in BOOLEAN, k # "open" <=> IsOpen(s, f), NEW o,
         o = HeaderOp(k, f, h, voc), op' = [op EXCEPT ![s] = o]
  PROVE  Move(s, dh[s], cache[s], o)
<1>1. /\ o \in Op /\ OpOK(o) /\ Pending(o) = {} /\ o.kind = k /\ o.file = f
      /\ \A g : ~GoesOn(o, g)
  BY HeaderOpOK
<1>2. op[s] = Idle /\ life[s] = "live"
  BY DEF Begin
<1>3. SessionOK(dh[s], cache[s], Idle)
  BY <1>2, OwnState
<1>4. SessionOK(dh[s], cache[s], o)
  <2>1. \A f1 \in Files : One(f1 \in Pending(o)) = One(f1 \in Pending(Idle))
                           /\ One(GoesOn(o, f1)) = One(GoesOn(Idle, f1))
    BY <1>1, IdleOK DEF One
  <2>2. /\ o.kind \in {"flush", "index", "trigger"} => dh[s][o.file] # NoDh
        /\ o.kind = "open" => dh[s][o.file] = NoDh
    BY <1>1 DEF IsOpen
  <2>3. o.kind # "close"
    BY <1>1
  <2> QED
    BY <1>1, <1>3, <2>1, <2>2, <2>3 DEF SessionOK
<1>5. dh' = [dh EXCEPT ![s] = dh[s]] /\ cache' = [cache EXCEPT ![s] = cache[s]]
  BY DEF TypeOK
<1> QED
  BY <1>1, <1>2, <1>4, <1>5, OwnState DEF Move

(* A session ends an operation that is none of closing files.               *)
LEMMA EndOp ==
  ASSUME TypeOK, SessionsOK, NEW s \in Sessions, life[s] = "live", op[s].kind # "close",
         UNCHANGED <<dh, cache, life>>, op' = [op EXCEPT ![s] = Idle]
  PROVE  Move(s, dh[s], cache[s], Idle)
<1>1. SessionOK(dh[s], cache[s], op[s]) /\ \A f \in Files : dh[s][f].open_count \in Nat
  BY OwnState, OpenHasEntry
<1>2. SessionOK(dh[s], cache[s], Idle)
  <2>1. \A f \in Files : dh[s][f].open_count >= One(f \in Range(cache[s]))
    BY <1>1 DEF SessionOK, One
  <2> QED
    BY <1>1, <2>1, IdleOK DEF SessionOK, One
<1>3. dh' = [dh EXCEPT ![s] = dh[s]] /\ cache' = [cache EXCEPT ![s] = cache[s]]
  BY DEF TypeOK
<1> QED
  BY <1>2, <1>3, OwnState, IdleOK DEF Move

(* A list of one file.                                                      *)
LEMMA OneFile ==
  ASSUME NEW f \in Files
  PROVE  <<f>> \in Seq(Files) /\ Range(<<f>>) = {f} /\ Distinct(<<f>>)
<1>1. DOMAIN <<f>> = {1} /\ <<f>>[1] = f
  OBVIOUS
<1> QED
  BY <1>1 DEF Range, Distinct

(* The cached files of a session that is not closing any are open.          *)
LEMMA CachedIsOpen ==
  ASSUME TypeOK, SessionsOK, NEW s \in Sessions, NEW f \in Range(cache[s])
  PROVE  f \in Files /\ IsOpen(s, f) /\ (Cached(s, f) <=> f \in Range(cache[s]))
<1>1. cache[s] \in Seq(Files) /\ SessionOK(dh[s], cache[s], op[s])
  BY OwnState
<1>2. f \in Files
  BY <1>1, RangeOfSeq
<1>3. dh[s][f].open_count >= One(f \in Range(cache[s])) + One(f \in Pending(op[s]))
                               + One(GoesOn(op[s], f))
  BY <1>1, <1>2 DEF SessionOK
<1>4. dh[s][f].open_count >= 1
  BY <1>2, <1>3, OpenHasEntry DEF One
<1>5. IsOpen(s, f)
  BY <1>2, <1>4, OpenHasEntry
<1> QED
  BY <1>2, <1>5 DEF Cached, Range

(* Cached says whether a file is in the cache.                              *)
LEMMA CachedMeans ==
  ASSUME NEW s, NEW f
  PROVE  Cached(s, f) <=> f \in Range(cache[s])
  BY DEF Cached, Range

(* One counts a condition.                                                  *)
LEMMA OneIs == \A b : One(b) \in {0, 1}
  BY DEF One

(* Opened through the cache: one more reference, and the file comes first.  *)
LEMMA OpenCachedMove ==
  ASSUME TypeOK, SessionsOK, NEW s \in Sessions, NEW f \in Files, OpenCached(s, f)
  PROVE  Move(s, [dh[s] EXCEPT ![f].open_count = @ + 1], ToFront(cache[s], f), Idle)
<1> DEFINE d == [dh[s] EXCEPT ![f].open_count = @ + 1]
           q == ToFront(cache[s], f)
<1>1. life[s] = "live" /\ op[s] = Idle /\ f \in Range(cache[s])
  BY CachedMeans DEF OpenCached, Begin
<1>2. SessionOK(dh[s], cache[s], Idle) /\ cache[s] \in Seq(Files)
      /\ dh[s] \in [Files -> DhFile \cup {NoDh}]
  BY <1>1, OwnState
<1>3. Distinct(q) /\ Range(q) = Range(cache[s]) /\ q \in Seq(Files)
  BY <1>1, <1>2, ToFrontDistinct DEF SessionOK
<1>4. dh[s][f] \in DhFile
  BY <1>1, CachedIsOpen, OpenHasEntry
<1>5. d \in [Files -> DhFile \cup {NoDh}] /\ d[f] \in DhFile
      /\ d[f].open_count = dh[s][f].open_count + 1 /\ \A g \in Files : g # f => d[g] = dh[s][g]
  BY <1>2, <1>4 DEF DhFile
<1> HIDE DEF d, q
<1>6. SessionOK(d, q, Idle)
  <2> SUFFICES ASSUME NEW g \in Files
               PROVE  /\ d[g].open_count >= One(g \in Range(q)) + One(g \in Pending(Idle))
                                              + One(GoesOn(Idle, g))
                      /\ d[g] # NoDh => d[g].open_count >= 1
    BY <1>3, IdleOK DEF SessionOK
  <2>1. /\ dh[s][g].open_count >= One(g \in Range(cache[s])) + One(g \in Pending(Idle))
                                 + One(GoesOn(Idle, g))
        /\ dh[s][g] # NoDh => dh[s][g].open_count >= 1
    BY <1>2 DEF SessionOK
  <2>2. CASE g # f
    BY <1>3, <1>5, <2>1, <2>2
  <2>3. CASE g = f
    <3>1. dh[s][f].open_count \in Nat
      BY OpenHasEntry
    <3>3. d[g].open_count >= One(g \in Range(cache[s])) + One(g \in Pending(Idle))
                                + One(GoesOn(Idle, g))
      BY <1>5, <2>1, <2>3, <3>1, OneIs
    <3> QED
      BY <1>3, <1>5, <2>3, <3>1, <3>3
  <2> QED
    BY <2>2, <2>3
<1>7. /\ dh' = [dh EXCEPT ![s] = d] /\ cache' = [cache EXCEPT ![s] = q]
      /\ op' = [op EXCEPT ![s] = Idle] /\ UNCHANGED life
  BY <1>1 DEF OpenCached, TypeOK, d, q
<1> QED
  BY <1>1, <1>3, <1>5, <1>6, <1>7, IdleOK DEF Move, d, q

(* What a session has become is a closing of some of its cached files, with *)
(* the headers that dh_flush_header has just completed.                     *)
ClosesCached(s, o) ==
  /\ o.kind \in {"idle", "exclusive", "close"}
  /\ Pending(o) \subseteq Range(cache[s])
  /\ o.kind = "close" => o.file \in Range(cache[s])
  /\ o.kind = "close" /\ o.hdr # <<>> => o.hdr[1] = Flushed(s, o.file)

(* A session opens a file that is not in its cache, d0 being its DH_FILEs   *)
(* with one reference more.                                                 *)
OneMore(s, f, d0) ==
  /\ life[s] = "live" /\ UNCHANGED life
  /\ op[s].kind \in {"idle", "open"} /\ f \notin Range(cache[s])
  /\ d0 \in [Files -> DhFile \cup {NoDh}] /\ d0[f] \in DhFile
  /\ d0[f].open_count = dh[s][f].open_count + 1
  /\ \A g \in Files : g # f => d0[g] = dh[s][g]

(* It goes on with d, q and o.                                              *)
OpenedAs(s, f, d0, d, q, o) ==
  /\ Move(s, d, q, o)
  /\ \A g \in Files : /\ d[g].file_id = d0[g].file_id
                      /\ d[g].updated = d0[g].updated
                      /\ g # f => d[g] = d0[g]
  /\ Range(q) \subseteq Range(cache[s]) \cup {f}
  /\ ClosesCached(s, o)

(* open_file: a reference for the file variable, one for the cache if the   *)
(* file is opened by name, and one less for the file that leaves the cache. *)
LEMMA IntoCacheMove ==
  ASSUME TypeOK, SessionsOK, NEW s \in Sessions, NEW f \in Files, NEW voc \in BOOLEAN,
         NEW d0, OneMore(s, f, d0), IntoCache(s, f, voc, d0)
  PROVE  \E d, q, o : OpenedAs(s, f, d0, d, q, o)
<1> USE DEF OneMore, OpenedAs
<1> DEFINE c == cache[s]
           d1 == [d0 EXCEPT ![f].open_count = @ + 1]
<1>1. /\ SessionOK(dh[s], c, op[s]) /\ c \in Seq(Files)
      /\ Pending(op[s]) = {} /\ \A g \in Files : ~GoesOn(op[s], g)
  BY OwnState DEF Pending, GoesOn
<1>2. \A g \in Files : /\ dh[s][g].open_count \in Nat
                       /\ dh[s][g].open_count >= One(g \in Range(c))
                       /\ dh[s][g] # NoDh => dh[s][g].open_count >= 1
  BY <1>1, OpenHasEntry DEF SessionOK, One
<1>3. Distinct(c) /\ \A g \in Range(c) : g \in Files /\ IsOpen(s, g)
  BY <1>1, CachedIsOpen DEF SessionOK
<1>4. /\ d1 \in [Files -> DhFile \cup {NoDh}] /\ d1[f] \in DhFile
      /\ d1[f].open_count = d0[f].open_count + 1
      /\ d1[f].file_id = d0[f].file_id /\ d1[f].updated = d0[f].updated
      /\ \A g \in Files : g # f => d1[g] = d0[g]
  BY DEF DhFile
<1> HIDE DEF c, d1
<1>5. CASE ~voc
  <2>1. dh' = [dh EXCEPT ![s] = d0] /\ op' = [op EXCEPT ![s] = Idle]
        /\ cache' = [cache EXCEPT ![s] = c]
    BY <1>5 DEF IntoCache, TypeOK, c
  <2>2. SessionOK(d0, c, Idle)
    <3> SUFFICES ASSUME NEW g \in Files
                 PROVE  /\ d0[g].open_count >= One(g \in Range(c))
                        /\ d0[g] # NoDh => d0[g].open_count >= 1
      BY <1>3, IdleOK DEF SessionOK, One
    <3> QED
      BY <1>2, OneIs
  <2>3. Move(s, d0, c, Idle)
    BY <1>1, <2>1, <2>2, IdleOK DEF Move
  <2>4. ClosesCached(s, Idle)
    BY IdleOK DEF ClosesCached
  <2> QED
    BY <2>3, <2>4 DEF c
<1>6. CASE voc /\ Len(c) = CacheSize
  <2> DEFINE g == c[CacheSize]
             q == [c EXCEPT ![CacheSize] = f]
             fs == <<g>>
             o == Closing(d0, s, fs, NoFile, 0)
  <2>1. CacheSize \in DOMAIN c
    BY <1>1, <1>6, LenProperties, OpenFilesConstants
  <2>2. g \in Range(c) /\ g \in Files /\ g # f /\ IsOpen(s, g)
    BY <1>3, <2>1 DEF Range, c
  <2>3. q \in Seq(Files) /\ Range(q) = (Range(c) \ {g}) \cup {f} /\ Distinct(q)
    BY <1>1, <1>3, <2>1, ReplaceDistinct DEF c
  <2>4. /\ <<g>> \in Seq(Files) /\ Range(<<g>>) = {g} /\ Distinct(<<g>>)
        /\ d0[g].updated \in BOOLEAN
    BY <2>2, OneFile, OpenHasEntry
  <2>5. Closes(o, s, d0, fs, NoFile) /\ Range(fs) = {g}
    <3>1. fs \in Seq(Files) /\ Range(fs) = {g} /\ Distinct(fs)
      BY <2>4
    <3>2. \A x \in Range(fs) : IsOpen(s, x) /\ d0[x].updated \in BOOLEAN
      BY <2>2, <2>4, <3>1
    <3>3. NoFile \in Files \cup {NoFile} /\ 0 \in Nat
      OBVIOUS
    <3> HIDE DEF fs, g
    <3> QED
      BY <3>1, <3>2, <3>3, ClosingOK
  <2>5a. /\ o \in Op /\ OpOK(o) /\ Pending(o) = {g}
         /\ o.kind \in {"idle", "exclusive", "close"}
         /\ \A x \in Files : ~GoesOn(o, x)
         /\ o.kind = "close" => /\ o.file \in {g}
                                /\ o.hdr = <<>> <=> ~d0[o.file].updated
                                /\ o.hdr # <<>> => o.hdr[1] = Flushed(s, o.file)
    <3> HIDE DEF o, fs, g
    <3> QED
      BY <2>5, OpenFilesConstants DEF Closes
  <2>6. dh' = [dh EXCEPT ![s] = d1] /\ op' = [op EXCEPT ![s] = o]
        /\ cache' = [cache EXCEPT ![s] = q]
    BY <1>6 DEF IntoCache, TypeOK, c, d1
  <2> HIDE DEF g, q, o
  <2>7. SessionOK(d1, q, o)
    <3>1. ASSUME NEW x \in Files
          PROVE  /\ d1[x].open_count >= One(x \in Range(q)) + One(x \in Pending(o))
                                          + One(GoesOn(o, x))
                 /\ d1[x] # NoDh => d1[x].open_count >= 1
      <4>1. CASE x = f
        BY <1>2, <1>4, <2>2, <2>3, <2>5a, <4>1 DEF One
      <4>2. CASE x = g
        BY <1>2, <1>4, <2>2, <2>3, <2>5a, <4>2 DEF One
      <4>3. CASE x # f /\ x # g
        BY <1>2, <1>4, <2>3, <2>5a, <4>3 DEF One
      <4> QED
        BY <4>1, <4>2, <4>3
    <3>2. o.kind = "close" /\ o.hdr = <<>> => ~d1[o.file].updated
      BY <1>4, <2>2, <2>5a
    <3>3. o.kind \notin {"flush", "index", "trigger"}
      BY <2>5a
    <3> QED
      BY <2>3, <2>5a, <3>1, <3>2, <3>3 DEF SessionOK
  <2>8. Move(s, d1, q, o)
    BY <2>3, <2>5a, <2>6, <2>7, <1>4 DEF Move
  <2>9. ClosesCached(s, o) /\ Range(q) \subseteq Range(c) \cup {f}
    BY <2>2, <2>3, <2>5a DEF ClosesCached, c
  <2> QED
    BY <1>4, <2>8, <2>9 DEF c
<1>7. CASE voc /\ Len(c) # CacheSize
  <2> DEFINE q == Append(c, f)
  <2>1. q \in Seq(Files) /\ Range(q) = Range(c) \cup {f} /\ Distinct(q)
    BY <1>1, <1>3, AppendDistinct DEF c
  <2>2. dh' = [dh EXCEPT ![s] = d1] /\ op' = [op EXCEPT ![s] = Idle]
        /\ cache' = [cache EXCEPT ![s] = q]
    BY <1>7 DEF IntoCache, TypeOK, c, d1
  <2> HIDE DEF q
  <2>3. SessionOK(d1, q, Idle)
    <3>1. ASSUME NEW x \in Files
          PROVE  /\ d1[x].open_count >= One(x \in Range(q))
                 /\ d1[x] # NoDh => d1[x].open_count >= 1
      <4>1. CASE x = f
        BY <1>2, <1>4, <4>1 DEF One
      <4>2. CASE x # f
        BY <1>2, <1>4, <2>1, <4>2 DEF One
      <4> QED
        BY <4>1, <4>2
    <3>2. \A x \in Files : One(x \in Pending(Idle)) = 0 /\ One(GoesOn(Idle, x)) = 0
                           /\ One(x \in Range(q)) \in {0, 1}
      BY IdleOK, OneIs DEF One
    <3> QED
      BY <2>1, <3>1, <3>2, IdleOK DEF SessionOK
  <2>4. Move(s, d1, q, Idle) /\ ClosesCached(s, Idle)
    BY <1>4, <2>1, <2>2, <2>3, IdleOK DEF Move, ClosesCached
  <2> QED
    BY <1>4, <2>1, <2>4 DEF c
<1> QED
  BY <1>5, <1>6, <1>7

(* A session begins to close files that it has open, as often as its counts *)
(* of references allow.                                                     *)
LEMMA StartClosing ==
  ASSUME TypeOK, SessionsOK, NEW s \in Sessions, Begin(s), UNCHANGED <<dh, life>>,
         NEW q \in Seq(Files), Distinct(q), NEW fs \in Seq(Files), Distinct(fs),
         \A f \in Range(fs) : IsOpen(s, f),
         NEW next \in Files \cup {NoFile},
         \A f \in Files : dh[s][f].open_count >=
                            One(f \in Range(q)) + One(f \in Range(fs)) + One(f = next),
         cache' = [cache EXCEPT ![s] = q],
         op' = [op EXCEPT ![s] = Closing(dh[s], s, fs, next, 0)]
  PROVE  /\ Move(s, dh[s], q, Closing(dh[s], s, fs, next, 0))
         /\ Closes(Closing(dh[s], s, fs, next, 0), s, dh[s], fs, next)
<1> DEFINE o == Closing(dh[s], s, fs, next, 0)
<1>1. life[s] = "live" /\ SessionOK(dh[s], cache[s], op[s])
      /\ dh[s] \in [Files -> DhFile \cup {NoDh}]
  BY OwnState DEF Begin
<1>2. \A f \in Range(fs) : IsOpen(s, f) /\ dh[s][f].updated \in BOOLEAN
  BY OpenHasEntry, RangeOfSeq
<1>3. Closes(o, s, dh[s], fs, next)
  BY <1>2, ClosingOK
<1> HIDE DEF o
<1>4. SessionOK(dh[s], q, o)
  <2>1. \A f \in Files : One(GoesOn(o, f)) = One(f = next)
                         /\ One(f \in Pending(o)) = One(f \in Range(fs))
    BY <1>3 DEF One, Closes
  <2>2. \A f \in Files : dh[s][f] # NoDh => dh[s][f].open_count >= 1
    BY <1>1 DEF SessionOK
  <2> QED
    BY <1>3, <2>1, <2>2 DEF SessionOK, Closes
<1>5. dh' = [dh EXCEPT ![s] = dh[s]]
  BY DEF TypeOK
<1> QED
  BY <1>1, <1>3, <1>4, <1>5 DEF Move, Closes, o

(* flush_dh_cache, alone or before an attempt at exclusive access.          *)
LEMMA FlushCacheMove ==
  ASSUME TypeOK, SessionsOK, NEW s \in Sessions, Begin(s), UNCHANGED <<dh, life>>,
         NEW next \in Files \cup {NoFile},
         next # NoFile => IsOpen(s, next) /\ FileVars(s, next) > 0,
         cache' = [cache EXCEPT ![s] = <<>>],
         op' = [op EXCEPT ![s] = Closing(dh[s], s, cache[s], next, 0)]
  PROVE  \E o : Move(s, dh[s], <<>>, o) /\ ClosesCached(s, o)
<1> DEFINE q == <<>>
<1>1. SessionOK(dh[s], cache[s], op[s]) /\ cache[s] \in Seq(Files) /\ op[s] = Idle
  BY OwnState DEF Begin
<1>2. q \in Seq(Files) /\ Distinct(q) /\ Range(q) = {}
  BY EmptyDistinct
<1>3. Distinct(cache[s]) /\ \A f \in Range(cache[s]) : IsOpen(s, f)
  BY <1>1, CachedIsOpen DEF SessionOK
<1>4. ASSUME NEW f \in Files
      PROVE  dh[s][f].open_count >= One(f \in Range(q)) + One(f \in Range(cache[s]))
                                      + One(f = next)
  <2>1. /\ dh[s][f].open_count \in Nat
        /\ dh[s][f].open_count >= One(f \in Range(cache[s])) + One(f \in Pending(op[s]))
                                    + One(GoesOn(op[s], f))
    BY <1>1, OpenHasEntry DEF SessionOK
  <2>2. f = next => dh[s][f].open_count > One(f \in Range(cache[s]))
    BY <2>1, OpenFilesConstants, CachedMeans DEF FileVars, One
  <2>3. One(f \in Range(q)) = 0
    BY <1>2 DEF One
  <2>4. CASE f = next
    BY <2>1, <2>2, <2>3, <2>4 DEF One
  <2>5. CASE f # next
    BY <2>1, <2>3, <2>5 DEF One
  <2> QED
    BY <2>4, <2>5
<1>5. cache' = [cache EXCEPT ![s] = q]
  OBVIOUS
<1> HIDE DEF q
<1> DEFINE o == Closing(dh[s], s, cache[s], next, 0)
<1>6. Move(s, dh[s], q, o) /\ Closes(o, s, dh[s], cache[s], next)
  BY <1>1, <1>2, <1>3, <1>4, <1>5, StartClosing
<1> HIDE DEF o
<1> QED
  BY <1>6 DEF Closes, ClosesCached, q

(* dio_close: a reference that is not the cache's is released.              *)
LEMMA CloseMove ==
  ASSUME TypeOK, SessionsOK, NEW s \in Sessions, NEW f \in Files, Close(s, f)
  PROVE  \E o : /\ Move(s, dh[s], cache[s], o) /\ Pending(o) = {f}
                /\ o.kind \in {"idle", "exclusive", "close"}
                /\ o.kind = "close" => o.file = f
                /\ o.kind = "close" /\ o.hdr # <<>> => o.hdr[1] = Flushed(s, o.file)
<1> DEFINE fs == <<f>>
           o == Closing(dh[s], s, fs, NoFile, 0)
<1>1. /\ Begin(s) /\ UNCHANGED <<dh, life>> /\ op' = [op EXCEPT ![s] = o]
      /\ cache' = [cache EXCEPT ![s] = cache[s]]
      /\ IsOpen(s, f) /\ FileVars(s, f) > 0
  BY DEF Close, TypeOK
<1>2. fs \in Seq(Files) /\ Range(fs) = {f} /\ Distinct(fs)
  BY OneFile
<1>3. SessionOK(dh[s], cache[s], op[s]) /\ cache[s] \in Seq(Files) /\ Distinct(cache[s])
  BY OwnState DEF SessionOK
<1>4. NoFile \in Files \cup {NoFile} /\ NoFile \notin Files
  BY OpenFilesConstants
<1> HIDE DEF fs
<1>5. ASSUME NEW g \in Files
      PROVE  dh[s][g].open_count >= One(g \in Range(cache[s])) + One(g \in Range(fs))
                                      + One(g = NoFile)
  <2>1. /\ dh[s][g].open_count \in Nat
        /\ dh[s][g].open_count >= One(g \in Range(cache[s])) + One(g \in Pending(op[s]))
                                    + One(GoesOn(op[s], g))
    BY <1>3, OpenHasEntry DEF SessionOK
  <2>2. g = f => dh[s][g].open_count > One(g \in Range(cache[s]))
    BY <1>1, <2>1, CachedMeans DEF FileVars, One
  <2>3. One(g = NoFile) = 0
    BY <1>4 DEF One
  <2>4. CASE g = f
    BY <1>2, <2>1, <2>2, <2>3, <2>4 DEF One
  <2>5. CASE g # f
    BY <1>2, <2>1, <2>3, <2>5 DEF One
  <2> QED
    BY <2>4, <2>5
<1>6. Move(s, dh[s], cache[s], o) /\ Closes(o, s, dh[s], fs, NoFile)
  <2>1. \A g \in Range(fs) : IsOpen(s, g)
    BY <1>1, <1>2
  <2> QED
    BY <1>1, <1>2, <1>3, <1>4, <1>5, <2>1, StartClosing
<1> HIDE DEF o
<1> QED
  BY <1>2, <1>6 DEF Closes

(* The files a session is working with are open.                            *)
LEMMA WorkedOnIsOpen ==
  ASSUME TypeOK, SessionsOK, NEW s \in Sessions
  PROVE  /\ \A f \in Files : f \in Pending(op[s]) \/ GoesOn(op[s], f) => IsOpen(s, f)
         /\ op[s].kind \in {"flush", "index", "trigger", "close", "exclusive"} =>
              op[s].file \in Files /\ IsOpen(s, op[s].file)
<1>1. SessionOK(dh[s], cache[s], op[s])
  BY OwnState
<1>2. ASSUME NEW f \in Files, f \in Pending(op[s]) \/ GoesOn(op[s], f)
      PROVE  IsOpen(s, f)
  <2>1. /\ dh[s][f].open_count \in Nat
        /\ dh[s][f].open_count >= One(f \in Range(cache[s])) + One(f \in Pending(op[s]))
                                    + One(GoesOn(op[s], f))
    BY <1>1, OpenHasEntry DEF SessionOK
  <2>2. One(f \in Pending(op[s])) = 1 \/ One(GoesOn(op[s], f)) = 1
    BY <1>2 DEF One
  <2>3. dh[s][f].open_count >= 1
    BY <2>1, <2>2, OneIs
  <2> QED
    BY <2>3, OpenHasEntry
<1>3. op[s].kind \in {"flush", "index", "trigger", "close", "exclusive"} => op[s].file \in Files
  BY <1>1 DEF SessionOK, OpOK
<1>4. op[s].kind \in {"flush", "index", "trigger"} => IsOpen(s, op[s].file)
  BY <1>1 DEF SessionOK, IsOpen
<1>5. op[s].kind = "close" => op[s].file \in Pending(op[s])
  BY DEF Pending
<1>6. op[s].kind = "exclusive" => GoesOn(op[s], op[s].file)
  BY DEF GoesOn
<1> QED
  BY <1>2, <1>3, <1>4, <1>5, <1>6

(* A header written: FILE_UPDATED is off, and a flush is over.              *)
LEMMA WriteHeaderMove ==
  ASSUME TypeOK, SessionsOK, NEW s \in Sessions, WriteHeader(s)
  PROVE  \E o : /\ Move(s, [dh[s] EXCEPT ![op[s].file].updated = FALSE], cache[s], o)
                /\ o.kind \in {"idle", "close"}
                /\ o.kind = "close" => o.hdr = <<>>
                /\ Pending(o) = Pending(op[s])
<1> DEFINE f == op[s].file
           d == [dh[s] EXCEPT ![f].updated = FALSE]
           o == IF op[s].kind = "flush" THEN Idle ELSE [op[s] EXCEPT !.hdr = <<>>]
<1>1. /\ SessionOK(dh[s], cache[s], op[s]) /\ op[s] \in Op /\ cache[s] \in Seq(Files)
      /\ dh[s] \in [Files -> DhFile \cup {NoDh}]
      /\ life[s] = "live" /\ op[s].kind \in {"close", "flush"}
  BY OwnState DEF WriteHeader
<1>2. f \in Files /\ IsOpen(s, f) /\ dh[s][f] \in DhFile
  BY <1>1, WorkedOnIsOpen, OpenHasEntry
<1>3. /\ d \in [Files -> DhFile \cup {NoDh}]
      /\ \A g \in Files : d[g].open_count = dh[s][g].open_count
                          /\ (d[g] = NoDh => dh[s][g] = NoDh)
      /\ ~d[f].updated
  <2>1. /\ d[f] \in DhFile /\ d[f].open_count = dh[s][f].open_count /\ d[f] # NoDh
        /\ ~d[f].updated
    <3>1. d[f] = [dh[s][f] EXCEPT !.updated = FALSE]
      BY <1>1, <1>2
    <3>2. dh[s][f].file_id \in Entries /\ 0 \notin Entries
      BY <1>2 DEF DhFile, Entries
    <3>3. d[f].file_id # NoDh.file_id
      BY <1>2, <3>1, <3>2 DEF NoDh, DhFile
    <3> QED
      BY <1>2, <3>1, <3>3 DEF DhFile
  <2>2. \A g \in Files : g # f => d[g] = dh[s][g]
    BY <1>1
  <2>3. d = [g \in Files |-> IF g = f THEN d[f] ELSE dh[s][g]]
    BY <1>1, <2>2
  <2> HIDE DEF d
  <2>4. d \in [Files -> DhFile \cup {NoDh}]
    BY <1>1, <2>1, <2>3
  <2> QED
    BY <2>1, <2>2, <2>4
<1>4. /\ dh' = [dh EXCEPT ![s] = d] /\ op' = [op EXCEPT ![s] = o]
      /\ cache' = [cache EXCEPT ![s] = cache[s]] /\ UNCHANGED life
  BY DEF WriteHeader, TypeOK
<1>5. /\ o \in Op /\ OpOK(o) /\ o.kind \in {"idle", "close"}
      /\ o.kind = "close" => o.hdr = <<>> /\ o.file = f
      /\ Pending(o) = Pending(op[s]) /\ \A g \in Files : GoesOn(o, g) => GoesOn(op[s], g)
  <2>1. CASE op[s].kind = "flush"
    <3>1. o = Idle
      BY <2>1
    <3> QED
      BY <2>1, <3>1, IdleOK DEF Pending
  <2>2. CASE op[s].kind = "close"
    <3> DEFINE none == <<>>
    <3>1. none \in Seq(Header) /\ OpOK(op[s])
      BY <1>1, EmptyDistinct DEF SessionOK
    <3>2. o = [op[s] EXCEPT !.hdr = none]
      BY <2>2
    <3>3. none = <<>>
      OBVIOUS
    <3> HIDE DEF none, o
    <3>4. o \in Op
      BY <1>1, <3>1, <3>2 DEF Op
    <3>5. o.kind = "close" /\ o.file = f /\ o.hdr = none /\ o.rest = op[s].rest
          /\ o.next = op[s].next
      BY <1>1, <2>2, <3>2 DEF Op
    <3> QED
      BY <2>2, <3>1, <3>3, <3>4, <3>5 DEF OpOK, Pending, GoesOn
  <2> QED
    BY <1>1, <2>1, <2>2
<1> HIDE DEF d, o
<1>6. SessionOK(d, cache[s], o)
  <2>1. ASSUME NEW g \in Files
        PROVE  /\ d[g].open_count >= One(g \in Range(cache[s])) + One(g \in Pending(o))
                                        + One(GoesOn(o, g))
               /\ d[g] # NoDh => d[g].open_count >= 1
    <3>1. /\ dh[s][g].open_count >= One(g \in Range(cache[s])) + One(g \in Pending(op[s]))
                                      + One(GoesOn(op[s], g))
          /\ dh[s][g] # NoDh => dh[s][g].open_count >= 1
          /\ dh[s][g].open_count \in Nat
      BY <1>1, OpenHasEntry DEF SessionOK
    <3>2. One(GoesOn(o, g)) <= One(GoesOn(op[s], g))
      BY <1>5 DEF One
    <3>3. d[g].open_count >= One(g \in Range(cache[s])) + One(g \in Pending(o))
                                        + One(GoesOn(o, g))
      BY <1>3, <1>5, <3>1, <3>2, OneIs
    <3>4. d[g] # NoDh => dh[s][g] # NoDh
      <4>1. dh[s][g] = NoDh => g # f
        BY <1>2 DEF IsOpen
      <4>2. g # f => d[g] = dh[s][g]
        BY <1>1 DEF d
      <4> QED
        BY <4>1, <4>2
    <3> QED
      BY <1>3, <3>1, <3>3, <3>4
  <2>2. Distinct(cache[s])
    BY <1>1 DEF SessionOK
  <2> QED
    BY <1>3, <1>5, <2>1, <2>2 DEF SessionOK
<1> QED
  BY <1>1, <1>3, <1>4, <1>5, <1>6 DEF Move, d

(* dh_close: a reference less, or no DH_FILE when it was the last.          *)
ReleasedDh(s) ==
  LET f == op[s].file
  IN IF dh[s][f].open_count > 1
     THEN [dh[s] EXCEPT ![f].open_count = @ - 1] ELSE [dh[s] EXCEPT ![f] = NoDh]

(* The session goes on with the rest of the files it is closing.            *)
LEMMA ReleaseMove ==
  ASSUME TypeOK, SessionsOK, NEW s \in Sessions, Release(s)
  PROVE  \E o : /\ Move(s, ReleasedDh(s), cache[s], o)
                /\ o.kind \in {"idle", "exclusive", "close"}
                /\ Pending(o) = Pending(op[s]) \ {op[s].file}
                /\ o.kind = "close" => o.file \in Pending(op[s]) \ {op[s].file}
                /\ o.kind = "close" /\ o.hdr # <<>> => o.hdr[1] = Flushed(s, o.file)
<1> DEFINE f == op[s].file
           d == ReleasedDh(s)
           rest == op[s].rest
           next == op[s].next
           tries == op[s].tries
           o == Closing(d, s, rest, next, tries)
<1>1. /\ SessionOK(dh[s], cache[s], op[s]) /\ cache[s] \in Seq(Files)
      /\ dh[s] \in [Files -> DhFile \cup {NoDh}]
      /\ rest \in Seq(Files) /\ next \in Files \cup {NoFile} /\ tries \in Nat
      /\ life[s] = "live" /\ op[s].kind = "close" /\ op[s].hdr = <<>>
  BY OwnState DEF Release, In
<1>2. f \in Files /\ IsOpen(s, f) /\ dh[s][f] \in DhFile
  BY <1>1, WorkedOnIsOpen, OpenHasEntry
<1>3. /\ d \in [Files -> DhFile \cup {NoDh}]
      /\ \A g \in Files : g # f => d[g] = dh[s][g]
      /\ dh[s][f].open_count > 1 => d[f].open_count = dh[s][f].open_count - 1
      /\ ~(dh[s][f].open_count > 1) => d[f] = NoDh
  <2>1. CASE dh[s][f].open_count > 1
    <3>1. d = [dh[s] EXCEPT ![f].open_count = @ - 1]
      BY <2>1 DEF ReleasedDh
    <3>2. d[f] \in DhFile /\ d[f].open_count = dh[s][f].open_count - 1
      <4>1. d[f] = [dh[s][f] EXCEPT !.open_count = @ - 1]
        BY <1>1, <1>2, <3>1
      <4> QED
        BY <1>2, <2>1, <4>1 DEF DhFile
    <3>3. d = [g \in Files |-> IF g = f THEN d[f] ELSE dh[s][g]]
      BY <1>1, <3>1
    <3> HIDE DEF d
    <3> QED
      BY <1>1, <1>2, <2>1, <3>2, <3>3
  <2>2. CASE ~(dh[s][f].open_count > 1)
    <3>1. d = [dh[s] EXCEPT ![f] = NoDh]
      BY <2>2 DEF ReleasedDh
    <3> HIDE DEF d
    <3> QED
      BY <1>1, <1>2, <2>2, <3>1
  <2> QED
    BY <2>1, <2>2
<1>4. /\ dh' = [dh EXCEPT ![s] = d] /\ UNCHANGED life
      /\ cache' = [cache EXCEPT ![s] = cache[s]]
  <2>1. CASE dh[s][f].open_count > 1
    BY <2>1, <1>1, <1>2 DEF Release, TypeOK, ReleasedDh
  <2>2. CASE ~(dh[s][f].open_count > 1)
    BY <2>2, <1>1, <1>2 DEF Release, TypeOK, ReleasedDh
  <2> QED
    BY <2>1, <2>2
<1>5. op' = [op EXCEPT ![s] = o]
  <2>1. dh'[s] = d
    BY <1>4 DEF TypeOK
  <2> QED
    BY <2>1 DEF Release, TypeOK
<1>6. /\ Distinct(rest) /\ f \notin Range(rest)
      /\ Pending(op[s]) = {f} \cup Range(rest)
      /\ \A g \in Files : GoesOn(op[s], g) <=> g = next
  BY <1>1 DEF SessionOK, OpOK, Pending, GoesOn
<1>7. Closes(o, s, d, rest, next)
  <2>1. ASSUME NEW g \in Range(rest) PROVE IsOpen(s, g) /\ d[g].updated \in BOOLEAN
    <3>1. g \in Files /\ g \in Pending(op[s]) /\ g # f
      BY <1>1, <1>6, RangeOfSeq
    <3>2. IsOpen(s, g) /\ dh[s][g].updated \in BOOLEAN
      BY <3>1, WorkedOnIsOpen, OpenHasEntry
    <3> QED
      BY <1>3, <3>1, <3>2
  <2> HIDE DEF d, rest, next, tries
  <2> QED
    BY <1>1, <1>6, <2>1, ClosingOK
<1> HIDE DEF d, o
<1>8. SessionOK(d, cache[s], o)
  <2>1. ASSUME NEW g \in Files
        PROVE  /\ d[g].open_count >= One(g \in Range(cache[s])) + One(g \in Pending(o))
                                        + One(GoesOn(o, g))
               /\ d[g] # NoDh => d[g].open_count >= 1
    <3>1. /\ dh[s][g].open_count >= One(g \in Range(cache[s])) + One(g \in Pending(op[s]))
                                      + One(GoesOn(op[s], g))
          /\ dh[s][g] # NoDh => dh[s][g].open_count >= 1
          /\ dh[s][g].open_count \in Nat
      BY <1>1, OpenHasEntry DEF SessionOK
    <3>2. One(GoesOn(o, g)) = One(GoesOn(op[s], g))
      BY <1>6, <1>7 DEF One, Closes
    <3>3. CASE g # f
      <4>1. One(g \in Pending(o)) = One(g \in Pending(op[s]))
        BY <1>6, <1>7, <3>3 DEF One, Closes
      <4> QED
        BY <1>3, <3>1, <3>2, <3>3, <4>1
    <3>4. CASE g = f
      <4>1. One(g \in Pending(o)) = 0 /\ One(g \in Pending(op[s])) = 1
        BY <1>6, <1>7, <3>4 DEF One, Closes
      <4>2. CASE dh[s][f].open_count > 1
        BY <1>3, <3>1, <3>2, <3>4, <4>1, <4>2, OneIs
      <4>3. CASE ~(dh[s][f].open_count > 1)
        <5>1. d[g] = NoDh /\ NoDh.open_count = 0
          BY <1>3, <3>4, <4>3 DEF NoDh
        <5>2. One(g \in Range(cache[s])) + One(GoesOn(op[s], g)) <= 0
          BY <3>1, <3>4, <4>1, <4>3, OneIs
        <5> QED
          BY <3>2, <4>1, <5>1, <5>2, OneIs
      <4> QED
        BY <4>2, <4>3
    <3> QED
      BY <3>3, <3>4
  <2>2. Distinct(cache[s])
    BY <1>1 DEF SessionOK
  <2> QED
    BY <1>7, <2>1, <2>2 DEF SessionOK, Closes
<1>9. Move(s, d, cache[s], o)
  BY <1>1, <1>3, <1>4, <1>5, <1>7, <1>8 DEF Move, Closes
<1> QED
  BY <1>6, <1>7, <1>9 DEF Closes, d

(* An attempt at exclusive access failed.                                   *)
LEMMA TryAgainMove ==
  ASSUME TypeOK, SessionsOK, NEW s \in Sessions, TryAgain(s)
  PROVE  \E o : /\ Move(s, dh[s], cache[s], o) /\ Pending(o) = {}
                /\ o.kind \in {"idle", "exclusive"}
<1> DEFINE n == op[s].tries + 1
           o == [op[s] EXCEPT !.tries = n]
<1>1. /\ life[s] = "live" /\ op[s].kind = "exclusive" /\ UNCHANGED <<dh, cache, life>>
      /\ SessionOK(dh[s], cache[s], op[s]) /\ op[s] \in Op /\ n \in Nat
  BY OwnState DEF TryAgain, In
<1>2. CASE op' = [op EXCEPT ![s] = Idle]
  <2>1. Move(s, dh[s], cache[s], Idle)
    BY <1>1, <1>2, EndOp
  <2> QED
    BY <2>1, IdleOK
<1>3. CASE op' = [op EXCEPT ![s] = o]
  <2> HIDE DEF n
  <2>1. o \in Op /\ o.kind = "exclusive" /\ o.file = op[s].file /\ o.hdr = op[s].hdr
    BY <1>1 DEF Op
  <2> HIDE DEF o
  <2>3. /\ OpOK(o) /\ Pending(o) = {} /\ Pending(op[s]) = {}
        /\ \A g : GoesOn(o, g) <=> GoesOn(op[s], g)
    BY <1>1, <2>1 DEF SessionOK, OpOK, Pending, GoesOn
  <2>4. \A g \in Files : One(GoesOn(o, g)) = One(GoesOn(op[s], g))
                         /\ One(g \in Pending(o)) = One(g \in Pending(op[s]))
    BY <2>3 DEF One
  <2>5. SessionOK(dh[s], cache[s], o)
    BY <1>1, <2>1, <2>3, <2>4 DEF SessionOK
  <2>6. dh' = [dh EXCEPT ![s] = dh[s]] /\ cache' = [cache EXCEPT ![s] = cache[s]]
    BY <1>1 DEF TypeOK
  <2>7. Move(s, dh[s], cache[s], o)
    BY <1>1, <1>3, <2>1, <2>5, <2>6, OwnState DEF Move
  <2> QED
    BY <2>1, <2>3, <2>7
<1>4. op' = [op EXCEPT ![s] = Idle] \/ op' = [op EXCEPT ![s] = o]
  <2>1. op' = [op EXCEPT ![s] = IF n = MaxTries THEN Idle ELSE o]
    BY DEF TryAgain
  <2> QED
    BY <2>1
<1> QED
  BY <1>2, <1>3, <1>4

(* An update marks the DH_FILE.                                             *)
LEMMA UpdateMove ==
  ASSUME TypeOK, SessionsOK, NEW s \in Sessions, NEW f \in Files, Update(s, f)
  PROVE  /\ Move(s, [dh[s] EXCEPT ![f].updated = TRUE], cache[s], Idle)
         /\ dh[s][f] \in DhFile
<1> DEFINE d == [dh[s] EXCEPT ![f].updated = TRUE]
<1>1. /\ life[s] = "live" /\ op[s] = Idle /\ IsOpen(s, f) /\ UNCHANGED <<cache, op, life>>
      /\ SessionOK(dh[s], cache[s], Idle) /\ dh[s] \in [Files -> DhFile \cup {NoDh}]
  BY OwnState DEF Update, Begin
<1>2. dh[s][f] \in DhFile /\ d[f] = [dh[s][f] EXCEPT !.updated = TRUE]
      /\ \A g \in Files : g # f => d[g] = dh[s][g]
  BY <1>1, OpenHasEntry
<1>3. d[f] \in DhFile /\ d[f].open_count = dh[s][f].open_count /\ dh[s][f] # NoDh
  BY <1>1, <1>2 DEF DhFile, IsOpen
<1>4. d \in [Files -> DhFile \cup {NoDh}]
  <2>1. d = [g \in Files |-> IF g = f THEN d[f] ELSE dh[s][g]]
    BY <1>1
  <2> HIDE DEF d
  <2> QED
    BY <1>1, <1>3, <2>1
<1>5. /\ dh' = [dh EXCEPT ![s] = d] /\ cache' = [cache EXCEPT ![s] = cache[s]]
      /\ op' = [op EXCEPT ![s] = Idle]
  BY <1>1 DEF Update, TypeOK
<1> HIDE DEF d
<1>6. SessionOK(d, cache[s], Idle)
  <2>1. \A g \in Files : d[g].open_count = dh[s][g].open_count
                         /\ (d[g] # NoDh => dh[s][g] # NoDh)
    BY <1>2, <1>3
  <2> QED
    BY <1>1, <2>1, IdleOK DEF SessionOK
<1> QED
  BY <1>1, <1>2, <1>4, <1>5, <1>6, OwnState, IdleOK DEF Move, d

-----------------------------------------------------------------------------
(* What a step of a session leaves of the other invariants.                 *)

(* The DH_FILEs d point where those of s do.                                *)
SameEntries(s, d) == \A f \in Files : d[f].file_id = dh[s][f].file_id

(* A file that stays under exclusive access is not opened, cached or closed.*)
LeavesReserved(s, d, q, o) ==
  \A f \in Files : IsOpen(s, f) /\ table[EntryOf(s, f)].ref_ct < 0
                     /\ table'[EntryOf(s, f)].ref_ct < 0 =>
    /\ d[f].open_count = dh[s][f].open_count
    /\ f \in Range(q) \cup Pending(o) => f \in Range(cache[s]) \cup Pending(op[s])

(* Where DH_FILEs of all sessions point after a step that keeps entries.    *)
LEMMA EntriesAfter ==
  ASSUME TypeOK, SessionsOK, NEW s \in Sessions, NEW d, NEW q, NEW o, Move(s, d, q, o),
         SameEntries(s, d), NEW t \in Sessions, NEW f \in Files
  PROVE  /\ EntryOf(t, f)' = EntryOf(t, f)
         /\ IsOpen(t, f)' <=> IsOpen(t, f)
<1>1. /\ dh'[s] = d /\ (t # s => dh'[t] = dh[t])
      /\ dh' \in [Sessions -> [Files -> DhFile \cup {NoDh}]]
  BY MoveSessions
<1>2. dh'[t][f].file_id = dh[t][f].file_id
  <2>1. CASE t = s
    BY <1>1, <2>1 DEF SameEntries
  <2>2. CASE t # s
    BY <1>1, <2>2
  <2> QED
    BY <2>1, <2>2
<1>3. \A x \in DhFile \cup {NoDh} : x # NoDh <=> x.file_id \in Entries
  <2>1. 0 \notin Entries /\ NoDh.file_id = 0
    BY DEF Entries, NoDh
  <2>2. \A x \in DhFile : x.file_id \in Entries
    BY DEF DhFile
  <2> QED
    BY <2>1, <2>2
<1>4. dh[t][f] \in DhFile \cup {NoDh} /\ dh'[t][f] \in DhFile \cup {NoDh}
  BY <1>1 DEF TypeOK
<1>5. dh'[t][f] # NoDh <=> dh[t][f] # NoDh
  BY <1>2, <1>3, <1>4
<1> QED
  BY <1>2, <1>5 DEF EntryOf, IsOpen

(* The table keeps its files and, in size, its counts.                      *)
LEMMA TableKept ==
  ASSUME TypeOK, SessionsOK, TableOK, NEW s \in Sessions, NEW d, NEW q, NEW o,
         Move(s, d, q, o), SameEntries(s, d), UNCHANGED ufm,
         table' \in [Entries -> Entry],
         \A i \in Entries : /\ table'[i].file = table[i].file
                            /\ Abs(table'[i].ref_ct) = Abs(table[i].ref_ct)
                            /\ table'[i].ref_ct >= -1,
         \A t \in Sessions, i \in Entries :
           t \in ufm[i] /\ table[i].ref_ct < 0 /\ ~(table'[i].ref_ct < 0) =>
             \E f \in Files : EntryOf(t, f) = i
  PROVE  TableOK'
<1>1. \A t \in Sessions, f \in Files : /\ EntryOf(t, f)' = EntryOf(t, f)
                                       /\ IsOpen(t, f)' <=> IsOpen(t, f)
  BY EntriesAfter
<1>2. \A i \in Entries : InUse(i)' <=> InUse(i)
  <2> SUFFICES ASSUME NEW i \in Entries PROVE InUse(i)' <=> InUse(i)
    OBVIOUS
  <2>1. table[i].ref_ct \in Int /\ table'[i].ref_ct \in Int
    BY DEF TypeOK, Entry
  <2> QED
    BY <2>1 DEF InUse, Abs
<1>3. RefCountExact'
  BY DEF TableOK, RefCountExact
<1>4. \A t \in Sessions, f \in Files : IsOpen(t, f) => EntryOf(t, f) \in Entries
  BY OpenHasEntry
<1>5. life' = life
  BY DEF Move
<1>6. \A i, j \in Entries : InUse(i)' /\ InUse(j)' /\ table'[i].file = table'[j].file => i = j
  BY <1>2 DEF TableOK
<1>7. \A i \in Entries : InUse(i)' => table'[i].file \in Files
  BY <1>2 DEF TableOK
<1>8. \A t \in Sessions, f \in Files : IsOpen(t, f)' =>
        t \in ufm'[EntryOf(t, f)'] /\ table'[EntryOf(t, f)'].file = f
  BY <1>1, <1>4 DEF TableOK
<1>9. ASSUME NEW t \in Sessions, NEW i \in Entries, t \in ufm'[i], life'[t] # "dead"
      PROVE  HasOrLost(t, i)'
  <2>1. t \in ufm[i] /\ HasOrLost(t, i)
    BY <1>5, <1>9 DEF TableOK
  <2>2. CASE table[i].ref_ct < 0 /\ table'[i].ref_ct < 0
    BY <2>2 DEF HasOrLost
  <2>3. CASE ~(table[i].ref_ct < 0 /\ table'[i].ref_ct < 0)
    <3>1. PICK f \in Files : EntryOf(t, f) = i
      BY <2>1, <2>3 DEF HasOrLost
    <3>2. EntryOf(t, f)' = i
      BY <1>1, <3>1
    <3> QED
      BY <3>2 DEF HasOrLost
  <2> QED
    BY <2>2, <2>3
<1> QED
  BY <1>3, <1>6, <1>7, <1>8, <1>9 DEF TableOK

(* No file comes under exclusive access.                                    *)
LEMMA ReservedKept ==
  ASSUME TypeOK, SessionsOK, ReservedOK, NEW s \in Sessions, NEW d, NEW q, NEW o,
         Move(s, d, q, o), SameEntries(s, d), LeavesReserved(s, d, q, o),
         \A t \in Sessions, f \in Files :
           IsOpen(t, f) /\ table'[EntryOf(t, f)].ref_ct < 0 => table[EntryOf(t, f)].ref_ct < 0
  PROVE  ReservedOK'
<1> SUFFICES ASSUME NEW t \in Sessions, NEW f \in Files,
                    IsOpen(t, f)', table'[EntryOf(t, f)'].ref_ct < 0
             PROVE  /\ dh'[t][f].open_count = 1 /\ f \notin Range(cache'[t])
                    /\ f \notin Pending(op'[t])
  BY DEF ReservedOK
<1>1. /\ IsOpen(t, f) /\ table[EntryOf(t, f)].ref_ct < 0
      /\ table'[EntryOf(t, f)].ref_ct < 0
  BY EntriesAfter
<1>2. dh[t][f].open_count = 1 /\ f \notin Range(cache[t]) /\ f \notin Pending(op[t])
  BY <1>1 DEF ReservedOK
<1>3. CASE t # s
  BY <1>2, <1>3, MoveSessions
<1>4. CASE t = s
  <2>1. d[f].open_count = 1 /\ f \notin Range(q) /\ f \notin Pending(o)
    BY <1>1, <1>2, <1>4 DEF LeavesReserved
  <2>2. dh'[s] = d /\ cache'[s] = q /\ op'[s] = o
    BY MoveSessions
  <2> QED
    BY <1>4, <2>1, <2>2
<1> QED
  BY <1>3, <1>4

(* No trigger changes, nor does a session with exclusive access lose it.    *)
LEMMA HeadersKept ==
  ASSUME TypeOK, SessionsOK, HeadersOK, NEW s \in Sessions, NEW d, NEW q, NEW o,
         Move(s, d, q, o), SameEntries(s, d), HoldsHeader(s, o),
         \A f \in Files : disk'[f].trigger = disk[f].trigger
                          /\ real'[f].trigger = real[f].trigger,
         \A t \in Sessions, f \in Files :
           IsOpen(t, f) /\ table[EntryOf(t, f)].ref_ct < 0 /\ (t = s => o.kind = "trigger")
             => table'[EntryOf(t, f)].ref_ct < 0
  PROVE  HeadersOK'
<1>1. TriggerKept'
  BY DEF HeadersOK, TriggerKept
<1> SUFFICES ASSUME NEW t \in Sessions PROVE HoldsHeader(t, op[t])'
  BY <1>1 DEF HeadersOK
<1>2. /\ dh'[s] = d /\ op'[s] = o /\ (t # s => op'[t] = op[t])
      /\ SessionsOK' /\ op' \in [Sessions -> Op]
      /\ dh' \in [Sessions -> [Files -> DhFile \cup {NoDh}]]
  BY MoveSessions
<1>3. HoldsHeader(t, op'[t])
  <2>1. CASE t = s
    BY <1>2, <2>1
  <2>2. CASE t # s
    BY <1>2, <2>2 DEF HeadersOK
  <2> QED
    BY <2>1, <2>2
<1>4. op'[t].kind \in {"close", "flush", "index", "trigger"} => op'[t].file \in Files
  BY <1>2 DEF SessionsOK, SessionOK, OpOK
<1>5. op'[t].kind \in {"close", "flush", "index"} /\ op'[t].hdr # <<>> =>
        op'[t].hdr[1].trigger = disk'[op'[t].file].trigger
  BY <1>3, <1>4 DEF HoldsHeader
<1>6. ASSUME op'[t].kind = "trigger"
      PROVE  /\ op'[t].hdr[1].trigger = disk'[op'[t].file].trigger + 1
             /\ table'[dh'[t][op'[t].file].file_id].ref_ct < 0
  <2>1. PICK f \in Files : f = op'[t].file
    BY <1>4, <1>6
  <2>2. op'[t].hdr[1].trigger = disk[f].trigger + 1 /\ table[EntryOf(t, f)].ref_ct < 0
    BY <1>3, <1>6, <2>1 DEF HoldsHeader
  <2>3. dh'[t][f] # NoDh
    BY <1>2, <1>6, <2>1 DEF SessionsOK, SessionOK
  <2>4. IsOpen(t, f)'
    BY <2>3 DEF IsOpen
  <2>5. IsOpen(t, f) /\ EntryOf(t, f)' = EntryOf(t, f)
    BY <2>4, EntriesAfter
  <2>6. t = s => o.kind = "trigger"
    BY <1>2, <1>6
  <2>7. table'[EntryOf(t, f)].ref_ct < 0
    BY <2>2, <2>5, <2>6
  <2>8. dh'[t][f].file_id = EntryOf(t, f)
    BY <2>5 DEF EntryOf
  <2> QED
    BY <2>1, <2>2, <2>7, <2>8
<1> QED
  BY <1>5, <1>6 DEF HoldsHeader, EntryOf

(* Parameters stay, and what is marked FILE_UPDATED stays marked.           *)
LEMMA ParamsKept ==
  ASSUME TypeOK, SessionsOK, ParamsOK, NEW s \in Sessions, NEW d, NEW q, NEW o,
         Move(s, d, q, o), stale \subseteq stale',
         \A f \in Files \ stale' : /\ disk'[f].params = disk[f].params
                                   /\ real'[f].params = real[f].params
                                   /\ dh[s][f].updated => d[f].updated,
         \A i \in Entries : InUse(i)' => /\ InUse(i) /\ table'[i].file = table[i].file
                                         /\ table'[i].params = table[i].params
  PROVE  ParamsOK'
<1> SUFFICES ASSUME NEW f \in Files, f \notin stale'
             PROVE  /\ \A i \in Matching(f)' : table'[i].params = real'[f].params
                    /\ disk'[f].params # real'[f].params => \E t \in Sessions : dh'[t][f].updated
  BY DEF ParamsOK
<1>1. Matching(f)' \subseteq Matching(f)
  BY DEF Matching
<1>2. \A i \in Matching(f)' : table'[i].params = real'[f].params
  BY <1>1 DEF Matching, ParamsOK
<1>3. \A t \in Sessions : dh[t][f].updated => dh'[t][f].updated
  <2> SUFFICES ASSUME NEW t \in Sessions, dh[t][f].updated PROVE dh'[t][f].updated
    OBVIOUS
  <2>1. CASE t = s
    BY <2>1, MoveSessions
  <2>2. CASE t # s
    BY <2>2, MoveSessions
  <2> QED
    BY <2>1, <2>2
<1> QED
  BY <1>2, <1>3 DEF ParamsOK

(* A step that only moves its session.                                      *)
LEMMA QuietStep ==
  ASSUME TypeOK, FileInv, NEW s \in Sessions, NEW d, NEW q, NEW o, Move(s, d, q, o),
         SameEntries(s, d), LeavesReserved(s, d, q, o), HoldsHeader(s, o),
         \A f \in Files : dh[s][f].updated => d[f].updated,
         UNCHANGED <<table, ufm, disk, real, stale>>, event' \in SUBSET Sessions
  PROVE  TypeOK' /\ FileInv'
<1> USE DEF FileInv
<1>1. TypeOK' /\ SessionsOK'
  BY MoveSessions DEF TypeOK
<1>2. TableOK'
  BY TableKept DEF TypeOK, TableOK, RefCountExact
<1>3. ReservedOK'
  BY ReservedKept
<1>4. HeadersOK'
  <2>1. \A f \in Files : disk'[f].trigger = disk[f].trigger
                         /\ real'[f].trigger = real[f].trigger
    OBVIOUS
  <2>2. \A t \in Sessions, f \in Files :
          IsOpen(t, f) /\ table[EntryOf(t, f)].ref_ct < 0 /\ (t = s => o.kind = "trigger")
            => table'[EntryOf(t, f)].ref_ct < 0
    OBVIOUS
  <2> QED
    BY <2>1, <2>2, HeadersKept
<1>5. \A i \in Entries : InUse(i)' => InUse(i)
  BY DEF InUse
<1>6. ParamsOK'
  BY <1>5, ParamsKept
<1> QED
  BY <1>1, <1>2, <1>3, <1>4, <1>6

(* Headers that dh_flush_header has just completed are held as they are on  *)
(* disk, and other operations that are no header's hold none.               *)
LEMMA ClosingHolds ==
  ASSUME TypeOK, NEW s \in Sessions, NEW o, o.kind \in {"idle", "exclusive", "close"},
         o.kind = "close" /\ o.hdr # <<>> =>
           o.file \in Files /\ IsOpen(s, o.file) /\ o.hdr[1] = Flushed(s, o.file)
  PROVE  HoldsHeader(s, o)
<1>1. o.kind = "close" /\ o.hdr # <<>> => o.hdr[1].trigger = disk[o.file].trigger
  BY FlushedHeader
<1> QED
  BY <1>1 DEF HoldsHeader

(* A session whose DH_FILEs stay closes no more than files it has cached.   *)
LEMMA StayingStep ==
  ASSUME TypeOK, FileInv, NEW s \in Sessions, NEW q, NEW o, Move(s, dh[s], q, o),
         Range(q) \cup Pending(o) \subseteq Range(cache[s]) \cup Pending(op[s]),
         HoldsHeader(s, o),
         UNCHANGED <<table, ufm, disk, real, stale>>, event' \in SUBSET Sessions
  PROVE  TypeOK' /\ FileInv'
<1>1. SameEntries(s, dh[s]) /\ LeavesReserved(s, dh[s], q, o)
  BY DEF SameEntries, LeavesReserved
<1> QED
  BY <1>1, QuietStep

(* voc matters for an open only.                                            *)
LEMMA HeaderOpOf ==
  ASSUME NEW k \in {"open", "flush", "index", "trigger"}, NEW f \in Files, NEW h \in Header
  PROVE  [Idle EXCEPT !.kind = k, !.file = f, !.hdr = <<h>>] = HeaderOp(k, f, h, FALSE)
<1> DEFINE r == [kind |-> k, file |-> f, hdr |-> <<h>>, voc |-> FALSE, rest |-> <<>>,
                 next |-> NoFile, tries |-> 0]
<1>1. PICK o : o = HeaderOp(k, f, h, FALSE)
  OBVIOUS
<1>2. PICK p : p = [Idle EXCEPT !.kind = k, !.file = f, !.hdr = <<h>>]
  OBVIOUS
<1>3. o = r
  BY <1>1 DEF Idle, HeaderOp
<1>4. p = r
  BY <1>2 DEF Idle
<1> HIDE DEF r
<1> QED
  BY <1>1, <1>2, <1>3, <1>4

(* A session that reads a header.                                           *)
LEMMA HeaderOpStep ==
  ASSUME TypeOK, FileInv, NEW s \in Sessions, Begin(s), UNCHANGED <<dh, cache, life>>,
         NEW k \in {"open", "flush", "index", "trigger"}, NEW f \in Files,
         NEW h \in Header, NEW voc \in BOOLEAN, k # "open" <=> IsOpen(s, f),
         op' = [op EXCEPT ![s] = HeaderOp(k, f, h, voc)],
         k \in {"flush", "index"} => h.trigger = disk[f].trigger,
         k = "trigger" => h.trigger = disk[f].trigger + 1 /\ table[EntryOf(s, f)].ref_ct < 0,
         UNCHANGED <<table, ufm, disk, real, stale, event>>
  PROVE  TypeOK' /\ FileInv'
<1> USE DEF FileInv
<1> DEFINE o == HeaderOp(k, f, h, voc)
<1>0. op' = [op EXCEPT ![s] = o] /\ o = HeaderOp(k, f, h, voc)
  OBVIOUS
<1> HIDE DEF o
<1>1. Move(s, dh[s], cache[s], o)
  BY <1>0, BeginHeaderOp
<1>2. Pending(o) = {} /\ o.kind = k /\ o.file = f /\ o.hdr[1] = h
  BY <1>0, HeaderOpOK
<1>3. HoldsHeader(s, o)
  BY <1>2 DEF HoldsHeader
<1>4. event' \in SUBSET Sessions
  BY DEF TypeOK
<1> QED
  BY <1>1, <1>2, <1>3, <1>4, StayingStep

(* dh_open reads the header of a file the session does not have open.       *)
LEMMA ReadHeaderStep ==
  ASSUME TypeOK, FileInv, NEW s \in Sessions, NEW f \in Files, NEW voc \in BOOLEAN,
         ReadHeader(s, f, voc)
  PROVE  TypeOK' /\ FileInv'
<1>1. op' = [op EXCEPT ![s] = HeaderOp("open", f, disk[f], voc)]
  BY DEF ReadHeader, HeaderOp
<1>2. disk[f] \in Header
  BY DEF TypeOK
<1> QED
  BY <1>1, <1>2, HeaderOpStep DEF ReadHeader

(* dh_flush_header completes the header with the parameters of the table.   *)
LEMMA FlushHeaderStep ==
  ASSUME TypeOK, FileInv, NEW s \in Sessions, NEW f \in Files, FlushHeader(s, f)
  PROVE  TypeOK' /\ FileInv'
<1> DEFINE h == Flushed(s, f)
<1>1. h \in Header /\ h.trigger = disk[f].trigger
  BY FlushedHeader DEF FlushHeader
<1>2. op' = [op EXCEPT ![s] = [Idle EXCEPT !.kind = "flush", !.file = f, !.hdr = <<h>>]]
  BY DEF FlushHeader
<1> HIDE DEF h
<1>3. op' = [op EXCEPT ![s] = HeaderOp("flush", f, h, FALSE)]
  BY <1>1, <1>2, HeaderOpOf
<1> QED
  BY <1>1, <1>3, HeaderOpStep DEF FlushHeader

(* create_ak holds a header with the trigger that is on disk.               *)
LEMMA CreateIndexStep ==
  ASSUME TypeOK, FileInv, NEW s \in Sessions, NEW f \in Files, CreateIndex(s, f)
  PROVE  TypeOK' /\ FileInv'
<1> DEFINE h == [disk[f] EXCEPT !.ak_map = @ + 1]
<1>1. h \in Header /\ h.trigger = disk[f].trigger
  <2>1. disk[f] \in Header
    BY DEF TypeOK
  <2> QED
    BY <2>1 DEF Header
<1>2. op' = [op EXCEPT ![s] = [Idle EXCEPT !.kind = "index", !.file = f, !.hdr = <<h>>]]
  BY DEF CreateIndex
<1> HIDE DEF h
<1>3. op' = [op EXCEPT ![s] = HeaderOp("index", f, h, FALSE)]
  BY <1>1, <1>2, HeaderOpOf
<1> QED
  BY <1>1, <1>3, HeaderOpStep DEF CreateIndex

(* op_settrig holds the next trigger, under exclusive access.               *)
LEMMA SetTriggerStep ==
  ASSUME TypeOK, FileInv, NEW s \in Sessions, NEW f \in Files, SetTrigger(s, f)
  PROVE  TypeOK' /\ FileInv'
<1> DEFINE h == [disk[f] EXCEPT !.trigger = @ + 1]
<1>1. h \in Header /\ h.trigger = disk[f].trigger + 1
  <2>1. disk[f] \in Header
    BY DEF TypeOK
  <2> QED
    BY <2>1 DEF Header
<1>2. op' = [op EXCEPT ![s] = [Idle EXCEPT !.kind = "trigger", !.file = f, !.hdr = <<h>>]]
  BY DEF SetTrigger
<1> HIDE DEF h
<1>3. op' = [op EXCEPT ![s] = HeaderOp("trigger", f, h, FALSE)]
  BY <1>1, <1>2, HeaderOpOf
<1> QED
  BY <1>1, <1>3, HeaderOpStep DEF SetTrigger

(* A refused open leaves nothing behind.                                    *)
LEMMA RefuseOpenStep ==
  ASSUME TypeOK, FileInv, NEW s \in Sessions, RefuseOpen(s)
  PROVE  TypeOK' /\ FileInv'
<1> USE DEF FileInv
<1>1. Move(s, dh[s], cache[s], Idle)
  BY EndOp DEF RefuseOpen, In
<1>2. HoldsHeader(s, Idle) /\ Pending(Idle) = {}
  BY IdleOK DEF HoldsHeader
<1>3. event' \in SUBSET Sessions
  BY DEF TypeOK, RefuseOpen
<1> QED
  BY <1>1, <1>2, <1>3, StayingStep DEF RefuseOpen

(* A failed attempt only counts, and asks the others to flush.              *)
LEMMA TryAgainStep ==
  ASSUME TypeOK, FileInv, NEW s \in Sessions, TryAgain(s)
  PROVE  TypeOK' /\ FileInv'
<1> USE DEF FileInv
<1>1. PICK o : /\ Move(s, dh[s], cache[s], o) /\ Pending(o) = {}
               /\ o.kind \in {"idle", "exclusive"}
  BY TryAgainMove
<1>2. HoldsHeader(s, o)
  BY <1>1 DEF HoldsHeader
<1>3. event' \in SUBSET Sessions
  BY DEF TypeOK, TryAgain
<1> QED
  BY <1>1, <1>2, <1>3, StayingStep DEF TryAgain

(* flush_dh_cache, alone or before an attempt at exclusive access.          *)
LEMMA FlushCacheStep ==
  ASSUME TypeOK, FileInv, NEW s \in Sessions, Begin(s), UNCHANGED <<dh, life>>,
         NEW next \in Files \cup {NoFile},
         next # NoFile => IsOpen(s, next) /\ FileVars(s, next) > 0,
         cache' = [cache EXCEPT ![s] = <<>>],
         op' = [op EXCEPT ![s] = Closing(dh[s], s, cache[s], next, 0)],
         UNCHANGED <<table, ufm, disk, real, stale>>, event' \in SUBSET Sessions
  PROVE  TypeOK' /\ FileInv'
<1> USE DEF FileInv
<1> DEFINE q == <<>>
<1>1. PICK o : Move(s, dh[s], q, o) /\ ClosesCached(s, o)
  BY FlushCacheMove
<1>2. Range(q) = {}
  BY EmptyDistinct
<1> HIDE DEF q
<1>3. HoldsHeader(s, o)
  <2>1. o.kind = "close" => o.file \in Files /\ IsOpen(s, o.file)
    BY <1>1, CachedIsOpen DEF ClosesCached
  <2> QED
    BY <1>1, <2>1, ClosingHolds DEF ClosesCached
<1> QED
  BY <1>1, <1>2, <1>3, StayingStep DEF ClosesCached

(* FILEINFO(FL$EXCLUSIVE) empties the cache first.                          *)
LEMMA AskExclusiveStep ==
  ASSUME TypeOK, FileInv, NEW s \in Sessions, NEW f \in Files, AskExclusive(s, f)
  PROVE  TypeOK' /\ FileInv'
<1>1. event' \in SUBSET Sessions
  BY DEF TypeOK, AskExclusive
<1> QED
  BY <1>1, FlushCacheStep DEF AskExclusive

(* An event empties the cache.                                              *)
LEMMA ProcessEventsStep ==
  ASSUME TypeOK, FileInv, NEW s \in Sessions, ProcessEvents(s)
  PROVE  TypeOK' /\ FileInv'
<1>1. event' \in SUBSET Sessions
  BY DEF TypeOK, ProcessEvents
<1>2. NoFile \in Files \cup {NoFile}
  OBVIOUS
<1> QED
  BY <1>1, <1>2, FlushCacheStep DEF ProcessEvents

(* A cached file is not under exclusive access: it may be opened again.     *)
LEMMA OpenCachedStep ==
  ASSUME TypeOK, FileInv, NEW s \in Sessions, NEW f \in Files, OpenCached(s, f)
  PROVE  TypeOK' /\ FileInv'
<1> USE DEF FileInv
<1> DEFINE d == [dh[s] EXCEPT ![f].open_count = @ + 1]
           q == ToFront(cache[s], f)
<1>1. Move(s, d, q, Idle)
  BY OpenCachedMove
<1>2. /\ f \in Range(cache[s]) /\ Distinct(cache[s]) /\ cache[s] \in Seq(Files)
      /\ dh[s] \in [Files -> DhFile \cup {NoDh}]
      /\ UNCHANGED <<table, ufm, disk, real, stale>> /\ event' \in SUBSET Sessions
  BY OwnState, CachedMeans DEF OpenCached, SessionOK, TypeOK
<1>3. Range(q) = Range(cache[s])
  BY <1>2, ToFrontDistinct
<1>4. /\ d[f].file_id = dh[s][f].file_id /\ d[f].updated = dh[s][f].updated
      /\ \A g \in Files : g # f => d[g] = dh[s][g]
  <2>1. dh[s][f] \in DhFile
    BY <1>2, CachedIsOpen, OpenHasEntry
  <2> QED
    BY <1>2, <2>1 DEF DhFile
<1> HIDE DEF d, q
<1>5. LeavesReserved(s, d, q, Idle)
  <2>1. \A g \in Files : IsOpen(s, g) /\ table[EntryOf(s, g)].ref_ct < 0 => g # f
    BY <1>2 DEF ReservedOK
  <2> QED
    BY <1>3, <1>4, <2>1, IdleOK DEF LeavesReserved
<1>6. SameEntries(s, d)
  BY <1>4 DEF SameEntries
<1>7. \A g \in Files : dh[s][g].updated => d[g].updated
  BY <1>4
<1>8. HoldsHeader(s, Idle)
  BY IdleOK DEF HoldsHeader
<1> QED
  BY <1>1, <1>2, <1>5, <1>6, <1>7, <1>8, QuietStep

(* Nor is one whose reference count is above zero.                          *)
LEMMA OpenAgainStep ==
  ASSUME TypeOK, FileInv, NEW s \in Sessions, NEW f \in Files, NEW voc \in BOOLEAN,
         OpenAgain(s, f, voc)
  PROVE  TypeOK' /\ FileInv'
<1> USE DEF FileInv
<1> DEFINE d0 == [dh[s] EXCEPT ![f].open_count = @ + 1]
<1>1. /\ f \notin Range(cache[s]) /\ IsOpen(s, f) /\ table[EntryOf(s, f)].ref_ct > 0
      /\ life[s] = "live" /\ op[s] = Idle /\ UNCHANGED life /\ IntoCache(s, f, voc, d0)
      /\ UNCHANGED <<table, ufm, disk, real, stale>> /\ event' \in SUBSET Sessions
  BY CachedMeans DEF OpenAgain, Begin, TypeOK
<1>2. dh[s] \in [Files -> DhFile \cup {NoDh}] /\ dh[s][f] \in DhFile
  BY <1>1, OwnState, OpenHasEntry
<1>3. /\ d0 \in [Files -> DhFile \cup {NoDh}] /\ d0[f] \in DhFile
      /\ d0[f].open_count = dh[s][f].open_count + 1
      /\ d0[f].file_id = dh[s][f].file_id /\ d0[f].updated = dh[s][f].updated
      /\ \A g \in Files : g # f => d0[g] = dh[s][g]
  BY <1>2 DEF DhFile
<1>4. op[s].kind \in {"idle", "open"}
  BY <1>1, IdleOK
<1> HIDE DEF d0
<1>5. PICK d, q, o : OpenedAs(s, f, d0, d, q, o)
  <2>1. OneMore(s, f, d0)
    BY <1>1, <1>3, <1>4 DEF OneMore
  <2> QED
    BY <1>1, <2>1, IntoCacheMove
<1>6. SameEntries(s, d) /\ \A g \in Files : dh[s][g].updated => d[g].updated
  BY <1>3, <1>5 DEF SameEntries, OpenedAs
<1>7. LeavesReserved(s, d, q, o)
  <2>1. table[EntryOf(s, f)].ref_ct \in Int
    BY <1>1, OpenHasEntry DEF TypeOK, Entry
  <2>2. \A g \in Files : IsOpen(s, g) /\ table[EntryOf(s, g)].ref_ct < 0 => g # f
    BY <1>1, <2>1
  <2> QED
    BY <1>3, <1>5, <2>2 DEF LeavesReserved, ClosesCached, OpenedAs
<1>8. HoldsHeader(s, o)
  <2>1. o.kind = "close" => o.file \in Files /\ IsOpen(s, o.file)
    BY <1>5, CachedIsOpen DEF ClosesCached, OpenedAs
  <2> QED
    BY <1>5, <2>1, ClosingHolds DEF ClosesCached, OpenedAs
<1> QED
  BY <1>1, <1>5, <1>6, <1>7, <1>8, QuietStep DEF OpenedAs

(* A reference is released that is not the last.                            *)
LEMMA ReleaseOneStep ==
  ASSUME TypeOK, FileInv, NEW s \in Sessions, Release(s),
         dh[s][op[s].file].open_count > 1
  PROVE  TypeOK' /\ FileInv'
<1> USE DEF FileInv
<1> DEFINE d == ReleasedDh(s)
<1>0. op[s].kind = "close"
  BY DEF Release, In
<1>1. PICK f \in Files : f = op[s].file
  BY <1>0, WorkedOnIsOpen
<1>2. /\ f \in Pending(op[s]) /\ IsOpen(s, f) /\ dh[s][f] \in DhFile
      /\ dh[s] \in [Files -> DhFile \cup {NoDh}]
      /\ UNCHANGED <<table, ufm, disk, real, stale>> /\ event' \in SUBSET Sessions
  BY <1>0, <1>1, WorkedOnIsOpen, OpenHasEntry, OwnState DEF Pending, Release, TypeOK
<1>3. PICK o : /\ Move(s, d, cache[s], o)
               /\ o.kind \in {"idle", "exclusive", "close"}
               /\ Pending(o) = Pending(op[s]) \ {op[s].file}
               /\ o.kind = "close" => o.file \in Pending(op[s]) \ {op[s].file}
               /\ o.kind = "close" /\ o.hdr # <<>> => o.hdr[1] = Flushed(s, o.file)
  BY ReleaseMove
<1>4. /\ d[f].file_id = dh[s][f].file_id /\ d[f].updated = dh[s][f].updated
      /\ \A g \in Files : g # f => d[g] = dh[s][g]
  <2>1. d = [dh[s] EXCEPT ![f].open_count = @ - 1]
    BY <1>1 DEF ReleasedDh
  <2> HIDE DEF d
  <2> QED
    BY <1>2, <2>1 DEF DhFile
<1> HIDE DEF d
<1>5. SameEntries(s, d) /\ \A g \in Files : dh[s][g].updated => d[g].updated
  BY <1>4 DEF SameEntries
<1>6. LeavesReserved(s, d, cache[s], o)
  <2>1. \A g \in Files : IsOpen(s, g) /\ table[EntryOf(s, g)].ref_ct < 0 => g # f
    BY <1>2 DEF ReservedOK
  <2> QED
    BY <1>3, <1>4, <2>1 DEF LeavesReserved
<1>7. HoldsHeader(s, o)
  <2>1. ASSUME o.kind = "close" PROVE o.file \in Files /\ IsOpen(s, o.file)
    <3>1. o.file \in Pending(op[s])
      BY <1>3, <2>1
    <3>2. Pending(op[s]) \subseteq Files
      BY <1>0, <1>1, OwnState, RangeOfSeq DEF Pending
    <3> QED
      BY <3>1, <3>2, WorkedOnIsOpen
  <2> QED
    BY <1>3, <2>1, ClosingHolds
<1> QED
  BY <1>2, <1>3, <1>5, <1>6, <1>7, QuietStep

-----------------------------------------------------------------------------
(* Steps that change the file table, a header or what one should say.       *)

(* The entry an open file has: in use, for this file, and counted.          *)
LEMMA OpenEntry ==
  ASSUME TypeOK, TableOK, NEW s \in Sessions, NEW f \in Files, IsOpen(s, f)
  PROVE  LET i == EntryOf(s, f) IN
         /\ i \in Entries /\ s \in ufm[i] /\ InUse(i)
         /\ table[i] \in Entry /\ table[i].file = f /\ i \in Matching(f)
         /\ table[i].ref_ct >= -1 /\ Abs(table[i].ref_ct) = Cardinality(ufm[i])
<1> DEFINE i == EntryOf(s, f)
<1>1. i \in Entries /\ s \in ufm[i] /\ table[i].file = f
  BY OpenHasEntry DEF TableOK
<1>2. table[i] \in Entry /\ table[i].ref_ct >= -1
      /\ Abs(table[i].ref_ct) = Cardinality(ufm[i])
  BY <1>1 DEF TypeOK, TableOK, RefCountExact
<1>3. table[i].ref_ct # 0
  <2>1. IsFiniteSet(ufm[i])
    BY <1>1, OpenFilesConstants, FS_Subset DEF TypeOK
  <2>2. Cardinality(ufm[i]) # 0
    BY <1>1, <2>1, FS_EmptySet
  <2> QED
    BY <1>2, <2>2 DEF Abs
<1> QED
  BY <1>1, <1>2, <1>3 DEF InUse, Matching

(* An entry with one reference is one session's.                            *)
LEMMA Alone ==
  ASSUME TypeOK, TableOK, NEW i \in Entries, Abs(table[i].ref_ct) = 1,
         NEW s \in ufm[i], NEW t \in ufm[i]
  PROVE  s = t
<1>1. Cardinality(ufm[i]) = 1 /\ IsFiniteSet(ufm[i])
  BY OpenFilesConstants, FS_Subset DEF TypeOK, TableOK, RefCountExact
<1>2. PICK x : ufm[i] = {x}
  BY <1>1, FS_Singleton
<1> QED
  BY <1>2

(* Exclusive access is of one reference.                                    *)
LEMMA ReservedIsOne ==
  ASSUME TypeOK, TableOK, NEW i \in Entries, table[i].ref_ct < 0
  PROVE  table[i].ref_ct = -1 /\ Abs(table[i].ref_ct) = 1
BY DEF TypeOK, TableOK, RefCountExact, Entry, Abs

(* Nobody else has a file open that is under exclusive access of a session. *)
LEMMA ReservedAlone ==
  ASSUME TypeOK, TableOK, NEW s \in Sessions, NEW f \in Files, IsOpen(s, f),
         table[EntryOf(s, f)].ref_ct < 0, NEW t \in Sessions, NEW g \in Files,
         IsOpen(t, g), EntryOf(t, g) = EntryOf(s, f)
  PROVE  t = s /\ g = f
BY OpenEntry, Alone, ReservedIsOne

(* dio_close ends exclusive access before the file is on its way out.       *)
LEMMA CloseStep ==
  ASSUME TypeOK, FileInv, NEW s \in Sessions, NEW f \in Files, Close(s, f)
  PROVE  TypeOK' /\ FileInv'
<1> USE DEF FileInv
<1>1. PICK o : /\ Move(s, dh[s], cache[s], o) /\ Pending(o) = {f}
               /\ o.kind \in {"idle", "exclusive", "close"}
               /\ o.kind = "close" => o.file = f
               /\ o.kind = "close" /\ o.hdr # <<>> => o.hdr[1] = Flushed(s, o.file)
  BY CloseMove
<1>2. IsOpen(s, f) /\ UNCHANGED <<ufm, event, disk, real, stale>>
  BY DEF Close
<1>3. PICK i \in Entries : /\ i = EntryOf(s, f) /\ InUse(i) /\ table[i] \in Entry
                           /\ s \in ufm[i] /\ table[i].file = f
  BY <1>2, OpenEntry
<1> DEFINE n == IF table[i].ref_ct < 0 THEN 1 ELSE table[i].ref_ct
<1>4. table' = [table EXCEPT ![i].ref_ct = n] /\ n \in Int
  BY <1>3 DEF Close, Entry
<1>5. table[i].ref_ct < 0 => table[i].ref_ct = -1
  BY <1>3, ReservedIsOne
<1>6. /\ n > 0 \/ ~(table[i].ref_ct < 0)
      /\ Abs(n) = Abs(table[i].ref_ct) /\ n >= -1 /\ (n < 0 => table[i].ref_ct < 0)
      /\ n >= 0
  BY <1>3, <1>5 DEF Entry, Abs
<1> HIDE DEF n
<1>7. /\ table' \in [Entries -> Entry] /\ table'[i].ref_ct = n
      /\ table'[i].file = table[i].file /\ table'[i].params = table[i].params
      /\ \A j \in Entries : j # i => table'[j] = table[j]
  BY <1>4 DEF TypeOK, Entry
<1>8. \A j \in Entries : /\ table'[j].file = table[j].file
                         /\ table'[j].params = table[j].params
                         /\ Abs(table'[j].ref_ct) = Abs(table[j].ref_ct)
                         /\ table'[j].ref_ct >= -1
                         /\ table'[j].ref_ct < 0 => table[j].ref_ct < 0
  BY <1>6, <1>7 DEF TableOK, RefCountExact
<1>9. TypeOK' /\ SessionsOK'
  BY <1>1, <1>2, <1>7, MoveSessions DEF TypeOK
<1>10. SameEntries(s, dh[s])
  BY DEF SameEntries
<1>11. TableOK'
  <2>1. ASSUME NEW t \in Sessions, NEW j \in Entries, t \in ufm[j],
               table[j].ref_ct < 0, ~(table'[j].ref_ct < 0)
        PROVE  \E g \in Files : EntryOf(t, g) = j
    <3>1. j = i
      BY <1>7, <2>1
    <3>2. t = s
      BY <1>3, <2>1, <3>1, Alone, ReservedIsOne
    <3> QED
      BY <1>3, <3>1, <3>2
  <2> QED
    BY <1>1, <1>2, <1>7, <1>8, <1>10, <2>1, TableKept
<1>12. ReservedOK'
  <2>1. \A g \in Files : IsOpen(s, g) /\ table'[EntryOf(s, g)].ref_ct < 0 => g # f
    BY <1>3, <1>4, <1>6, <1>7
  <2>2. LeavesReserved(s, dh[s], cache[s], o)
    BY <1>1, <2>1 DEF LeavesReserved
  <2>3. \A t \in Sessions, g \in Files :
          IsOpen(t, g) /\ table'[EntryOf(t, g)].ref_ct < 0 => table[EntryOf(t, g)].ref_ct < 0
    BY <1>8, OpenHasEntry
  <2> QED
    BY <1>1, <1>10, <2>2, <2>3, ReservedKept
<1>13. HeadersOK'
  <2>1. HoldsHeader(s, o)
    BY <1>1, <1>2, ClosingHolds
  <2>2. ASSUME NEW t \in Sessions, NEW g \in Files, IsOpen(t, g),
               table[EntryOf(t, g)].ref_ct < 0, t = s => o.kind = "trigger"
        PROVE  table'[EntryOf(t, g)].ref_ct < 0
    <3>1. t # s
      BY <1>1, <2>2
    <3>2. EntryOf(t, g) # i
      BY <1>2, <1>3, <2>2, <3>1, ReservedAlone
    <3> QED
      BY <1>7, <2>2, <3>2, OpenHasEntry
  <2> QED
    BY <1>1, <1>2, <1>10, <2>1, <2>2, HeadersKept
<1>14. ParamsOK'
  <2>1. \A j \in Entries : InUse(j)' => InUse(j)
    <3> SUFFICES ASSUME NEW j \in Entries, table'[j].ref_ct # 0 PROVE table[j].ref_ct # 0
      BY DEF InUse
    <3> QED
      BY <1>3, <1>7 DEF InUse
  <2> QED
    BY <1>1, <1>2, <1>8, <2>1, ParamsKept
<1> QED
  BY <1>9, <1>11, <1>12, <1>13, <1>14

(* One reference becomes exclusive access, and nobody else has the file.    *)
LEMMA GainExclusiveStep ==
  ASSUME TypeOK, FileInv, NEW s \in Sessions, GainExclusive(s)
  PROVE  TypeOK' /\ FileInv'
<1> USE DEF FileInv
<1>1. /\ Move(s, dh[s], cache[s], Idle) /\ op[s].kind = "exclusive"
      /\ UNCHANGED <<ufm, event, disk, real, stale>>
  BY EndOp DEF GainExclusive, In
<1>2. PICK f \in Files : f = op[s].file /\ IsOpen(s, f)
  BY <1>1, WorkedOnIsOpen
<1>3. PICK i \in Entries : /\ i = EntryOf(s, f) /\ InUse(i) /\ table[i] \in Entry
                           /\ s \in ufm[i] /\ table[i].file = f
  BY <1>2, OpenEntry
<1>4. /\ table' = [table EXCEPT ![i].ref_ct = -1]
      /\ table[i].ref_ct = 1 /\ dh[s][f].open_count = 1
  BY <1>2, <1>3 DEF GainExclusive, MayHaveAlone
<1> DEFINE k == -1
<1>5. /\ table' \in [Entries -> Entry] /\ table'[i].ref_ct = k
      /\ table'[i].file = table[i].file /\ table'[i].params = table[i].params
      /\ \A j \in Entries : j # i => table'[j] = table[j]
  <2>1. table' = [table EXCEPT ![i].ref_ct = k] /\ k \in Int
    BY <1>4
  <2> HIDE DEF k
  <2> QED
    BY <1>3, <2>1 DEF TypeOK, Entry
<1>6. Abs(k) = 1 /\ Abs(1) = 1 /\ k \in Int /\ k < 0 /\ k >= -1
  <2>1. Abs(1) = 1
    BY DEF Abs
  <2>2. k \in Int /\ k + 1 = 0 /\ k < 0 /\ k >= -1
    OBVIOUS
  <2> HIDE DEF k
  <2>3. Abs(k) = 1
    BY <2>2 DEF Abs
  <2> QED
    BY <2>1, <2>2, <2>3
<1> HIDE DEF k
<1>7. \A j \in Entries : /\ table'[j].file = table[j].file
                         /\ table'[j].params = table[j].params
                         /\ Abs(table'[j].ref_ct) = Abs(table[j].ref_ct)
                         /\ table'[j].ref_ct >= -1
                         /\ table[j].ref_ct < 0 => table'[j].ref_ct < 0
  BY <1>4, <1>5, <1>6 DEF TableOK, RefCountExact
<1>8. TypeOK' /\ SessionsOK'
  BY <1>1, <1>5, MoveSessions DEF TypeOK
<1>9. SameEntries(s, dh[s])
  BY DEF SameEntries
<1>10. TableOK'
  BY <1>1, <1>5, <1>7, <1>9, TableKept
<1>11. ReservedOK'
  <2> SUFFICES ASSUME NEW t \in Sessions, NEW g \in Files,
                      IsOpen(t, g)', table'[EntryOf(t, g)'].ref_ct < 0
               PROVE  /\ dh'[t][g].open_count = 1 /\ g \notin Range(cache'[t])
                      /\ g \notin Pending(op'[t])
    BY DEF ReservedOK
  <2>1. EntryOf(t, g)' = EntryOf(t, g) /\ IsOpen(t, g) /\ EntryOf(t, g) \in Entries
    BY <1>1, <1>9, EntriesAfter, OpenHasEntry
  <2>2. dh'[t] = dh[t] /\ cache'[t] = cache[t] /\ (t # s => op'[t] = op[t]) /\ op'[s] = Idle
    BY <1>1, MoveSessions
  <2>3. CASE EntryOf(t, g) = i
    <3>1. t \in ufm[i] /\ g = f
      BY <1>3, <2>1, <2>3, OpenEntry
    <3>2. t = s
      BY <1>3, <1>4, <1>6, <3>1, Alone DEF Abs
    <3>3. 1 >= One(f \in Range(cache[s])) + One(f \in Pending(op[s])) + One(GoesOn(op[s], f))
      BY <1>4, OwnState DEF SessionOK
    <3>4. GoesOn(op[s], f)
      BY <1>1, <1>2 DEF GoesOn
    <3>5. f \notin Range(cache[s])
      BY <3>3, <3>4 DEF One
    <3> QED
      BY <1>4, <2>2, <3>1, <3>2, <3>5, IdleOK
  <2>4. CASE EntryOf(t, g) # i
    <3>1. table[EntryOf(t, g)].ref_ct < 0
      BY <1>5, <2>1, <2>4
    <3>2. dh[t][g].open_count = 1 /\ g \notin Range(cache[t]) /\ g \notin Pending(op[t])
      BY <2>1, <3>1 DEF ReservedOK
    <3> QED
      BY <2>2, <3>2, IdleOK
  <2> QED
    BY <2>3, <2>4
<1>12. HeadersOK'
  <2>1. HoldsHeader(s, Idle)
    BY IdleOK DEF HoldsHeader
  <2>2. \A t \in Sessions, g \in Files :
          IsOpen(t, g) /\ table[EntryOf(t, g)].ref_ct < 0 /\ (t = s => Idle.kind = "trigger")
            => table'[EntryOf(t, g)].ref_ct < 0
    BY <1>7, OpenHasEntry
  <2> QED
    BY <1>1, <1>9, <2>1, <2>2, HeadersKept
<1>13. ParamsOK'
  <2>1. \A j \in Entries : InUse(j)' => InUse(j)
    <3> SUFFICES ASSUME NEW j \in Entries, table'[j].ref_ct # 0 PROVE table[j].ref_ct # 0
      BY DEF InUse
    <3> QED
      BY <1>4, <1>5
  <2> QED
    BY <1>1, <1>7, <2>1, ParamsKept
<1> QED
  BY <1>8, <1>10, <1>11, <1>12, <1>13

(* An update changes the table and the data together and marks the file.    *)
LEMMA UpdateStep ==
  ASSUME TypeOK, FileInv, NEW s \in Sessions, NEW f \in Files, Update(s, f)
  PROVE  TypeOK' /\ FileInv'
<1> USE DEF FileInv
<1> DEFINE d == [dh[s] EXCEPT ![f].updated = TRUE]
<1>1. /\ Move(s, d, cache[s], Idle) /\ dh[s][f] \in DhFile /\ IsOpen(s, f)
      /\ UNCHANGED <<ufm, event, disk, stale>>
  BY UpdateMove DEF Update
<1>2. /\ d[f].file_id = dh[s][f].file_id /\ d[f].open_count = dh[s][f].open_count
      /\ d[f].updated /\ \A g \in Files : g # f => d[g] = dh[s][g]
  BY <1>1, OwnState DEF DhFile
<1> HIDE DEF d
<1>3. PICK i \in Entries : /\ i = EntryOf(s, f) /\ InUse(i) /\ table[i] \in Entry
                           /\ s \in ufm[i] /\ table[i].file = f /\ i \in Matching(f)
  BY <1>1, OpenEntry
<1> DEFINE n == IF table[i].params = real[f].params THEN table[i].params + 1
                ELSE table[i].params
           m == real[f].params + 1
<1>4. /\ table' = [table EXCEPT ![i].params = n] /\ n \in Nat
      /\ real' = [real EXCEPT ![f].params = m] /\ m \in Nat /\ real[f] \in Header
  BY <1>3 DEF Update, Entry, TypeOK, Header
<1>5. table[i].params = real[f].params => n = m
  OBVIOUS
<1> HIDE DEF n, m
<1>6. /\ table' \in [Entries -> Entry] /\ table'[i].ref_ct = table[i].ref_ct
      /\ table'[i].file = table[i].file /\ table'[i].params = n
      /\ \A j \in Entries : j # i => table'[j] = table[j]
  BY <1>3, <1>4 DEF TypeOK, Entry
<1>7. /\ real' \in [Files -> Header] /\ real'[f].params = m
      /\ real'[f].trigger = real[f].trigger
      /\ \A g \in Files : g # f => real'[g] = real[g]
  BY <1>4 DEF TypeOK, Header
<1>8. \A j \in Entries : /\ table'[j].file = table[j].file
                         /\ table'[j].ref_ct = table[j].ref_ct
                         /\ table'[j].ref_ct >= -1
  BY <1>6 DEF TableOK, RefCountExact
<1>9. TypeOK' /\ SessionsOK'
  BY <1>1, <1>6, <1>7, MoveSessions DEF TypeOK
<1>10. SameEntries(s, d)
  BY <1>2 DEF SameEntries
<1>11. TableOK'
  BY <1>1, <1>6, <1>8, <1>10, TableKept
<1>12. ReservedOK'
  <2>1. LeavesReserved(s, d, cache[s], Idle)
    BY <1>2, IdleOK DEF LeavesReserved
  <2>2. \A t \in Sessions, g \in Files :
          IsOpen(t, g) /\ table'[EntryOf(t, g)].ref_ct < 0 => table[EntryOf(t, g)].ref_ct < 0
    BY <1>8, OpenHasEntry
  <2> QED
    BY <1>1, <1>10, <2>1, <2>2, ReservedKept
<1>13. HeadersOK'
  <2>1. HoldsHeader(s, Idle)
    BY IdleOK DEF HoldsHeader
  <2>2. \A t \in Sessions, g \in Files :
          IsOpen(t, g) /\ table[EntryOf(t, g)].ref_ct < 0 /\ (t = s => Idle.kind = "trigger")
            => table'[EntryOf(t, g)].ref_ct < 0
    BY <1>8, OpenHasEntry
  <2>3. \A g \in Files : disk'[g].trigger = disk[g].trigger
                         /\ real'[g].trigger = real[g].trigger
    BY <1>1, <1>7
  <2> QED
    BY <1>1, <1>10, <2>1, <2>2, <2>3, HeadersKept
<1>14. ParamsOK'
  <2> SUFFICES ASSUME NEW g \in Files, g \notin stale
               PROVE  /\ \A j \in Matching(g)' : table'[j].params = real'[g].params
                      /\ disk'[g].params # real'[g].params =>
                           \E t \in Sessions : dh'[t][g].updated
    BY <1>1 DEF ParamsOK
  <2>1. ASSUME NEW j \in Matching(g)' PROVE j \in Entries /\ j \in Matching(g)
    BY <1>8, <2>1 DEF Matching, InUse
  <2>2. CASE g = f
    <3>1. ASSUME NEW j \in Matching(g)' PROVE table'[j].params = real'[g].params
      <4>1. j = i
        BY <1>3, <2>1, <2>2, <3>1 DEF Matching, TableOK
      <4>2. table[i].params = real[f].params
        BY <1>3, <2>2 DEF ParamsOK
      <4> QED
        BY <1>5, <1>6, <1>7, <2>2, <4>1, <4>2
    <3>2. dh'[s][f].updated
      BY <1>1, <1>2, MoveSessions
    <3> QED
      BY <2>2, <3>1, <3>2
  <2>3. CASE g # f
    <3>1. ASSUME NEW j \in Matching(g)' PROVE table'[j].params = real'[g].params
      <4>1. j # i
        BY <1>3, <2>1, <2>3, <3>1 DEF Matching
      <4> QED
        BY <1>6, <1>7, <2>1, <2>3, <3>1, <4>1 DEF ParamsOK
    <3>2. ASSUME NEW t \in Sessions PROVE dh'[t][g] = dh[t][g]
      <4>1. CASE t = s
        BY <1>1, <1>2, <2>3, <4>1, MoveSessions
      <4>2. CASE t # s
        BY <1>1, <4>2, MoveSessions
      <4> QED
        BY <4>1, <4>2
    <3> QED
      BY <1>1, <1>7, <2>3, <3>1, <3>2 DEF ParamsOK
  <2> QED
    BY <2>2, <2>3
<1> QED
  BY <1>9, <1>11, <1>12, <1>13, <1>14

(* A step that leaves the file table as it is and opens, caches or closes   *)
(* nothing: it remains to look at the headers.                              *)
LEMMA DiskStep ==
  ASSUME TypeOK, FileInv, NEW s \in Sessions, NEW d, NEW o, Move(s, d, cache[s], o),
         SameEntries(s, d), \A f \in Files : d[f].open_count = dh[s][f].open_count,
         Pending(o) \subseteq Pending(op[s]), UNCHANGED <<table, ufm, event>>,
         disk' \in [Files -> Header], real' \in [Files -> Header], stale' \in SUBSET Files,
         HeadersOK', ParamsOK'
  PROVE  TypeOK' /\ FileInv'
<1> USE DEF FileInv
<1>1. TypeOK' /\ SessionsOK'
  BY MoveSessions DEF TypeOK
<1>2. TableOK'
  BY TableKept DEF TypeOK, TableOK, RefCountExact
<1>3. LeavesReserved(s, d, cache[s], o)
  BY DEF LeavesReserved
<1>4. ReservedOK'
  BY <1>3, ReservedKept
<1> QED
  BY <1>1, <1>2, <1>4

(* A header written that was overtaken marks its file.                      *)
LEMMA OvertakenMarks ==
  ASSUME TypeOK, NEW f \in Files, NEW h, NEW now
  PROVE  /\ Overtaken(h, now, f) \in SUBSET Files
         /\ stale \subseteq Overtaken(h, now, f)
         /\ f \notin Overtaken(h, now, f) => h = now
BY DEF TypeOK, Overtaken

(* The header a session holds.                                              *)
LEMMA HeldHeader ==
  ASSUME TypeOK, SessionsOK, NEW s \in Sessions,
         op[s].kind \in {"flush", "index", "trigger"} \/ op[s].hdr # <<>>
  PROVE  op[s].hdr # <<>> /\ op[s].hdr[1] \in Header
<1>1. op[s].hdr \in Seq(Header) /\ SessionOK(dh[s], cache[s], op[s])
  BY OwnState
<1>2. op[s].hdr # <<>>
  <2>1. op[s].kind \in {"flush", "index", "trigger"} => Len(op[s].hdr) = 1
    BY <1>1 DEF SessionOK, OpOK
  <2> SUFFICES ASSUME op[s].hdr = <<>> PROVE FALSE
    OBVIOUS
  <2>2. Len(op[s].hdr) = 1
    BY <2>1
  <2> DEFINE none == <<>>
  <2>3. Len(none) = 0 /\ op[s].hdr = none
    OBVIOUS
  <2> HIDE DEF none
  <2>4. Len(op[s].hdr) = 0
    BY <2>3
  <2> QED
    BY <2>2, <2>4
<1>3. 1 \in 1 .. Len(op[s].hdr)
  BY <1>1, <1>2, EmptySeq, LenProperties
<1> QED
  BY <1>1, <1>2, <1>3, ElementOfSeq

(* A header written keeps the trigger, and the parameters or a mark.        *)
LEMMA WriteHeaderStep ==
  ASSUME TypeOK, FileInv, NEW s \in Sessions, WriteHeader(s)
  PROVE  TypeOK' /\ FileInv'
<1> USE DEF FileInv
<1>1. /\ op[s].kind \in {"close", "flush"} /\ op[s].hdr # <<>>
      /\ UNCHANGED <<table, ufm, event, real>>
  BY DEF WriteHeader
<1>2. PICK f \in Files : f = op[s].file /\ IsOpen(s, f)
  BY <1>1, WorkedOnIsOpen
<1> DEFINE d == [dh[s] EXCEPT ![f].updated = FALSE]
           h == op[s].hdr[1]
<1>3. PICK o : /\ Move(s, d, cache[s], o)
               /\ o.kind \in {"idle", "close"}
               /\ o.kind = "close" => o.hdr = <<>>
               /\ Pending(o) = Pending(op[s])
  BY <1>2, WriteHeaderMove
<1>4. /\ h \in Header /\ h.trigger = disk[f].trigger
      /\ disk' = [disk EXCEPT ![f] = h] /\ stale' = Overtaken(h, Flushed(s, f), f)
  BY <1>1, <1>2, HeldHeader DEF WriteHeader, HeadersOK, HoldsHeader
<1>5. /\ \A g \in Files : /\ d[g].file_id = dh[s][g].file_id
                          /\ d[g].open_count = dh[s][g].open_count
                          /\ g # f => d[g] = dh[s][g]
  <2>1. dh[s][f] \in DhFile /\ dh[s] \in [Files -> DhFile \cup {NoDh}]
    BY <1>2, OpenHasEntry, OwnState
  <2> QED
    BY <2>1 DEF DhFile
<1> HIDE DEF d, h
<1>6. SameEntries(s, d)
  BY <1>5 DEF SameEntries
<1>7. /\ stale' \in SUBSET Files /\ stale \subseteq stale'
      /\ f \notin stale' => h = Flushed(s, f)
  BY <1>4, OvertakenMarks
<1>8. /\ disk' \in [Files -> Header] /\ disk'[f] = h
      /\ \A g \in Files : g # f => disk'[g] = disk[g]
  BY <1>4 DEF TypeOK
<1>9. HeadersOK'
  <2>1. HoldsHeader(s, o)
    BY <1>3 DEF HoldsHeader
  <2>2. \A g \in Files : disk'[g].trigger = disk[g].trigger
                         /\ real'[g].trigger = real[g].trigger
    BY <1>1, <1>4, <1>8
  <2>3. \A t \in Sessions, g \in Files :
          IsOpen(t, g) /\ table[EntryOf(t, g)].ref_ct < 0 /\ (t = s => o.kind = "trigger")
            => table'[EntryOf(t, g)].ref_ct < 0
    BY <1>1
  <2> QED
    BY <1>3, <1>6, <2>1, <2>2, <2>3, HeadersKept
<1>10. ParamsOK'
  <2> SUFFICES ASSUME NEW g \in Files, g \notin stale'
               PROVE  /\ \A i \in Matching(g)' : table'[i].params = real'[g].params
                      /\ disk'[g].params # real'[g].params =>
                           \E t \in Sessions : dh'[t][g].updated
    BY DEF ParamsOK
  <2>1. Matching(g)' = Matching(g)
    BY <1>1 DEF Matching, InUse
  <2>2. /\ \A i \in Matching(g) : table[i].params = real[g].params
        /\ disk[g].params # real[g].params => \E t \in Sessions : dh[t][g].updated
    BY <1>7 DEF ParamsOK
  <2>3. CASE g = f
    <3>1. disk'[f].params = table[EntryOf(s, f)].params
      BY <1>2, <1>7, <1>8, <2>3, FlushedHeader
    <3>2. EntryOf(s, f) \in Matching(f)
      BY <1>2, OpenEntry
    <3> QED
      BY <1>1, <2>1, <2>2, <2>3, <3>1, <3>2
  <2>4. CASE g # f
    <3>1. \A t \in Sessions : dh'[t][g] = dh[t][g]
      BY <1>3, <1>5, <2>4, MoveSessions
    <3> QED
      BY <1>1, <1>8, <2>1, <2>2, <2>4, <3>1
  <2> QED
    BY <2>3, <2>4
<1>11. real' \in [Files -> Header]
  BY <1>1 DEF TypeOK
<1> QED
  BY <1>1, <1>3, <1>5, <1>6, <1>7, <1>8, <1>9, <1>10, <1>11, DiskStep

(* create_ak writes the trigger back as it read it.                         *)
LEMMA WriteIndexStep ==
  ASSUME TypeOK, FileInv, NEW s \in Sessions, WriteIndex(s)
  PROVE  TypeOK' /\ FileInv'
<1> USE DEF FileInv
<1>1. /\ op[s].kind = "index" /\ UNCHANGED <<table, ufm, dh, cache, event>>
      /\ Move(s, dh[s], cache[s], Idle)
  BY EndOp DEF WriteIndex, In
<1>2. PICK f \in Files : f = op[s].file /\ IsOpen(s, f)
  BY <1>1, WorkedOnIsOpen
<1> DEFINE h == op[s].hdr[1]
           now == [disk[f] EXCEPT !.ak_map = @ + 1]
           r == [real[f] EXCEPT !.ak_map = @ + 1]
<1>3. /\ h \in Header /\ h.trigger = disk[f].trigger
      /\ disk' = [disk EXCEPT ![f] = h] /\ real' = [real EXCEPT ![f] = r]
      /\ stale' = Overtaken(h, now, f)
  BY <1>1, <1>2, HeldHeader DEF WriteIndex, HeadersOK, HoldsHeader
<1>4. /\ r \in Header /\ r.trigger = real[f].trigger /\ r.params = real[f].params
      /\ now.params = disk[f].params
  <2>1. real[f] \in Header /\ disk[f] \in Header
    BY DEF TypeOK
  <2> QED
    BY <2>1 DEF Header
<1> HIDE DEF h, now, r
<1>5. /\ stale' \in SUBSET Files /\ stale \subseteq stale' /\ (f \notin stale' => h = now)
  BY <1>3, OvertakenMarks
<1>6. /\ disk' \in [Files -> Header] /\ real' \in [Files -> Header]
      /\ disk'[f] = h /\ real'[f] = r
      /\ \A g \in Files : g # f => disk'[g] = disk[g] /\ real'[g] = real[g]
  BY <1>3, <1>4 DEF TypeOK
<1>7. SameEntries(s, dh[s])
  BY DEF SameEntries
<1>8. HeadersOK'
  <2>1. HoldsHeader(s, Idle)
    BY IdleOK DEF HoldsHeader
  <2>2. \A g \in Files : disk'[g].trigger = disk[g].trigger
                         /\ real'[g].trigger = real[g].trigger
    BY <1>3, <1>4, <1>6
  <2>3. \A t \in Sessions, g \in Files :
          IsOpen(t, g) /\ table[EntryOf(t, g)].ref_ct < 0 /\ (t = s => Idle.kind = "trigger")
            => table'[EntryOf(t, g)].ref_ct < 0
    BY <1>1
  <2> QED
    BY <1>1, <1>7, <2>1, <2>2, <2>3, HeadersKept
<1>9. ParamsOK'
  <2>1. \A g \in Files \ stale' : disk'[g].params = disk[g].params
                                  /\ real'[g].params = real[g].params
    BY <1>4, <1>5, <1>6
  <2>2. \A i \in Entries : InUse(i)' => InUse(i)
    BY <1>1 DEF InUse
  <2> QED
    BY <1>1, <1>5, <2>1, <2>2, ParamsKept
<1>10. Pending(Idle) = {}
  BY IdleOK
<1> QED
  BY <1>1, <1>5, <1>6, <1>7, <1>8, <1>9, <1>10, DiskStep

(* op_settrig writes when nobody else has the file open.                    *)
LEMMA WriteTriggerStep ==
  ASSUME TypeOK, FileInv, NEW s \in Sessions, WriteTrigger(s)
  PROVE  TypeOK' /\ FileInv'
<1> USE DEF FileInv
<1>1. /\ op[s].kind = "trigger" /\ UNCHANGED <<table, ufm, dh, cache, event>>
      /\ Move(s, dh[s], cache[s], Idle)
  BY EndOp DEF WriteTrigger, In
<1>2. PICK f \in Files : f = op[s].file /\ IsOpen(s, f)
  BY <1>1, WorkedOnIsOpen
<1> DEFINE h == op[s].hdr[1]
           now == [disk[f] EXCEPT !.trigger = @ + 1]
           r == [real[f] EXCEPT !.trigger = @ + 1]
<1>3. /\ h \in Header /\ h.trigger = disk[f].trigger + 1
      /\ table[EntryOf(s, f)].ref_ct < 0
      /\ disk' = [disk EXCEPT ![f] = h] /\ real' = [real EXCEPT ![f] = r]
      /\ stale' = Overtaken(h, now, f)
  BY <1>1, <1>2, HeldHeader DEF WriteTrigger, HeadersOK, HoldsHeader
<1>4. /\ r \in Header /\ r.trigger = real[f].trigger + 1 /\ r.params = real[f].params
      /\ now.params = disk[f].params
  <2>1. real[f] \in Header /\ disk[f] \in Header
    BY DEF TypeOK
  <2> QED
    BY <2>1 DEF Header
<1> HIDE DEF h, now, r
<1>5. /\ stale' \in SUBSET Files /\ stale \subseteq stale' /\ (f \notin stale' => h = now)
  BY <1>3, OvertakenMarks
<1>6. /\ disk' \in [Files -> Header] /\ real' \in [Files -> Header]
      /\ disk'[f] = h /\ real'[f] = r
      /\ \A g \in Files : g # f => disk'[g] = disk[g] /\ real'[g] = real[g]
  BY <1>3, <1>4 DEF TypeOK
<1>7. SameEntries(s, dh[s])
  BY DEF SameEntries
<1>8. HeadersOK'
  <2>1. TriggerKept'
    BY <1>3, <1>4, <1>6 DEF HeadersOK, TriggerKept
  <2>2. ASSUME NEW t \in Sessions PROVE HoldsHeader(t, op[t])'
    <3>1. CASE t = s
      <4>1. op'[t] = Idle
        BY <1>1, <3>1, MoveSessions
      <4> QED
        BY <4>1, IdleOK DEF HoldsHeader
    <3>2. CASE t # s
      <4>1. op'[t] = op[t] /\ HoldsHeader(t, op[t])
        BY <1>1, <3>2, MoveSessions DEF HeadersOK
      <4>2. CASE op[t].kind \in {"close", "flush", "index", "trigger"}
        <5>1. op[t].file \in Files /\ IsOpen(t, op[t].file)
          BY <4>2, WorkedOnIsOpen
        <5>2. op[t].file # f
          <6> SUFFICES ASSUME op[t].file = f PROVE FALSE
            OBVIOUS
          <6>1. IsOpen(t, f)
            BY <5>1
          <6>2. EntryOf(t, f) = EntryOf(s, f)
            BY <1>2, <6>1, OpenEntry DEF TableOK
          <6> QED
            BY <1>2, <1>3, <3>2, <6>1, <6>2, ReservedAlone
        <5> QED
          BY <1>1, <1>6, <4>1, <5>1, <5>2 DEF HoldsHeader, EntryOf
      <4>3. CASE op[t].kind \notin {"close", "flush", "index", "trigger"}
        BY <4>1, <4>3 DEF HoldsHeader
      <4> QED
        BY <4>2, <4>3
    <3> QED
      BY <3>1, <3>2
  <2> QED
    BY <2>1, <2>2 DEF HeadersOK
<1>9. ParamsOK'
  <2>1. \A g \in Files \ stale' : disk'[g].params = disk[g].params
                                  /\ real'[g].params = real[g].params
    BY <1>4, <1>5, <1>6
  <2>2. \A i \in Entries : InUse(i)' => InUse(i)
    BY <1>1 DEF InUse
  <2> QED
    BY <1>1, <1>5, <2>1, <2>2, ParamsKept
<1>10. Pending(Idle) = {}
  BY IdleOK
<1> QED
  BY <1>1, <1>5, <1>6, <1>7, <1>8, <1>9, <1>10, DiskStep

-----------------------------------------------------------------------------
(* Steps that change the file maps.                                         *)

(* The last reference of the session: it leaves the entry.                  *)
LEMMA ReleaseLastStep ==
  ASSUME TypeOK, FileInv, NEW s \in Sessions, Release(s),
         ~(dh[s][op[s].file].open_count > 1)
  PROVE  TypeOK' /\ FileInv'
<1> USE DEF FileInv
<1> DEFINE d == ReleasedDh(s)
<1>0. op[s].kind = "close" /\ op[s].hdr = <<>>
  BY DEF Release, In
<1>1. PICK f \in Files : f = op[s].file /\ IsOpen(s, f) /\ f \in Pending(op[s])
  BY <1>0, WorkedOnIsOpen DEF Pending
<1>2. PICK i \in Entries : /\ i = EntryOf(s, f) /\ InUse(i) /\ table[i] \in Entry
                           /\ s \in ufm[i] /\ table[i].file = f
                           /\ Abs(table[i].ref_ct) = Cardinality(ufm[i])
  BY <1>1, OpenEntry
<1>3. PICK o : /\ Move(s, d, cache[s], o)
               /\ o.kind \in {"idle", "exclusive", "close"}
               /\ Pending(o) = Pending(op[s]) \ {op[s].file}
               /\ o.kind = "close" => o.file \in Pending(op[s]) \ {op[s].file}
               /\ o.kind = "close" /\ o.hdr # <<>> => o.hdr[1] = Flushed(s, o.file)
  BY ReleaseMove
<1>4. /\ d[f] = NoDh /\ \A g \in Files : g # f => d[g] = dh[s][g]
      /\ ~dh[s][f].updated
  BY <1>0, <1>1, OwnState DEF ReleasedDh, SessionOK
<1> HIDE DEF d
<1> DEFINE m == table[i].ref_ct - 1
<1>5. /\ table' = [table EXCEPT ![i].ref_ct = m] /\ ufm' = [ufm EXCEPT ![i] = @ \ {s}]
      /\ UNCHANGED <<event, disk, real, stale>>
  BY <1>1, <1>2 DEF Release
<1>6. table[i].ref_ct \in Int /\ table[i].ref_ct > 0 /\ m \in Int
  <2>1. ~(table[i].ref_ct < 0)
    BY <1>1, <1>2 DEF ReservedOK
  <2> QED
    BY <1>2, <2>1 DEF InUse, Entry
<1>7. Abs(m) = Cardinality(ufm[i] \ {s}) /\ m >= 0
  <2>1. IsFiniteSet(ufm[i])
    BY OpenFilesConstants, FS_Subset DEF TypeOK
  <2>2. Cardinality(ufm[i] \ {s}) = Cardinality(ufm[i]) - 1
    BY <1>2, <2>1, FS_RemoveElement
  <2> QED
    BY <1>2, <1>6, <2>2 DEF Abs
<1> HIDE DEF m
<1>8. /\ table' \in [Entries -> Entry] /\ table'[i].ref_ct = m
      /\ table'[i].file = f /\ table'[i].params = table[i].params
      /\ \A j \in Entries : j # i => table'[j] = table[j]
      /\ ufm' \in [Entries -> SUBSET Sessions] /\ ufm'[i] = ufm[i] \ {s}
      /\ \A j \in Entries : j # i => ufm'[j] = ufm[j]
  BY <1>2, <1>5, <1>6 DEF TypeOK, Entry
<1>9. TypeOK' /\ SessionsOK'
  BY <1>3, <1>5, <1>8, MoveSessions DEF TypeOK
<1>10. /\ dh'[s] = d /\ op'[s] = o /\ cache'[s] = cache[s] /\ life' = life
       /\ \A t \in Sessions : t # s => dh'[t] = dh[t] /\ cache'[t] = cache[t] /\ op'[t] = op[t]
  <2>1. life' = life
    BY <1>3 DEF Move
  <2> QED
    BY <2>1, <1>3, MoveSessions
(* Every other DH_FILE is as it was, and of another entry or session.       *)
<1>11. ASSUME NEW t \in Sessions, NEW g \in Files, IsOpen(t, g)'
       PROVE  /\ dh'[t][g] = dh[t][g] /\ IsOpen(t, g) /\ EntryOf(t, g) \in Entries
              /\ EntryOf(t, g)' = EntryOf(t, g)
              /\ t # s \/ (EntryOf(t, g) # i /\ g # f)
              /\ table'[EntryOf(t, g)].file = g /\ t \in ufm'[EntryOf(t, g)]
              /\ table'[EntryOf(t, g)].ref_ct < 0 =>
                   EntryOf(t, g) # i /\ table[EntryOf(t, g)].ref_ct < 0
  <2>1. t # s \/ g # f
    BY <1>4, <1>10, <1>11 DEF IsOpen
  <2>2. dh'[t][g] = dh[t][g]
    BY <1>4, <1>10, <2>1
  <2>3. IsOpen(t, g) /\ EntryOf(t, g)' = EntryOf(t, g)
    BY <1>11, <2>2 DEF IsOpen, EntryOf
  <2>4. EntryOf(t, g) \in Entries /\ t \in ufm[EntryOf(t, g)] /\ table[EntryOf(t, g)].file = g
    BY <2>3, OpenEntry
  <2>5. EntryOf(t, g) = i => g = f
    BY <1>2, <2>4
  <2>6. t # s \/ EntryOf(t, g) # i
    BY <2>1, <2>5
  <2>7. ~(m < 0)
    BY <1>6, <1>7 DEF m
  <2>8. CASE EntryOf(t, g) = i
    <3>1. t # s /\ table'[EntryOf(t, g)].file = g /\ t \in ufm'[EntryOf(t, g)]
      BY <1>8, <2>4, <2>5, <2>6, <2>8
    <3>2. ~(table'[EntryOf(t, g)].ref_ct < 0)
      BY <1>8, <2>7, <2>8
    <3> QED
      BY <2>2, <2>3, <2>4, <3>1, <3>2
  <2>9. CASE EntryOf(t, g) # i
    <3>1. /\ table'[EntryOf(t, g)] = table[EntryOf(t, g)]
          /\ ufm'[EntryOf(t, g)] = ufm[EntryOf(t, g)]
      BY <1>8, <2>4, <2>9
    <3> QED
      BY <2>1, <2>2, <2>3, <2>4, <2>9, <3>1
  <2> QED
    BY <2>8, <2>9
<1>12. \A j \in Entries : InUse(j)' => InUse(j) /\ table'[j].file = table[j].file
                                        /\ table'[j].params = table[j].params
  BY <1>2, <1>8 DEF InUse
<1>13. TableOK'
  <2>1. RefCountExact'
    <3> SUFFICES ASSUME NEW j \in Entries
                 PROVE  Abs(table'[j].ref_ct) = Cardinality(ufm'[j]) /\ table'[j].ref_ct >= -1
      BY DEF RefCountExact
    <3>1. CASE j = i
      <4>1. m >= -1
        BY <1>6, <1>7 DEF m
      <4> QED
        BY <1>7, <1>8, <3>1, <4>1
    <3>2. CASE j # i
      BY <1>8, <3>2 DEF TableOK, RefCountExact
    <3> QED
      BY <3>1, <3>2
  <2>2. \A j, k \in Entries : InUse(j)' /\ InUse(k)' /\ table'[j].file = table'[k].file => j = k
    BY <1>12 DEF TableOK
  <2>3. \A j \in Entries : InUse(j)' => table'[j].file \in Files
    BY <1>12 DEF TableOK
  <2>4. \A t \in Sessions, g \in Files : IsOpen(t, g)' =>
          t \in ufm'[EntryOf(t, g)'] /\ table'[EntryOf(t, g)'].file = g
    BY <1>11
  <2>5. ASSUME NEW t \in Sessions, NEW j \in Entries, t \in ufm'[j], life'[t] # "dead"
        PROVE  HasOrLost(t, j)'
    <3>1. t \in ufm[j] /\ (t # s \/ j # i)
      BY <1>8, <2>5
    <3>2. CASE table[j].ref_ct < 0
      <4>1. table'[j].ref_ct < 0
        BY <1>6, <1>8, <3>2
      <4> QED
        BY <4>1 DEF HasOrLost
    <3>3. CASE ~(table[j].ref_ct < 0)
      <4>1. PICK g \in Files : EntryOf(t, g) = j
        BY <1>10, <2>5, <3>1, <3>3 DEF TableOK, HasOrLost
      <4>2. t # s \/ g # f
        BY <1>2, <3>1, <4>1
      <4>3. dh'[t][g] = dh[t][g]
        BY <1>4, <1>10, <4>2
      <4>4. EntryOf(t, g)' = j
        BY <4>1, <4>3 DEF EntryOf
      <4> QED
        BY <4>4 DEF HasOrLost
    <3> QED
      BY <3>2, <3>3
  <2> QED
    BY <2>1, <2>2, <2>3, <2>4, <2>5 DEF TableOK
<1>14. ReservedOK'
  <2> SUFFICES ASSUME NEW t \in Sessions, NEW g \in Files,
                      IsOpen(t, g)', table'[EntryOf(t, g)'].ref_ct < 0
               PROVE  /\ dh'[t][g].open_count = 1 /\ g \notin Range(cache'[t])
                      /\ g \notin Pending(op'[t])
    BY DEF ReservedOK
  <2>1. dh'[t][g] = dh[t][g] /\ IsOpen(t, g) /\ table[EntryOf(t, g)].ref_ct < 0
    BY <1>11
  <2>2. dh[t][g].open_count = 1 /\ g \notin Range(cache[t]) /\ g \notin Pending(op[t])
    BY <2>1 DEF ReservedOK
  <2> QED
    BY <1>3, <1>10, <2>1, <2>2
<1>15. HeadersOK'
  <2>1. TriggerKept'
    BY <1>5 DEF HeadersOK, TriggerKept
  <2>2. ASSUME NEW t \in Sessions PROVE HoldsHeader(t, op[t])'
    <3>1. CASE t = s
      <4>1. o.kind = "close" => o.file \in Files /\ IsOpen(s, o.file)
        <5>1. Pending(op[s]) \subseteq Files
          BY <1>0, <1>1, OwnState, RangeOfSeq DEF Pending
        <5> QED
          BY <1>3, <5>1, WorkedOnIsOpen
      <4>2. HoldsHeader(s, o)
        BY <1>3, <4>1, ClosingHolds
      <4> QED
        BY <1>3, <1>5, <1>10, <3>1, <4>2 DEF HoldsHeader
    <3>2. CASE t # s
      <4>1. op'[t] = op[t] /\ HoldsHeader(t, op[t])
        BY <1>10, <3>2 DEF HeadersOK
      <4>2. ASSUME op[t].kind = "trigger" PROVE table'[EntryOf(t, op[t].file)].ref_ct < 0
        <5>1. PICK g \in Files : g = op[t].file /\ IsOpen(t, g)
          BY <4>2, WorkedOnIsOpen
        <5>2. table[EntryOf(t, g)].ref_ct < 0 /\ EntryOf(t, g) \in Entries
          BY <4>1, <4>2, <5>1, OpenHasEntry DEF HoldsHeader
        <5>3. EntryOf(t, g) # i
          BY <1>6, <5>2
        <5> QED
          BY <1>8, <5>1, <5>2, <5>3
      <4>3. EntryOf(t, op[t].file)' = EntryOf(t, op[t].file)
        BY <1>10, <3>2, <4>1 DEF EntryOf
      <4> QED
        BY <1>5, <1>10, <3>2, <4>1, <4>2 DEF HoldsHeader, EntryOf
    <3> QED
      BY <3>1, <3>2
  <2> QED
    BY <2>1, <2>2 DEF HeadersOK
<1>16. ParamsOK'
  <2>1. \A g \in Files : dh[s][g].updated => d[g].updated
    BY <1>4
  <2> QED
    BY <1>3, <1>5, <1>12, <2>1, ParamsKept
<1> QED
  BY <1>9, <1>13, <1>14, <1>15, <1>16

(* A session that is going to open a file has no reference to it.           *)
LEMMA OpeningIsNew ==
  ASSUME TypeOK, FileInv, NEW s \in Sessions, In(s, "open")
  PROVE  /\ op[s].file \in Files /\ ~IsOpen(s, op[s].file)
         /\ op[s].file \notin Range(cache[s])
         /\ op[s].hdr # <<>> /\ op[s].hdr[1] \in Header
         /\ \A i \in Entries : table[i].file = op[s].file /\ ~(table[i].ref_ct < 0) =>
              s \notin ufm[i]
<1> USE DEF FileInv
<1>1. SessionOK(dh[s], cache[s], op[s]) /\ op[s].kind = "open" /\ life[s] = "live"
      /\ op[s].hdr \in Seq(Header)
  BY OwnState DEF In
<1>2. op[s].file \in Files /\ ~IsOpen(s, op[s].file) /\ Len(op[s].hdr) = 1
  BY <1>1 DEF SessionOK, OpOK, IsOpen
<1>3. op[s].file \notin Range(cache[s])
  BY <1>2, CachedIsOpen
<1>4. op[s].hdr # <<>> /\ op[s].hdr[1] \in Header
  <2>1. 1 \in 1 .. Len(op[s].hdr)
    BY <1>2
  <2>2. op[s].hdr[1] \in Header
    BY <1>1, <2>1, ElementOfSeq
  <2> SUFFICES ASSUME op[s].hdr = <<>> PROVE FALSE
    BY <2>2
  <2> DEFINE none == <<>>
  <2>3. Len(none) = 0 /\ op[s].hdr = none
    OBVIOUS
  <2> HIDE DEF none
  <2>4. Len(op[s].hdr) = 0
    BY <2>3
  <2> QED
    BY <1>2, <2>4
<1>5. ASSUME NEW i \in Entries, table[i].file = op[s].file, ~(table[i].ref_ct < 0),
             s \in ufm[i]
      PROVE  FALSE
  <2>1. PICK g \in Files : EntryOf(s, g) = i
    BY <1>1, <1>5 DEF TableOK, HasOrLost
  <2>2. IsOpen(s, g)
    BY <2>1, OpenHasEntry
  <2>3. g = op[s].file
    BY <1>5, <2>1, <2>2, OpenEntry
  <2> QED
    BY <1>2, <2>2, <2>3
<1> QED
  BY <1>2, <1>3, <1>4, <1>5

(* What the session becomes: its new DH_FILE is of entry i.                 *)
NewlyOpened(s, f, i, d, q, o) ==
  /\ Move(s, d, q, o)
  /\ d[f].file_id = i /\ ~d[f].updated
  /\ \A g \in Files : g # f => d[g] = dh[s][g]
  /\ Range(q) \subseteq Range(cache[s]) \cup {f}
  /\ ClosesCached(s, o)

(* It does become that.                                                     *)
LEMMA OpenedMove ==
  ASSUME TypeOK, FileInv, NEW s \in Sessions, In(s, "open"), NEW i \in Entries,
         Opened(s, i)
  PROVE  \E d, q, o : NewlyOpened(s, op[s].file, i, d, q, o)
<1> USE DEF FileInv
<1>1. PICK f \in Files : f = op[s].file
  BY OpeningIsNew
<1>2. /\ ~IsOpen(s, f) /\ f \notin Range(cache[s])
      /\ life[s] = "live" /\ op[s].kind \in {"idle", "open"}
  BY <1>1, OpeningIsNew DEF In
<1> DEFINE new == [file_id |-> i, open_count |-> 1, updated |-> FALSE]
           d0 == [dh[s] EXCEPT ![f] = new]
<1>3. /\ dh[s] \in [Files -> DhFile \cup {NoDh}] /\ dh[s][f].open_count = 0
  BY <1>2, OwnState, OpenHasEntry
<1>4. PICK voc \in BOOLEAN : voc = op[s].voc
  BY OwnState
<1>5. /\ new \in DhFile /\ new.file_id = i /\ new.open_count = 1 /\ ~new.updated
  BY DEF DhFile
<1>6. UNCHANGED life /\ IntoCache(s, f, voc, d0)
  BY <1>1, <1>4 DEF Opened
<1> HIDE DEF new
<1>7. /\ d0 \in [Files -> DhFile \cup {NoDh}] /\ d0[f] = new
      /\ \A g \in Files : g # f => d0[g] = dh[s][g]
  BY <1>3, <1>5
<1> HIDE DEF d0
<1>8. OneMore(s, f, d0)
  BY <1>2, <1>3, <1>5, <1>6, <1>7 DEF OneMore
<1>9. PICK d, q, o : OpenedAs(s, f, d0, d, q, o)
  BY <1>6, <1>8, IntoCacheMove
<1>10. NewlyOpened(s, f, i, d, q, o)
  BY <1>5, <1>7, <1>9 DEF OpenedAs, NewlyOpened
<1> QED
  BY <1>1, <1>10

(* A session opens its file through entry i, which is the only one of the   *)
(* file, in use and not under exclusive access, or was free.                *)
LEMMA OpenedStep ==
  ASSUME TypeOK, FileInv, NEW s \in Sessions, In(s, "open"), NEW i \in Entries, Opened(s, i),
         table' \in [Entries -> Entry], table'[i].file = op[s].file,
         table'[i].ref_ct = table[i].ref_ct + 1, table[i].ref_ct >= 0,
         \A j \in Entries : j # i => table'[j] = table[j],
         \A j \in Entries : InUse(j) => (j = i <=> table[j].file = op[s].file),
         stale' \in SUBSET Files, stale \subseteq stale',
         \A g \in Files \ stale' : \A j \in Matching(g)' : table'[j].params = real[g].params
  PROVE  TypeOK' /\ FileInv'
<1> USE DEF FileInv
<1>1. /\ op[s].file \in Files /\ ~IsOpen(s, op[s].file)
      /\ op[s].file \notin Range(cache[s])
      /\ life[s] = "live" /\ op[s].kind = "open"
  BY OpeningIsNew DEF In
<1>2. PICK f \in Files : f = op[s].file
  BY <1>1
<1>3. dh[s][f] = NoDh /\ ~dh[s][f].updated
  BY <1>1, <1>2 DEF IsOpen, NoDh
<1>5. ufm' = [ufm EXCEPT ![i] = @ \cup {s}] /\ UNCHANGED <<event, life, disk, real>>
  BY DEF Opened
<1>8. PICK d, q, o : NewlyOpened(s, f, i, d, q, o)
  BY <1>2, OpenedMove
<1>9. /\ Move(s, d, q, o) /\ Range(q) \subseteq Range(cache[s]) \cup {f}
      /\ ClosesCached(s, o)
      /\ d[f].file_id = i /\ ~d[f].updated /\ \A g \in Files : g # f => d[g] = dh[s][g]
  BY <1>8 DEF NewlyOpened
<1>10. /\ dh'[s] = d /\ op'[s] = o /\ cache'[s] = q /\ life' = life
       /\ \A t \in Sessions : t # s => dh'[t] = dh[t] /\ cache'[t] = cache[t] /\ op'[t] = op[t]
  BY <1>9, MoveSessions DEF Move
<1>11. /\ ufm' \in [Entries -> SUBSET Sessions] /\ ufm'[i] = ufm[i] \cup {s}
       /\ \A j \in Entries : j # i => ufm'[j] = ufm[j]
       /\ \A j \in Entries : ufm[j] \subseteq ufm'[j]
  BY <1>5 DEF TypeOK
<1>12. TypeOK' /\ SessionsOK'
  BY <1>5, <1>9, <1>11, MoveSessions DEF TypeOK
(* An entry that counts a session is in use.                                *)
<1>13. ASSUME NEW j \in Entries, NEW t \in ufm[j] PROVE InUse(j)
  <2>1. IsFiniteSet(ufm[j])
    BY OpenFilesConstants, FS_Subset DEF TypeOK
  <2>2. Cardinality(ufm[j]) # 0
    BY <2>1, FS_EmptySet
  <2>3. Abs(table[j].ref_ct) = Cardinality(ufm[j]) /\ table[j].ref_ct \in Int
    BY DEF TableOK, RefCountExact, TypeOK, Entry
  <2> QED
    BY <2>2, <2>3 DEF InUse, Abs
<1>14. s \notin ufm[i]
  <2>1. ~(table[i].ref_ct < 0)
    BY DEF TypeOK, Entry
  <2> QED
    BY <1>13, <2>1, OpeningIsNew
<1>15. /\ table[i].ref_ct \in Int /\ table'[i].ref_ct > 0 /\ InUse(i)'
       /\ \A j \in Entries : InUse(j) => InUse(j)'
       /\ \A j \in Entries : InUse(j)' /\ j # i => InUse(j)
  <2>1. table[i].ref_ct \in Int
    BY DEF TypeOK, Entry
  <2> QED
    BY <2>1 DEF InUse
(* Other DH_FILEs are as they were and of another entry or session.         *)
<1>16. ASSUME NEW t \in Sessions, NEW g \in Files, t # s \/ g # f
       PROVE  dh'[t][g] = dh[t][g] /\ EntryOf(t, g)' = EntryOf(t, g)
              /\ (IsOpen(t, g)' <=> IsOpen(t, g))
  BY <1>9, <1>10, <1>16 DEF EntryOf, IsOpen
<1>17. EntryOf(s, f)' = i
  BY <1>9, <1>10 DEF EntryOf
<1>18. ASSUME NEW t \in Sessions, NEW g \in Files, IsOpen(t, g)
       PROVE  /\ EntryOf(t, g) \in Entries /\ t \in ufm'[EntryOf(t, g)]
              /\ table'[EntryOf(t, g)].file = g
              /\ table'[EntryOf(t, g)].ref_ct < 0 =>
                   EntryOf(t, g) # i /\ table[EntryOf(t, g)].ref_ct < 0
              /\ table[EntryOf(t, g)].ref_ct < 0 => table'[EntryOf(t, g)].ref_ct < 0
  <2>1. EntryOf(t, g) \in Entries /\ t \in ufm[EntryOf(t, g)] /\ InUse(EntryOf(t, g))
        /\ table[EntryOf(t, g)].file = g
    BY <1>18, OpenEntry
  <2>2. CASE EntryOf(t, g) = i
    <3>1. ~(table[i].ref_ct < 0) /\ ~(table'[i].ref_ct < 0)
      BY <1>15
    <3> QED
      BY <1>11, <2>1, <2>2, <3>1
  <2>3. CASE EntryOf(t, g) # i
    <3>1. table'[EntryOf(t, g)] = table[EntryOf(t, g)]
      BY <2>1, <2>3
    <3> QED
      BY <1>11, <2>1, <2>3, <3>1
  <2> QED
    BY <2>2, <2>3
<1>19. TableOK'
  <2>1. RefCountExact'
    <3> SUFFICES ASSUME NEW j \in Entries
                 PROVE  Abs(table'[j].ref_ct) = Cardinality(ufm'[j]) /\ table'[j].ref_ct >= -1
      BY DEF RefCountExact
    <3>1. CASE j = i
      <4>1. IsFiniteSet(ufm[i])
        BY OpenFilesConstants, FS_Subset DEF TypeOK
      <4>2. Cardinality(ufm'[i]) = Cardinality(ufm[i]) + 1
        <5>1. Cardinality(ufm[i] \cup {s}) = Cardinality(ufm[i]) + 1
          BY <1>14, <4>1, FS_AddElement
        <5> QED
          BY <1>11, <5>1
      <4>3. Abs(table[i].ref_ct) = Cardinality(ufm[i])
        BY DEF TableOK, RefCountExact
      <4> QED
        BY <1>15, <3>1, <4>2, <4>3 DEF Abs
    <3>2. CASE j # i
      BY <1>11, <3>2 DEF TableOK, RefCountExact
    <3> QED
      BY <3>1, <3>2
  <2>2. \A j, k \in Entries : InUse(j)' /\ InUse(k)' /\ table'[j].file = table'[k].file => j = k
    <3> SUFFICES ASSUME NEW j \in Entries, NEW k \in Entries, InUse(j)', InUse(k)',
                        table'[j].file = table'[k].file
                 PROVE  j = k
      OBVIOUS
    <3>1. CASE j # i /\ k # i
      BY <1>15, <3>1 DEF TableOK
    <3>2. CASE j = i
      BY <1>15, <3>2
    <3>3. CASE k = i
      BY <1>15, <3>3
    <3> QED
      BY <3>1, <3>2, <3>3
  <2>3. \A j \in Entries : InUse(j)' => table'[j].file \in Files
    BY <1>1, <1>15 DEF TableOK
  <2>4. ASSUME NEW t \in Sessions, NEW g \in Files, IsOpen(t, g)'
        PROVE  t \in ufm'[EntryOf(t, g)'] /\ table'[EntryOf(t, g)'].file = g
    <3>1. CASE t = s /\ g = f
      BY <1>2, <1>11, <1>17, <3>1
    <3>2. CASE t # s \/ g # f
      BY <1>16, <1>18, <2>4, <3>2
    <3> QED
      BY <3>1, <3>2
  <2>5. ASSUME NEW t \in Sessions, NEW j \in Entries, t \in ufm'[j], life'[t] # "dead"
        PROVE  HasOrLost(t, j)'
    <3>1. CASE t = s /\ j = i
      BY <1>17, <3>1 DEF HasOrLost
    <3>2. CASE (t # s \/ j # i) /\ ~(table[j].ref_ct < 0)
      <4>1. t \in ufm[j]
        BY <1>11, <2>5, <3>2
      <4>2. PICK g \in Files : EntryOf(t, g) = j
        BY <1>10, <2>5, <3>2, <4>1 DEF TableOK, HasOrLost
      <4>3. IsOpen(t, g)
        BY <4>2, OpenHasEntry
      <4>4. t # s \/ g # f
        BY <1>1, <1>2, <4>3
      <4>5. EntryOf(t, g)' = j
        BY <1>16, <4>2, <4>4
      <4> QED
        BY <4>5 DEF HasOrLost
    <3>3. CASE table[j].ref_ct < 0
      <4>1. j # i
        BY <3>3 DEF TypeOK, Entry
      <4>2. table'[j].ref_ct < 0
        BY <3>3, <4>1
      <4> QED
        BY <4>2 DEF HasOrLost
    <3> QED
      BY <3>1, <3>2, <3>3
  <2> QED
    BY <2>1, <2>2, <2>3, <2>4, <2>5 DEF TableOK
<1>20. ReservedOK'
  <2> SUFFICES ASSUME NEW t \in Sessions, NEW g \in Files,
                      IsOpen(t, g)', table'[EntryOf(t, g)'].ref_ct < 0
               PROVE  /\ dh'[t][g].open_count = 1 /\ g \notin Range(cache'[t])
                      /\ g \notin Pending(op'[t])
    BY DEF ReservedOK
  <2>1. t # s \/ g # f
    BY <1>15, <1>17
  <2>2. dh'[t][g] = dh[t][g] /\ IsOpen(t, g) /\ table[EntryOf(t, g)].ref_ct < 0
        /\ EntryOf(t, g) # i
    BY <1>16, <1>18, <2>1
  <2>3. dh[t][g].open_count = 1 /\ g \notin Range(cache[t]) /\ g \notin Pending(op[t])
    BY <2>2 DEF ReservedOK
  <2>4. CASE t = s
    BY <1>9, <1>10, <2>1, <2>2, <2>3, <2>4 DEF ClosesCached
  <2>5. CASE t # s
    BY <1>10, <2>2, <2>3, <2>5
  <2> QED
    BY <2>4, <2>5
<1>21. HeadersOK'
  <2>1. TriggerKept'
    BY <1>5 DEF HeadersOK, TriggerKept
  <2>2. ASSUME NEW t \in Sessions PROVE HoldsHeader(t, op[t])'
    <3>1. CASE t = s
      <4>1. o.kind = "close" => o.file \in Files /\ IsOpen(s, o.file)
        BY <1>9, CachedIsOpen DEF ClosesCached
      <4>2. HoldsHeader(s, o) /\ o.kind # "trigger"
        BY <1>9, <4>1, ClosingHolds DEF ClosesCached
      <4> QED
        BY <1>5, <1>10, <3>1, <4>2 DEF HoldsHeader
    <3>2. CASE t # s
      <4>1. op'[t] = op[t] /\ HoldsHeader(t, op[t])
        BY <1>10, <3>2 DEF HeadersOK
      <4>2. ASSUME op[t].kind = "trigger" PROVE table'[EntryOf(t, op[t].file)].ref_ct < 0
        <5>1. PICK g \in Files : g = op[t].file /\ IsOpen(t, g)
          BY <4>2, WorkedOnIsOpen
        <5>2. table[EntryOf(t, g)].ref_ct < 0
          BY <4>1, <4>2, <5>1 DEF HoldsHeader
        <5> QED
          BY <1>18, <5>1, <5>2
      <4> QED
        BY <1>5, <1>10, <3>2, <4>1, <4>2 DEF HoldsHeader, EntryOf
    <3> QED
      BY <3>1, <3>2
  <2> QED
    BY <2>1, <2>2 DEF HeadersOK
<1>22. ParamsOK'
  <2> SUFFICES ASSUME NEW g \in Files, g \notin stale', disk[g].params # real[g].params
               PROVE  \E t \in Sessions : dh'[t][g].updated
    BY <1>5 DEF ParamsOK
  <2>1. PICK t \in Sessions : dh[t][g].updated
    BY DEF ParamsOK
  <2>2. t # s \/ g # f
    BY <1>3, <2>1
  <2> QED
    BY <1>16, <2>1, <2>2
<1> QED
  BY <1>12, <1>19, <1>20, <1>21, <1>22

(* The first of some entries is one of them.                                *)
LEMMA FirstIsThere ==
  ASSUME NEW S \in SUBSET Entries, S # {}
  PROVE  First(S) \in S
<1> DEFINE R == {p \in Nat \X Nat : p[1] < p[2]}
<1>1. S \subseteq Nat
  BY OpenFilesConstants DEF Entries
<1>2. \E x \in S : \A y \in S : ~(<<y, x>> \in R)
  <2>1. IsWellFoundedOn(R, Nat)
    BY NatLessThanWellFounded DEF OpToRel
  <2> HIDE DEF R
  <2> QED
    BY <1>1, <2>1, WFMin
<1>3. PICK x \in S : \A y \in S : ~(<<y, x>> \in R)
  BY <1>2
<1>4. \A y \in S : x <= y
  <2> SUFFICES ASSUME NEW y \in S, ~(x <= y) PROVE FALSE
    OBVIOUS
  <2>1. <<y, x>> \in R
    BY <1>1
  <2> QED
    BY <1>3, <2>1
<1> QED
  BY <1>4 DEF First

(* get_file_entry finds the file in the table: one reference more.          *)
LEMMA ShareEntryStep ==
  ASSUME TypeOK, FileInv, NEW s \in Sessions, ShareEntry(s)
  PROVE  TypeOK' /\ FileInv'
<1> USE DEF FileInv
<1> DEFINE i == First(Matching(op[s].file))
           n == table[i].ref_ct + 1
<1>1. /\ In(s, "open") /\ Opened(s, i) /\ UNCHANGED stale
      /\ table[i].ref_ct > 0 /\ table' = [table EXCEPT ![i].ref_ct = n]
  BY DEF ShareEntry
<1>2. i \in Matching(op[s].file)
  BY FirstIsThere DEF ShareEntry, Matching
<1> HIDE DEF i
<1>3. i \in Entries /\ InUse(i) /\ table[i].file = op[s].file /\ table[i] \in Entry
  BY <1>2 DEF Matching, TypeOK
<1>4. n \in Int /\ table[i].ref_ct >= 0
  BY <1>1, <1>3 DEF Entry
<1> HIDE DEF n
<1>5. /\ table' \in [Entries -> Entry] /\ table'[i].ref_ct = n
      /\ table'[i].file = op[s].file /\ table'[i].params = table[i].params
      /\ \A j \in Entries : j # i => table'[j] = table[j]
  BY <1>1, <1>3, <1>4 DEF TypeOK, Entry
<1>6. \A j \in Entries : InUse(j) => (j = i <=> table[j].file = op[s].file)
  BY <1>3 DEF TableOK
<1>7. ASSUME NEW g \in Files, g \notin stale', NEW j \in Matching(g)'
      PROVE  table'[j].params = real[g].params
  <2>1. j \in Entries /\ InUse(j)' /\ table'[j].file = g
    BY <1>7 DEF Matching
  <2>2. CASE j = i
    BY <1>1, <1>2, <1>5, <1>7, <2>1, <2>2 DEF ParamsOK
  <2>3. CASE j # i
    <3>1. table'[j] = table[j] /\ j \in Matching(g)
      BY <1>5, <2>1, <2>3 DEF Matching, InUse
    <3> QED
      BY <1>1, <1>7, <3>1 DEF ParamsOK
  <2> QED
    BY <2>2, <2>3
<1>8. stale' \in SUBSET Files /\ stale \subseteq stale'
  BY <1>1 DEF TypeOK
<1>9. table'[i].ref_ct = table[i].ref_ct + 1
  BY <1>5 DEF n
<1> QED
  BY <1>1, <1>3, <1>4, <1>5, <1>6, <1>7, <1>8, <1>9, OpenedStep

(* get_file_entry fills the first free entry from the header read.          *)
LEMMA FillEntryStep ==
  ASSUME TypeOK, FileInv, NEW s \in Sessions, FillEntry(s)
  PROVE  TypeOK' /\ FileInv'
<1> USE DEF FileInv
<1>0. PICK f \in Files : f = op[s].file
  BY OpeningIsNew DEF FillEntry
<1> DEFINE i == First(Free)
           h == op[s].hdr[1]
           e == [file |-> f, ref_ct |-> 1, params |-> h.params]
<1>1. /\ In(s, "open") /\ Opened(s, i) /\ stale' = Overtaken(h, disk[f], f)
      /\ Matching(f) = {} /\ table' = [table EXCEPT ![i] = e]
  BY <1>0 DEF FillEntry
<1>2. i \in Entries /\ table[i].ref_ct = 0
  BY FirstIsThere DEF FillEntry, Free, InUse
<1>3. h \in Header
  BY <1>1, OpeningIsNew
<1> HIDE DEF i, h
<1>4. e \in Entry /\ e.file = f /\ e.ref_ct = 1 /\ e.params = h.params
  BY <1>3 DEF Entry, Header
<1> HIDE DEF e
<1>5. /\ table' \in [Entries -> Entry] /\ table'[i] = e
      /\ \A j \in Entries : j # i => table'[j] = table[j]
  BY <1>1, <1>2, <1>4 DEF TypeOK
<1>6. /\ stale' \in SUBSET Files /\ stale \subseteq stale'
      /\ f \notin stale' => h = disk[f]
  BY <1>1, OvertakenMarks
<1>7. \A j \in Entries : InUse(j) => (j = i <=> table[j].file = op[s].file)
  BY <1>0, <1>1, <1>2 DEF Matching, InUse
<1>8. ASSUME NEW g \in Files, g \notin stale', NEW j \in Matching(g)'
      PROVE  table'[j].params = real[g].params
  <2>1. j \in Entries /\ InUse(j)' /\ table'[j].file = g
    BY <1>8 DEF Matching
  <2>2. CASE j = i
    <3>1. g = f /\ table'[j].params = disk[f].params
      BY <1>4, <1>5, <1>6, <1>8, <2>1, <2>2
    <3>2. \A t \in Sessions : ~dh[t][f].updated
      <4> SUFFICES ASSUME NEW t \in Sessions PROVE ~dh[t][f].updated
        OBVIOUS
      <4>1. ~IsOpen(t, f)
        BY <1>1, OpenEntry
      <4> QED
        BY <4>1 DEF IsOpen, NoDh
    <3> QED
      BY <1>6, <1>8, <3>1, <3>2 DEF ParamsOK
  <2>3. CASE j # i
    <3>1. table'[j] = table[j] /\ j \in Matching(g)
      BY <1>5, <2>1, <2>3 DEF Matching, InUse
    <3> QED
      BY <1>6, <1>8, <3>1 DEF ParamsOK
  <2> QED
    BY <2>2, <2>3
<1>9. /\ table'[i].file = op[s].file /\ table'[i].ref_ct = table[i].ref_ct + 1
      /\ table[i].ref_ct >= 0
  BY <1>0, <1>2, <1>4, <1>5
<1> QED
  BY <1>1, <1>2, <1>5, <1>6, <1>7, <1>8, <1>9, OpenedStep

(* dh_close releases a reference, the last one with the entry.              *)
LEMMA ReleaseStep ==
  ASSUME TypeOK, FileInv, NEW s \in Sessions, Release(s)
  PROVE  TypeOK' /\ FileInv'
BY ReleaseOneStep, ReleaseLastStep

-----------------------------------------------------------------------------
(* Crashes, and the theorems.                                               *)

(* A session that is not live is idle, and has no DH_FILEs and no cache.    *)
LEMMA EmptySessionOK ==
  SessionOK([f \in Files |-> NoDh], <<>>, Idle)
<1> DEFINE q == <<>>
           d == [f \in Files |-> NoDh]
<1>1. Distinct(q) /\ Range(q) = {}
  BY EmptyDistinct
<1>2. \A f \in Files : d[f] = NoDh /\ d[f].open_count = 0
  BY DEF NoDh
<1> HIDE DEF q, d
<1>3. SessionOK(d, q, Idle)
  BY <1>1, <1>2, IdleOK DEF SessionOK, One
<1> QED
  BY <1>3 DEF d, q

(* A kill empties the session; what it had not flushed is lost and marked.  *)
LEMMA KillStep ==
  ASSUME TypeOK, FileInv, NEW s \in Sessions, Kill(s)
  PROVE  TypeOK' /\ FileInv'
<1> USE DEF FileInv
<1> DEFINE d == [f \in Files |-> NoDh]
           q == <<>>
<1>1. /\ life' = [life EXCEPT ![s] = "dead"] /\ op' = [op EXCEPT ![s] = Idle]
      /\ dh' = [dh EXCEPT ![s] = d] /\ cache' = [cache EXCEPT ![s] = q]
      /\ stale' = stale \cup {f \in Files : dh[s][f].updated}
      /\ UNCHANGED <<table, ufm, event, disk, real>>
  BY DEF Kill
<1>2. d \in [Files -> DhFile \cup {NoDh}] /\ \A f \in Files : d[f] = NoDh
  OBVIOUS
<1>3. q \in Seq(Files) /\ SessionOK(d, q, Idle) /\ d = [f \in Files |-> NoDh] /\ q = <<>>
  BY EmptyDistinct, EmptySessionOK
<1> HIDE DEF d, q
<1>4. TypeOK'
  BY <1>1, <1>2, <1>3, IdleOK DEF TypeOK
<1>5. /\ dh'[s] = d /\ op'[s] = Idle /\ cache'[s] = q /\ life'[s] = "dead"
      /\ \A t \in Sessions : t # s => dh'[t] = dh[t] /\ cache'[t] = cache[t]
                                      /\ op'[t] = op[t] /\ life'[t] = life[t]
  BY <1>1 DEF TypeOK
<1>6. SessionsOK'
  <2> SUFFICES ASSUME NEW t \in Sessions
               PROVE  /\ SessionOK(dh'[t], cache'[t], op'[t])
                      /\ life'[t] # "live" => /\ op'[t] = Idle /\ cache'[t] = <<>>
                                              /\ dh'[t] = [f \in Files |-> NoDh]
    BY DEF SessionsOK
  <2>1. CASE t = s
    BY <1>3, <1>5, <2>1
  <2>2. CASE t # s
    BY <1>5, <2>2 DEF SessionsOK
  <2> QED
    BY <2>1, <2>2
(* What is open is another session's, and as it was.                        *)
<1>7. ASSUME NEW t \in Sessions, NEW f \in Files, IsOpen(t, f)'
      PROVE  t # s /\ IsOpen(t, f) /\ EntryOf(t, f)' = EntryOf(t, f)
  BY <1>2, <1>5, <1>7 DEF IsOpen, EntryOf
<1>8. TableOK'
  <2>1. RefCountExact'
    BY <1>1 DEF TableOK, RefCountExact
  <2>2. \A i, j \in Entries : InUse(i)' /\ InUse(j)' /\ table'[i].file = table'[j].file => i = j
    BY <1>1 DEF TableOK, InUse
  <2>3. \A i \in Entries : InUse(i)' => table'[i].file \in Files
    BY <1>1 DEF TableOK, InUse
  <2>4. ASSUME NEW t \in Sessions, NEW f \in Files, IsOpen(t, f)'
        PROVE  t \in ufm'[EntryOf(t, f)'] /\ table'[EntryOf(t, f)'].file = f
    BY <1>1, <1>7, <2>4 DEF TableOK
  <2>5. ASSUME NEW t \in Sessions, NEW i \in Entries, t \in ufm'[i], life'[t] # "dead"
        PROVE  HasOrLost(t, i)'
    <3>1. t # s /\ life[t] # "dead" /\ t \in ufm[i]
      BY <1>1, <1>5, <2>5
    <3>2. HasOrLost(t, i)
      BY <3>1 DEF TableOK
    <3> QED
      BY <1>1, <1>5, <3>1, <3>2 DEF HasOrLost, EntryOf
  <2> QED
    BY <2>1, <2>2, <2>3, <2>4, <2>5 DEF TableOK
<1>9. ReservedOK'
  <2> SUFFICES ASSUME NEW t \in Sessions, NEW f \in Files,
                      IsOpen(t, f)', table'[EntryOf(t, f)'].ref_ct < 0
               PROVE  /\ dh'[t][f].open_count = 1 /\ f \notin Range(cache'[t])
                      /\ f \notin Pending(op'[t])
    BY DEF ReservedOK
  <2>1. t # s /\ IsOpen(t, f) /\ table[EntryOf(t, f)].ref_ct < 0
    BY <1>1, <1>7
  <2> QED
    BY <1>5, <2>1 DEF ReservedOK
<1>10. HeadersOK'
  <2>1. TriggerKept'
    BY <1>1 DEF HeadersOK, TriggerKept
  <2>2. ASSUME NEW t \in Sessions PROVE HoldsHeader(t, op[t])'
    <3>1. CASE t = s
      BY <1>5, <3>1, IdleOK DEF HoldsHeader
    <3>2. CASE t # s
      BY <1>1, <1>5, <3>2 DEF HeadersOK, HoldsHeader, EntryOf
    <3> QED
      BY <3>1, <3>2
  <2> QED
    BY <2>1, <2>2 DEF HeadersOK
<1>11. ParamsOK'
  <2> SUFFICES ASSUME NEW f \in Files, f \notin stale'
               PROVE  /\ \A i \in Matching(f)' : table'[i].params = real'[f].params
                      /\ disk'[f].params # real'[f].params =>
                           \E t \in Sessions : dh'[t][f].updated
    BY DEF ParamsOK
  <2>1. f \notin stale /\ ~dh[s][f].updated
    BY <1>1
  <2>2. Matching(f)' = Matching(f)
    BY <1>1 DEF Matching, InUse
  <2>3. \A t \in Sessions : dh[t][f].updated => dh'[t][f].updated
    BY <1>5, <2>1
  <2> QED
    BY <1>1, <2>1, <2>2, <2>3 DEF ParamsOK
<1> QED
  BY <1>4, <1>6, <1>8, <1>9, <1>10, <1>11

(* An open of a file the session has exclusively frees its DH_FILE: what is *)
(* left is an entry under exclusive access that nobody has.                 *)
LEMMA OpenOwnStep ==
  ASSUME TypeOK, FileInv, NEW s \in Sessions, NEW f \in Files, OpenOwn(s, f)
  PROVE  TypeOK' /\ FileInv'
<1> USE DEF FileInv
<1> DEFINE d == [dh[s] EXCEPT ![f] = NoDh]
<1>1. /\ life[s] = "live" /\ op[s] = Idle /\ IsOpen(s, f)
      /\ table[EntryOf(s, f)].ref_ct < 0
      /\ UNCHANGED <<table, ufm, cache, event, op, life, disk, real>>
      /\ stale' = IF dh[s][f].updated THEN stale \cup {f} ELSE stale
  BY DEF OpenOwn, Begin
<1>2. /\ dh' = [dh EXCEPT ![s] = d]
      /\ d \in [Files -> DhFile \cup {NoDh}]
      /\ d[f] = NoDh /\ \A g \in Files : g # f => d[g] = dh[s][g]
  BY DEF OpenOwn, TypeOK
<1> HIDE DEF d
<1>3. /\ dh'[s] = d /\ \A t \in Sessions : t # s => dh'[t] = dh[t]
      /\ dh' \in [Sessions -> [Files -> DhFile \cup {NoDh}]]
  BY <1>2 DEF TypeOK
<1>4. TypeOK'
  BY <1>1, <1>3 DEF TypeOK
(* The freed file was open once, and neither cached nor to be closed.       *)
<1>5. /\ dh[s][f].open_count = 1 /\ f \notin Range(cache[s])
      /\ Pending(op[s]) = {} /\ \A g : ~GoesOn(op[s], g)
  BY <1>1, IdleOK DEF ReservedOK
<1>6. SessionOK(d, cache[s], op[s])
  <2>1. SessionOK(dh[s], cache[s], Idle)
    BY <1>1 DEF SessionsOK
  <2>2. ASSUME NEW g \in Files
        PROVE  /\ d[g].open_count >= One(g \in Range(cache[s])) + One(g \in Pending(Idle))
                                      + One(GoesOn(Idle, g))
               /\ d[g] # NoDh => d[g].open_count >= 1
    <3>1. CASE g = f
      <4>1. NoDh.open_count = 0
        BY DEF NoDh
      <4> QED
        BY <1>1, <1>2, <1>5, <3>1, <4>1 DEF One
    <3>2. CASE g # f
      BY <1>2, <2>1, <3>2 DEF SessionOK
    <3> QED
      BY <3>1, <3>2
  <2> QED
    BY <1>1, <2>1, <2>2, IdleOK DEF SessionOK
<1>7. SessionsOK'
  <2> SUFFICES ASSUME NEW t \in Sessions
               PROVE  /\ SessionOK(dh'[t], cache[t], op[t])
                      /\ life[t] # "live" => /\ op[t] = Idle /\ cache[t] = <<>>
                                             /\ dh'[t] = [g \in Files |-> NoDh]
    BY <1>1 DEF SessionsOK
  <2>1. CASE t = s
    BY <1>1, <1>3, <1>6, <2>1
  <2>2. CASE t # s
    BY <1>3, <2>2 DEF SessionsOK
  <2> QED
    BY <2>1, <2>2
(* What is open was open, and is not the freed file of the session.         *)
<1>8. ASSUME NEW t \in Sessions, NEW g \in Files, IsOpen(t, g)'
      PROVE  /\ t # s \/ g # f
             /\ dh'[t][g] = dh[t][g] /\ IsOpen(t, g) /\ EntryOf(t, g)' = EntryOf(t, g)
  <2>1. t # s \/ g # f
    BY <1>2, <1>3, <1>8 DEF IsOpen
  <2>2. dh'[t][g] = dh[t][g]
    BY <1>2, <1>3, <2>1
  <2> QED
    BY <1>8, <2>1, <2>2 DEF IsOpen, EntryOf
<1>9. TableOK'
  <2>1. RefCountExact'
    BY <1>1 DEF TableOK, RefCountExact
  <2>2. \A i, j \in Entries : InUse(i)' /\ InUse(j)' /\ table'[i].file = table'[j].file => i = j
    BY <1>1 DEF TableOK, InUse
  <2>3. \A i \in Entries : InUse(i)' => table'[i].file \in Files
    BY <1>1 DEF TableOK, InUse
  <2>4. ASSUME NEW t \in Sessions, NEW g \in Files, IsOpen(t, g)'
        PROVE  t \in ufm'[EntryOf(t, g)'] /\ table'[EntryOf(t, g)'].file = g
    BY <1>1, <1>8, <2>4 DEF TableOK
  <2>5. ASSUME NEW t \in Sessions, NEW i \in Entries, t \in ufm'[i], life'[t] # "dead"
        PROVE  HasOrLost(t, i)'
    <3>1. HasOrLost(t, i)
      BY <1>1, <2>5 DEF TableOK
    <3>2. CASE table[i].ref_ct < 0
      BY <1>1, <3>2 DEF HasOrLost
    <3>3. CASE ~(table[i].ref_ct < 0)
      <4>1. PICK g \in Files : EntryOf(t, g) = i
        BY <3>1, <3>3 DEF HasOrLost
      <4>2. t # s \/ g # f
        BY <1>1, <3>3, <4>1
      <4>3. dh'[t][g] = dh[t][g]
        BY <1>2, <1>3, <4>2
      <4>4. EntryOf(t, g)' = i
        BY <4>1, <4>3 DEF EntryOf
      <4> QED
        BY <4>4 DEF HasOrLost
    <3> QED
      BY <3>2, <3>3
  <2> QED
    BY <2>1, <2>2, <2>3, <2>4, <2>5 DEF TableOK
<1>10. ReservedOK'
  BY <1>1, <1>8 DEF ReservedOK
<1>11. HeadersOK'
  <2>1. TriggerKept'
    BY <1>1 DEF HeadersOK, TriggerKept
  <2>2. ASSUME NEW t \in Sessions PROVE HoldsHeader(t, op[t])'
    <3>1. CASE t = s
      BY <1>1, <3>1, IdleOK DEF HoldsHeader
    <3>2. CASE t # s
      BY <1>1, <1>3, <3>2 DEF HeadersOK, HoldsHeader, EntryOf
    <3> QED
      BY <3>1, <3>2
  <2> QED
    BY <2>1, <2>2 DEF HeadersOK
<1>12. ParamsOK'
  <2> SUFFICES ASSUME NEW g \in Files, g \notin stale'
               PROVE  /\ \A i \in Matching(g)' : table'[i].params = real'[g].params
                      /\ disk'[g].params # real'[g].params =>
                           \E t \in Sessions : dh'[t][g].updated
    BY DEF ParamsOK
  <2>1. g \notin stale /\ (g = f => ~dh[s][f].updated)
    BY <1>1
  <2>2. Matching(g)' = Matching(g)
    BY <1>1 DEF Matching, InUse
  <2>3. \A t \in Sessions : dh[t][g].updated => dh'[t][g].updated
    <3> SUFFICES ASSUME NEW t \in Sessions, dh[t][g].updated PROVE dh'[t][g].updated
      OBVIOUS
    <3>1. t # s \/ g # f
      BY <2>1
    <3> QED
      BY <1>2, <1>3, <3>1
  <2> QED
    BY <1>1, <2>1, <2>2, <2>3 DEF ParamsOK
<1> QED
  BY <1>4, <1>7, <1>9, <1>10, <1>11, <1>12

(* remove_user takes off the references the file map of the dead counts.    *)
LEMMA ReapStep ==
  ASSUME TypeOK, FileInv, NEW s \in Sessions, Reap(s)
  PROVE  TypeOK' /\ FileInv'
<1> USE DEF FileInv
<1> DEFINE left(i) == IF s \in ufm[i] THEN Abs(table[i].ref_ct) - 1 ELSE table[i].ref_ct
<1>1. /\ life[s] = "dead" /\ life' = [life EXCEPT ![s] = "gone"]
      /\ table' = [i \in Entries |-> [table[i] EXCEPT !.ref_ct = left(i)]]
      /\ ufm' = [i \in Entries |-> ufm[i] \ {s}]
      /\ event' = event \ {s} /\ UNCHANGED <<dh, cache, op, disk, real, stale>>
  BY DEF Reap
<1>2. ASSUME NEW i \in Entries
      PROVE  /\ left(i) \in Int /\ left(i) >= -1
             /\ Abs(left(i)) = Cardinality(ufm[i] \ {s})
             /\ left(i) # 0 => table[i].ref_ct # 0
             /\ left(i) < 0 => s \notin ufm[i] /\ table[i].ref_ct < 0
             /\ s \notin ufm[i] => left(i) = table[i].ref_ct
  <2>1. /\ table[i].ref_ct \in Int /\ table[i].ref_ct >= -1
        /\ Abs(table[i].ref_ct) = Cardinality(ufm[i]) /\ IsFiniteSet(ufm[i])
    BY OpenFilesConstants, FS_Subset DEF TypeOK, Entry, TableOK, RefCountExact
  <2>2. CASE s \in ufm[i]
    <3>1. left(i) = Cardinality(ufm[i]) - 1
      BY <2>1, <2>2
    <3>2. Cardinality(ufm[i] \ {s}) = Cardinality(ufm[i]) - 1
      BY <2>1, <2>2, FS_RemoveElement
    <3>3. Cardinality(ufm[i]) \in Nat /\ Cardinality(ufm[i]) # 0
      BY <2>1, <2>2, FS_EmptySet, FS_CardinalityType
    <3>4. table[i].ref_ct # 0
      BY <2>1, <3>3 DEF Abs
    <3> HIDE DEF left
    <3>5. left(i) \in Int /\ left(i) >= 0
      BY <3>1, <3>3
    <3>6. Abs(left(i)) = left(i)
      BY <3>5 DEF Abs
    <3>7. left(i) >= -1 /\ ~(left(i) < 0)
      BY <3>5
    <3> QED
      BY <2>2, <3>1, <3>2, <3>4, <3>5, <3>6, <3>7
  <2>3. CASE s \notin ufm[i]
    <3>1. left(i) = table[i].ref_ct /\ ufm[i] \ {s} = ufm[i]
      BY <2>3
    <3> HIDE DEF left
    <3> QED
      BY <2>1, <2>3, <3>1
  <2> QED
    BY <2>2, <2>3
<1> HIDE DEF left
<1>3. ASSUME NEW i \in Entries
      PROVE  /\ table'[i] \in Entry /\ table'[i].ref_ct = left(i)
             /\ table'[i].file = table[i].file /\ table'[i].params = table[i].params
             /\ ufm'[i] = ufm[i] \ {s}
  <2>1. table[i] \in Entry /\ table'[i] = [table[i] EXCEPT !.ref_ct = left(i)]
    BY <1>1 DEF TypeOK
  <2> QED
    BY <1>1, <1>2, <2>1 DEF Entry
<1>4. TypeOK'
  <2>1. table' \in [Entries -> Entry]
    BY <1>1, <1>3
  <2>2. ufm' \in [Entries -> SUBSET Sessions]
    BY <1>1 DEF TypeOK
  <2> QED
    BY <1>1, <2>1, <2>2 DEF TypeOK
<1>5. /\ life'[s] = "gone" /\ \A t \in Sessions : t # s => life'[t] = life[t]
      /\ op[s] = Idle /\ dh[s] = [f \in Files |-> NoDh] /\ cache[s] = <<>>
  BY <1>1 DEF TypeOK, SessionsOK
<1>6. SessionsOK'
  BY <1>1, <1>5 DEF SessionsOK
(* What is open is another session's, and its entry still counts it.        *)
<1>7. ASSUME NEW t \in Sessions, NEW f \in Files, IsOpen(t, f)
      PROVE  /\ t # s /\ EntryOf(t, f) \in Entries /\ t \in ufm'[EntryOf(t, f)]
             /\ table'[EntryOf(t, f)].file = f
             /\ table'[EntryOf(t, f)].ref_ct < 0 <=> table[EntryOf(t, f)].ref_ct < 0
  <2>1. t # s
    BY <1>5, <1>7 DEF IsOpen
  <2>2. EntryOf(t, f) \in Entries /\ t \in ufm[EntryOf(t, f)] /\ table[EntryOf(t, f)].file = f
    BY <1>7, OpenEntry
  <2>3. table[EntryOf(t, f)].ref_ct < 0 => s \notin ufm[EntryOf(t, f)]
    BY <2>1, <2>2, ReservedIsOne, Alone
  <2> QED
    BY <1>2, <1>3, <2>1, <2>2, <2>3
<1>8. \A i \in Entries : InUse(i)' => InUse(i)
  BY <1>2, <1>3 DEF InUse
<1>9. TableOK'
  <2>1. RefCountExact'
    BY <1>2, <1>3 DEF RefCountExact
  <2>2. \A i, j \in Entries : InUse(i)' /\ InUse(j)' /\ table'[i].file = table'[j].file => i = j
    BY <1>3, <1>8 DEF TableOK
  <2>3. \A i \in Entries : InUse(i)' => table'[i].file \in Files
    BY <1>3, <1>8 DEF TableOK
  <2>4. ASSUME NEW t \in Sessions, NEW f \in Files, IsOpen(t, f)'
        PROVE  t \in ufm'[EntryOf(t, f)'] /\ table'[EntryOf(t, f)'].file = f
    <3>1. IsOpen(t, f) /\ EntryOf(t, f)' = EntryOf(t, f)
      BY <1>1, <2>4 DEF IsOpen, EntryOf
    <3> QED
      BY <1>7, <3>1
  <2>5. ASSUME NEW t \in Sessions, NEW i \in Entries, t \in ufm'[i], life'[t] # "dead"
        PROVE  HasOrLost(t, i)'
    <3>1. t \in ufm[i] /\ t # s
      BY <1>3, <2>5
    <3>2. life[t] # "dead"
      BY <1>5, <2>5, <3>1
    <3>3. HasOrLost(t, i)
      BY <3>1, <3>2 DEF TableOK
    <3>4. CASE table[i].ref_ct < 0
      <4>1. s \notin ufm[i]
        BY <3>1, <3>4, ReservedIsOne, Alone
      <4>2. table'[i].ref_ct < 0
        BY <1>2, <1>3, <3>4, <4>1
      <4> QED
        BY <4>2 DEF HasOrLost
    <3>5. CASE \E f \in Files : EntryOf(t, f) = i
      BY <1>1, <3>5 DEF HasOrLost, EntryOf
    <3> QED
      BY <3>3, <3>4, <3>5 DEF HasOrLost
  <2> QED
    BY <2>1, <2>2, <2>3, <2>4, <2>5 DEF TableOK
<1>10. ReservedOK'
  <2> SUFFICES ASSUME NEW t \in Sessions, NEW f \in Files,
                      IsOpen(t, f)', table'[EntryOf(t, f)'].ref_ct < 0
               PROVE  /\ dh'[t][f].open_count = 1 /\ f \notin Range(cache'[t])
                      /\ f \notin Pending(op'[t])
    BY DEF ReservedOK
  <2>1. IsOpen(t, f) /\ EntryOf(t, f)' = EntryOf(t, f)
    BY <1>1 DEF IsOpen, EntryOf
  <2>2. table[EntryOf(t, f)].ref_ct < 0
    BY <1>7, <2>1
  <2> QED
    BY <1>1, <2>1, <2>2 DEF ReservedOK
<1>11. HeadersOK'
  <2>1. TriggerKept'
    BY <1>1 DEF HeadersOK, TriggerKept
  <2>2. ASSUME NEW t \in Sessions PROVE HoldsHeader(t, op[t])'
    <3>1. HoldsHeader(t, op[t])
      BY DEF HeadersOK
    <3>2. ASSUME op[t].kind = "trigger" PROVE table'[EntryOf(t, op[t].file)].ref_ct < 0
      <4>1. PICK g \in Files : g = op[t].file /\ IsOpen(t, g)
        BY <3>2, WorkedOnIsOpen
      <4>2. table[EntryOf(t, g)].ref_ct < 0
        BY <3>1, <3>2, <4>1 DEF HoldsHeader
      <4> QED
        BY <1>7, <4>1, <4>2
    <3> QED
      BY <1>1, <3>1, <3>2 DEF HoldsHeader, EntryOf
  <2> QED
    BY <2>1, <2>2 DEF HeadersOK
<1>12. ParamsOK'
  <2> SUFFICES ASSUME NEW f \in Files, f \notin stale
               PROVE  \A i \in Matching(f)' : table'[i].params = real[f].params
    BY <1>1 DEF ParamsOK
  <2>1. ASSUME NEW i \in Matching(f)' PROVE i \in Matching(f) /\ i \in Entries
    BY <1>3, <1>8, <2>1 DEF Matching
  <2> QED
    BY <1>3, <2>1 DEF ParamsOK
<1> QED
  BY <1>4, <1>6, <1>9, <1>10, <1>11, <1>12

(* A login starts from an empty session.                                    *)
LEMMA LoginStep ==
  ASSUME TypeOK, FileInv, NEW s \in Sessions, Login(s)
  PROVE  TypeOK' /\ FileInv'
<1> USE DEF FileInv
<1>1. /\ life[s] = "gone" /\ life' = [life EXCEPT ![s] = "live"]
      /\ UNCHANGED <<table, ufm, dh, cache, event, op, disk, real, stale>>
  BY DEF Login
<1>2. /\ TypeOK' /\ \A t \in Sessions : life'[t] # "live" => life[t] # "live"
      /\ \A t \in Sessions : life'[t] # "dead" => life[t] # "dead"
  BY <1>1 DEF TypeOK
<1>3. SessionsOK'
  BY <1>1, <1>2 DEF SessionsOK
<1>4. TableOK'
  <2>1. RefCountExact'
    BY <1>1 DEF TableOK, RefCountExact
  <2>2. \A i, j \in Entries : InUse(i)' /\ InUse(j)' /\ table'[i].file = table'[j].file => i = j
    BY <1>1 DEF TableOK, InUse
  <2>3. \A i \in Entries : InUse(i)' => table'[i].file \in Files
    BY <1>1 DEF TableOK, InUse
  <2>4. \A t \in Sessions, f \in Files : IsOpen(t, f)' =>
          t \in ufm'[EntryOf(t, f)'] /\ table'[EntryOf(t, f)'].file = f
    BY <1>1 DEF TableOK, IsOpen, EntryOf
  <2>5. \A t \in Sessions, i \in Entries : t \in ufm'[i] =>
          life'[t] = "dead" \/ HasOrLost(t, i)'
    BY <1>1, <1>2 DEF TableOK, HasOrLost, EntryOf
  <2> QED
    BY <2>1, <2>2, <2>3, <2>4, <2>5 DEF TableOK
<1>5. ReservedOK'
  BY <1>1 DEF ReservedOK, IsOpen, EntryOf
<1>6. HeadersOK'
  BY <1>1 DEF HeadersOK, TriggerKept, HoldsHeader, EntryOf
<1>7. ParamsOK'
  BY <1>1 DEF ParamsOK, Matching, InUse
<1> QED
  BY <1>2, <1>3, <1>4, <1>5, <1>6, <1>7

(* The table is empty at the start, and nothing has been written.           *)
LEMMA FileInvInit == Init => TypeOK /\ FileInv
<1> SUFFICES ASSUME Init PROVE TypeOK /\ FileInv
  OBVIOUS
<1> DEFINE d == [f \in Files |-> NoDh]
           q == <<>>
<1>1. /\ table = [i \in Entries |-> FreeEntry] /\ ufm = [i \in Entries |-> {}]
      /\ dh = [s \in Sessions |-> d] /\ cache = [s \in Sessions |-> q]
      /\ event = {} /\ op = [s \in Sessions |-> Idle]
      /\ life = [s \in Sessions |-> "live"]
      /\ disk = [f \in Files |-> NewHeader] /\ real = [f \in Files |-> NewHeader]
      /\ stale = {}
  BY DEF Init
<1>2. /\ q \in Seq(Files) /\ SessionOK(d, q, Idle)
      /\ d \in [Files -> DhFile \cup {NoDh}] /\ \A f \in Files : d[f] = NoDh
  BY EmptyDistinct, EmptySessionOK
<1> HIDE DEF d, q
<1>3. /\ FreeEntry \in Entry /\ FreeEntry.ref_ct = 0 /\ Abs(0) = 0
      /\ NewHeader \in Header
  BY DEF FreeEntry, Entry, NewHeader, Header, Abs
<1>4. TypeOK
  BY <1>1, <1>2, <1>3, IdleOK DEF TypeOK
<1>5. SessionsOK
  BY <1>1, <1>2 DEF SessionsOK
<1>6. \A s \in Sessions, f \in Files : ~IsOpen(s, f)
  BY <1>1, <1>2 DEF IsOpen
<1>7. \A i \in Entries : ~InUse(i) /\ ufm[i] = {}
  BY <1>1, <1>3 DEF InUse
<1>8. TableOK
  <2>1. RefCountExact
    BY <1>1, <1>3, FS_EmptySet DEF RefCountExact
  <2> QED
    BY <1>6, <1>7, <2>1 DEF TableOK
<1>9. ReservedOK
  BY <1>6 DEF ReservedOK
<1>10. HeadersOK
  <2>1. \A s \in Sessions : HoldsHeader(s, op[s])
    BY <1>1, IdleOK DEF HoldsHeader
  <2> QED
    BY <1>1, <2>1 DEF HeadersOK, TriggerKept
<1>11. ParamsOK
  BY <1>1, <1>7 DEF ParamsOK, Matching
<1> QED
  BY <1>4, <1>5, <1>8, <1>9, <1>10, <1>11 DEF FileInv

(* Every step keeps it.                                                     *)
LEMMA FileInvStep == TypeOK /\ FileInv /\ [Next]_vars => TypeOK' /\ FileInv'
<1> SUFFICES ASSUME TypeOK, FileInv, [Next]_vars PROVE TypeOK' /\ FileInv'
  OBVIOUS
<1>1. ASSUME NEW s \in Sessions, NEW f \in Wanted[s],
             \/ OpenCached(s, f) \/ OpenOwn(s, f) \/ Close(s, f)
             \/ \E voc \in BOOLEAN : OpenAgain(s, f, voc) \/ ReadHeader(s, f, voc)
             \/ Update(s, f) \/ FlushHeader(s, f)
             \/ AskExclusive(s, f) \/ SetTrigger(s, f) \/ CreateIndex(s, f)
      PROVE  TypeOK' /\ FileInv'
  <2>1. f \in Files
    BY OpenFilesConstants
  <2> QED
    BY <1>1, <2>1, OpenCachedStep, OpenOwnStep, CloseStep, OpenAgainStep, ReadHeaderStep, UpdateStep,
       FlushHeaderStep, AskExclusiveStep, SetTriggerStep, CreateIndexStep
<1>2. ASSUME NEW s \in Sessions,
             \/ RefuseOpen(s) \/ ShareEntry(s) \/ FillEntry(s)
             \/ WriteHeader(s) \/ Release(s)
             \/ GainExclusive(s) \/ TryAgain(s) \/ ProcessEvents(s)
             \/ WriteTrigger(s) \/ WriteIndex(s)
             \/ Kill(s) \/ Reap(s) \/ Login(s)
      PROVE  TypeOK' /\ FileInv'
  BY <1>2, RefuseOpenStep, ShareEntryStep, FillEntryStep, WriteHeaderStep, ReleaseStep,
     GainExclusiveStep, TryAgainStep, ProcessEventsStep, WriteTriggerStep, WriteIndexStep,
     KillStep, ReapStep, LoginStep
<1>3. CASE Next
  BY <1>1, <1>2, <1>3 DEF Next
<1>4. CASE UNCHANGED vars
  <2> USE <1>4 DEF vars
  <2>1. TypeOK'
    BY DEF TypeOK
  <2>2. SessionsOK' /\ TableOK' /\ ReservedOK'
    BY DEF FileInv, SessionsOK, TableOK, RefCountExact, ReservedOK, IsOpen, EntryOf, InUse,
           HasOrLost
  <2>3. HeadersOK' /\ ParamsOK'
    BY DEF FileInv, HeadersOK, TriggerKept, HoldsHeader, EntryOf, ParamsOK, Matching, InUse
  <2> QED
    BY <2>1, <2>2, <2>3 DEF FileInv
<1> QED
  BY <1>3, <1>4

(* The file table, the sessions' DH_FILEs and caches and the headers are    *)
(* well formed in every state.                                              *)
THEOREM OpenFilesTyped == Spec => []TypeOK
  BY FileInvInit, FileInvStep, PTL DEF Spec

(* The inductive invariant of the file table, with its types.               *)
THEOREM FileTable == Spec => [](TypeOK /\ FileInv)
  BY FileInvInit, FileInvStep, PTL DEF Spec

(* The reference count of an entry of the file table is the number of       *)
(* sessions that count it in their file map, with the -1 of exclusive       *)
(* access counted as one: no order of opens, closes, kills and reaps loses  *)
(* or repeats a reference.                                                  *)
THEOREM RefCounts == Spec => []RefCountExact
<1>1. FileInv => RefCountExact
  BY DEF FileInv, TableOK
<1> QED
  BY <1>1, FileTable, PTL

(* No entry is freed under a session that has the file open, no file has    *)
(* two entries, and what a live session counts but no longer has is the     *)
(* file whose DH_FILE dh_open freed under exclusive access.                 *)
THEOREM EntriesArePinned == Spec => []EntriesPinned
<1>1. TypeOK /\ FileInv => EntriesPinned
  <2> SUFFICES ASSUME TypeOK, FileInv PROVE EntriesPinned
    OBVIOUS
  <2> USE DEF FileInv
  <2>1. ASSUME NEW f \in Files PROVE Cardinality(Matching(f)) <= 1
    <3>1. CASE Matching(f) = {}
      BY <3>1, FS_EmptySet
    <3>2. CASE Matching(f) # {}
      <4>1. PICK i : i \in Matching(f)
        BY <3>2
      <4>2. Matching(f) = {i}
        BY <4>1 DEF Matching, TableOK
      <4>3. Cardinality({i}) = 1
        BY FS_Singleton
      <4> QED
        BY <4>2, <4>3
    <3> QED
      BY <3>1, <3>2
  <2>2. ASSUME NEW s \in Sessions, NEW i \in Entries, NEW f \in Files, EntryOf(s, f) = i
        PROVE  InUse(i) /\ table[i].file = f /\ s \in ufm[i]
    <3>1. IsOpen(s, f)
      BY <2>2, OpenHasEntry
    <3> QED
      BY <2>2, <3>1, OpenEntry
  <2>3. \A s \in Sessions, i \in Entries :
          life[s] = "live" /\ s \in ufm[i] =>
            \/ \E f \in Files : EntryOf(s, f) = i
            \/ table[i].ref_ct < 0
    BY DEF TableOK, HasOrLost
  <2> QED
    BY <2>1, <2>2, <2>3 DEF EntriesPinned
<1> QED
  BY <1>1, FileTable, PTL

(* A file under exclusive access is one session's, open once, and nobody    *)
(* else holds a header of it that is going to be written.                   *)
THEOREM ExclusiveIsAlone == Spec => []ExclusiveAlone
<1>1. TypeOK /\ FileInv => ExclusiveAlone
  <2> SUFFICES ASSUME TypeOK, FileInv, NEW i \in Entries, table[i].ref_ct < 0,
                      NEW s \in Sessions, NEW t \in Sessions
               PROVE  /\ s \in ufm[i] /\ t \in ufm[i] => s = t
                      /\ EntryOf(s, table[i].file) = i => dh[s][table[i].file].open_count = 1
                      /\ s \notin ufm[i] /\ op[s].file = table[i].file /\ op[s].hdr # <<>>
                           => op[s].kind = "open"
    BY DEF ExclusiveAlone
  <2> USE DEF FileInv
  <2>1. s \in ufm[i] /\ t \in ufm[i] => s = t
    BY ReservedIsOne, Alone
  <2>2. PICK f \in Files : f = table[i].file /\ i \in Matching(f)
    BY DEF TableOK, InUse, Matching
  <2>3. EntryOf(s, f) = i => dh[s][f].open_count = 1
    BY OpenHasEntry DEF ReservedOK
  <2>4. ASSUME s \notin ufm[i], op[s].file = f, op[s].hdr # <<>>, op[s].kind # "open"
        PROVE  FALSE
    <3>1. op[s].kind \in {"close", "flush", "index", "trigger"}
      <4>1. op[s] \in Op /\ OpOK(op[s])
        BY OwnState DEF SessionOK
      <4>2. op[s].kind \in {"idle", "open", "close", "flush", "exclusive", "index", "trigger"}
        BY <4>1 DEF Op
      <4> QED
        BY <2>4, <4>1, <4>2 DEF OpOK, Idle
    <3>2. IsOpen(s, f)
      BY <2>4, <3>1, WorkedOnIsOpen
    <3>3. EntryOf(s, f) \in Matching(f) /\ s \in ufm[EntryOf(s, f)]
      BY <3>2, OpenEntry
    <3>4. EntryOf(s, f) = i
      BY <2>2, <3>3 DEF Matching, TableOK
    <3> QED
      BY <2>4, <3>3, <3>4
  <2> QED
    BY <2>1, <2>2, <2>3, <2>4
<1> QED
  BY <1>1, FileTable, PTL

(* No flush, close or CREATE.INDEX puts an older trigger over the one that  *)
(* was set under exclusive access.                                          *)
THEOREM TriggersKept == Spec => []TriggerKept
<1>1. FileInv => TriggerKept
  BY DEF FileInv, HeadersOK
<1> QED
  BY <1>1, FileTable, PTL

(* Parameters are lost by the three events that stale records, and by no    *)
(* other order of steps.                                                    *)
THEOREM ParamsAreCurrent == Spec => []ParamsCurrent
<1>1. TypeOK /\ FileInv => ParamsCurrent
  <2> SUFFICES ASSUME TypeOK, FileInv, NEW f \in Files, f \notin stale, Matching(f) = {}
               PROVE  disk[f].params = real[f].params
    BY DEF FileInv, ParamsOK, ParamsCurrent
  <2> USE DEF FileInv
  <2>1. \A t \in Sessions : ~dh[t][f].updated
    <3> SUFFICES ASSUME NEW t \in Sessions PROVE ~dh[t][f].updated
      OBVIOUS
    <3>1. ~IsOpen(t, f)
      BY OpenEntry
    <3> QED
      BY <3>1 DEF IsOpen, NoDh
  <2> QED
    BY <2>1 DEF ParamsOK
<1> QED
  BY <1>1, FileTable, PTL
=============================================================================
