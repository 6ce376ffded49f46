------------------------------- MODULE OpenFiles -------------------------------
(***************************************************************************)
(* The file table: how sessions share open hashed files.  FILE_ENTRY       *)
(* (dh.h) is in the shared segment and holds the reference count and the   *)
(* parameters of a file while it is open; each session has a DH_FILE for   *)
(* each file it has open, a count of its entries in the file map of its    *)
(* user (sysseg.h), and a cache of files that stay open after their last   *)
(* file variable has gone (op_dio1.c).  Modelled: dh_open, get_file_entry, *)
(* dh_close, dh_flush_header, open_file, dio_close, flush_dh_cache,        *)
(* FILEINFO(FL$EXCLUSIVE), op_settrig, create_ak, EVT_FLUSH_CACHE and      *)
(* remove_user.                                                            *)
(*                                                                         *)
(* A header of a file is read, changed and written in separate steps with  *)
(* no lock: what the other sessions do between them is what this module is *)
(* about.  What is between StartExclusive and EndExclusive of              *)
(* FILE_TABLE_LOCK is one step.  Dynamic files only: a session has one     *)
(* DH_FILE for a file, so that its count in the file map is 0 or 1.        *)
(***************************************************************************)
EXTENDS Integers, Sequences, FiniteSets

CONSTANTS
  Sessions,    \* user table entries
  Files,       \* hashed files on disk
  NoFile,      \* no file: a free entry of the file table
  NumFiles,    \* sysseg->numfiles: entries of the file table
  CacheSize,   \* MAX_DH_CACHE_SIZE
  MaxTries,    \* attempts to gain exclusive access: 6 in the code
  MaxOpens,    \* bound: references of a session to each file
  MaxUpdates,  \* bound: updates of each file
  MaxChanges,  \* bound: indices and triggers set in each file
  Reserved,    \* files somebody asks exclusive access to
  Wanted,      \* Wanted[s]: files the session opens
  Mortals      \* sessions that may be killed

ASSUME OpenFilesConstants ==
  /\ IsFiniteSet(Sessions)
  /\ NoFile \notin Files
  /\ NumFiles \in Nat \ {0}
  /\ {CacheSize, MaxTries} \subseteq Nat \ {0}
  /\ {MaxOpens, MaxUpdates, MaxChanges} \subseteq [Files -> Nat]
  /\ Reserved \subseteq Files
  /\ Wanted \in [Sessions -> SUBSET Files]
  /\ Mortals \subseteq Sessions

Entries == 1 .. NumFiles

(* DH_HEADER: the parameters that are copied to the file table (modulus,   *)
(* free chain, load, record count), the map of the indices, the trigger.   *)
Header == [params : Nat, ak_map : Nat, trigger : Nat]

Entry == [file : Files \cup {NoFile}, ref_ct : Int, params : Nat]

DhFile == [file_id : Entries, open_count : Nat, updated : BOOLEAN]
NoDh == [file_id |-> 0, open_count |-> 0, updated |-> FALSE]

(* What a session is in the middle of.  hdr is a sequence: the header it   *)
(* has read and is going to use, if any.  rest: the cached files still to  *)
(* be closed.  try: then attempt exclusive access to file, 0 if not.       *)
Op == [kind : {"idle", "open", "close", "flush", "exclusive", "index", "trigger"},
       file : Files \cup {NoFile},
       hdr : Seq(Header), voc : BOOLEAN, rest : Seq(Files),
       next : Files \cup {NoFile}, tries : Nat]
Idle == [kind |-> "idle", file |-> NoFile, hdr |-> <<>>, voc |-> FALSE,
         rest |-> <<>>, next |-> NoFile, tries |-> 0]

VARIABLES
  table,     \* FILE_ENTRYs
  ufm,       \* ufm[i]: sessions that count entry i in their file map
  dh,        \* dh[s][f]: DH_FILE of the session for the file (dh_file_head)
  cache,     \* dh_cache: files, the newest use first
  event,     \* sessions with EVT_FLUSH_CACHE
  op,        \* where the session is
  life,      \* "live", "dead" until it is reaped, then "gone"
  disk,      \* disk[f]: the header in the primary subfile
  real,      \* real[f]: what the header should say: the layout of the data,
             \* the index subfiles made and the trigger set last
  stale      \* files whose parameters a race, a kill or OpenOwn has lost

vars == <<table, ufm, dh, cache, event, op, life, disk, real, stale>>

TypeOK ==
  /\ table \in [Entries -> Entry]
  /\ ufm \in [Entries -> SUBSET Sessions]
  /\ dh \in [Sessions -> [Files -> DhFile \cup {NoDh}]]
  /\ cache \in [Sessions -> Seq(Files)]
  /\ event \in SUBSET Sessions
  /\ op \in [Sessions -> Op]
  /\ life \in [Sessions -> {"live", "dead", "gone"}]
  /\ disk \in [Files -> Header]
  /\ real \in [Files -> Header]
  /\ stale \in SUBSET Files

FreeEntry == [file |-> NoFile, ref_ct |-> 0, params |-> 0]
NewHeader == [params |-> 0, ak_map |-> 0, trigger |-> 0]

Init ==
  /\ table = [i \in Entries |-> FreeEntry]
  /\ ufm = [i \in Entries |-> {}]
  /\ dh = [s \in Sessions |-> [f \in Files |-> NoDh]]
  /\ cache = [s \in Sessions |-> <<>>]
  /\ event = {}
  /\ op = [s \in Sessions |-> Idle]
  /\ life = [s \in Sessions |-> "live"]
  /\ disk = [f \in Files |-> NewHeader]
  /\ real = [f \in Files |-> NewHeader]
  /\ stale = {}

-----------------------------------------------------------------------------
Begin(s) == life[s] = "live" /\ op[s] = Idle
In(s, kind) == life[s] = "live" /\ op[s].kind = kind
IsOpen(s, f) == dh[s][f] # NoDh
Cached(s, f) == \E k \in DOMAIN cache[s] : cache[s][k] = f
EntryOf(s, f) == dh[s][f].file_id

(* References of file variables: the others are the cache's.               *)
FileVars(s, f) == dh[s][f].open_count - (IF Cached(s, f) THEN 1 ELSE 0)

Abs(n) == IF n < 0 THEN -n ELSE n

(* What dh_flush_header is going to write: the header as it is on disk,    *)
(* with the parameters of the file table.                                  *)
Flushed(s, f) == [disk[f] EXCEPT !.params = table[EntryOf(s, f)].params]

(* A header written over one that was not the one read, or with parameters *)
(* that have changed since, or used for the file table when it is no more  *)
(* the one on disk.                                                        *)
Overtaken(hdr, now, f) == IF hdr = now THEN stale ELSE stale \cup {f}

-----------------------------------------------------------------------------
(* dh_close, for a list of files: a header that has been updated is read   *)
(* and completed, written, and then the file is released.                  *)
Closing(d, s, fs, next, tries) ==
  IF fs = <<>>
  THEN IF next = NoFile THEN Idle
       ELSE [Idle EXCEPT !.kind = "exclusive", !.file = next, !.tries = tries]
  ELSE [Idle EXCEPT !.kind = "close", !.file = Head(fs), !.rest = Tail(fs),
                    !.hdr = IF d[Head(fs)].updated
                            THEN <<Flushed(s, Head(fs))>> ELSE <<>>,
                    !.next = next, !.tries = tries]

WriteHeader(s) ==
  LET f == op[s].file IN
  /\ life[s] = "live"
  /\ op[s].kind \in {"close", "flush"}
  /\ op[s].hdr # <<>>
  /\ disk' = [disk EXCEPT ![f] = op[s].hdr[1]]
  /\ stale' = Overtaken(op[s].hdr[1], Flushed(s, f), f)
  /\ dh' = [dh EXCEPT ![s][f].updated = FALSE]
  /\ op' = [op EXCEPT ![s] = IF @.kind = "flush" THEN Idle ELSE [@ EXCEPT !.hdr = <<>>]]
  /\ UNCHANGED <<table, ufm, cache, event, life, real>>

(* Mutant: the entry is released on every close, not on the last.          *)
ReleaseEach(s) ==
  LET f == op[s].file
      i == EntryOf(s, f) IN
  /\ In(s, "close")
  /\ op[s].hdr = <<>>
  /\ dh' = [dh EXCEPT ![s][f] = IF @.open_count > 1
                                THEN [@ EXCEPT !.open_count = @ - 1] ELSE NoDh]
  /\ table' = [table EXCEPT ![i].ref_ct = IF s \in ufm[i] THEN @ - 1 ELSE @]
  /\ ufm' = [ufm EXCEPT ![i] = @ \ {s}]
  /\ op' = [op EXCEPT ![s] = Closing(dh'[s], s, @.rest, @.next, @.tries)]
  /\ UNCHANGED <<cache, event, life, disk, real, stale>>

Release(s) ==
  LET f == op[s].file
      i == EntryOf(s, f) IN
  /\ In(s, "close")
  /\ op[s].hdr = <<>>
  /\ IF dh[s][f].open_count > 1
     THEN /\ dh' = [dh EXCEPT ![s][f].open_count = @ - 1]
          /\ UNCHANGED <<table, ufm>>
     ELSE /\ dh' = [dh EXCEPT ![s][f] = NoDh]
          /\ table' = [table EXCEPT ![i].ref_ct = @ - 1]
          /\ ufm' = [ufm EXCEPT ![i] = @ \ {s}]
  /\ op' = [op EXCEPT ![s] = Closing(dh'[s], s, @.rest, @.next, @.tries)]
  /\ UNCHANGED <<cache, event, life, disk, real, stale>>

-----------------------------------------------------------------------------
(* open_file: through the cache, through the DH_FILE the session has, or   *)
(* dh_open, which reads the header before get_file_entry has found or      *)
(* filled the entry.  A file opened by name is put in the cache: a full    *)
(* cache gives its last place.  d: the DH_FILEs with the file opened.      *)
IntoCache(s, f, voc, d) ==
  LET full == Len(cache[s]) = CacheSize IN
  IF ~voc
  THEN /\ dh' = [dh EXCEPT ![s] = d]
       /\ op' = [op EXCEPT ![s] = Idle]
       /\ UNCHANGED cache
  ELSE /\ dh' = [dh EXCEPT ![s] = [d EXCEPT ![f].open_count = @ + 1]]
       /\ cache' = [cache EXCEPT
                      ![s] = IF full THEN [@ EXCEPT ![CacheSize] = f] ELSE Append(@, f)]
       /\ op' = [op EXCEPT
                   ![s] = IF full THEN Closing(d, s, <<cache[s][CacheSize]>>, NoFile, 0)
                          ELSE Idle]

ToFront(q, f) ==
  LET k == CHOOSE k \in DOMAIN q : q[k] = f
  IN [j \in DOMAIN q |-> IF j = 1 THEN f ELSE IF j <= k THEN q[j - 1] ELSE q[j]]

OpenCached(s, f) ==
  /\ Begin(s)
  /\ Cached(s, f)
  /\ dh[s][f].open_count < MaxOpens[f]
  /\ dh' = [dh EXCEPT ![s][f].open_count = @ + 1]
  /\ cache' = [cache EXCEPT ![s] = ToFront(@, f)]
  /\ UNCHANGED <<table, ufm, event, op, life, disk, real, stale>>

OpenAgain(s, f, voc) ==
  /\ Begin(s)
  /\ ~Cached(s, f)
  /\ IsOpen(s, f)
  /\ dh[s][f].open_count < MaxOpens[f]
  /\ table[EntryOf(s, f)].ref_ct > 0       \* otherwise OpenOwn
  /\ IntoCache(s, f, voc, [dh[s] EXCEPT ![f].open_count = @ + 1])
  /\ UNCHANGED <<table, ufm, event, life, disk, real, stale>>

(* DHE_EXCLUSIVE for a file the session itself has exclusively: the error  *)
(* exit frees the DH_FILE it has just found, the one in use, and leaves    *)
(* the entry and the file map as they are.  What the freed memory holds    *)
(* from then on is anybody's guess: the DH_FILE is gone, as here, or still *)
(* read as it was, and then nothing has changed; a session that faults on  *)
(* it is a Kill.                                                           *)
OpenOwn(s, f) ==
  /\ Begin(s)
  /\ ~Cached(s, f)
  /\ IsOpen(s, f)
  /\ table[EntryOf(s, f)].ref_ct < 0
  /\ dh' = [dh EXCEPT ![s][f] = NoDh]
  /\ stale' = IF dh[s][f].updated THEN stale \cup {f} ELSE stale
  /\ UNCHANGED <<table, ufm, cache, event, op, life, disk, real>>

ReadHeader(s, f, voc) ==
  /\ Begin(s)
  /\ ~IsOpen(s, f)
  /\ op' = [op EXCEPT ![s] = [Idle EXCEPT !.kind = "open", !.file = f, !.voc = voc,
                                          !.hdr = <<disk[f]>>]]
  /\ UNCHANGED <<table, ufm, dh, cache, event, life, disk, real, stale>>

InUse(i) == table[i].ref_ct # 0
Matching(f) == {i \in Entries : InUse(i) /\ table[i].file = f}
Free == {i \in Entries : ~InUse(i)}
First(S) == CHOOSE i \in S : \A j \in S : i <= j

(* DHE_EXCLUSIVE or DHE_TOO_MANY_FILES.                                    *)
RefuseOpen(s) ==
  LET f == op[s].file IN
  /\ In(s, "open")
  /\ IF Matching(f) = {} THEN Free = {} ELSE table[First(Matching(f))].ref_ct < 0
  /\ op' = [op EXCEPT ![s] = Idle]
  /\ UNCHANGED <<table, ufm, dh, cache, event, life, disk, real, stale>>

Opened(s, i) ==
  /\ ufm' = [ufm EXCEPT ![i] = @ \cup {s}]
  /\ IntoCache(s, op[s].file, op[s].voc,
               [dh[s] EXCEPT ![op[s].file] =
                  [file_id |-> i, open_count |-> 1, updated |-> FALSE]])
  /\ UNCHANGED <<event, life, disk, real>>

ShareEntry(s) ==
  LET i == First(Matching(op[s].file)) IN
  /\ In(s, "open")
  /\ Matching(op[s].file) # {}
  /\ table[i].ref_ct > 0
  /\ table' = [table EXCEPT ![i].ref_ct = @ + 1]
  /\ Opened(s, i)
  /\ UNCHANGED stale

FillEntry(s) ==
  LET f == op[s].file
      i == First(Free) IN
  /\ In(s, "open")
  /\ Matching(f) = {}
  /\ Free # {}
  /\ table' = [table EXCEPT ![i] = [file |-> f, ref_ct |-> 1,
                                    params |-> op[s].hdr[1].params]]
  /\ stale' = Overtaken(op[s].hdr[1], disk[f], f)
  /\ Opened(s, i)

(* dio_close: exclusive access ends before the file is closed.             *)
Close(s, f) ==
  /\ Begin(s)
  /\ IsOpen(s, f)
  /\ FileVars(s, f) > 0
  /\ table' = [table EXCEPT ![EntryOf(s, f)].ref_ct = IF @ < 0 THEN 1 ELSE @]
  /\ op' = [op EXCEPT ![s] = Closing(dh[s], s, <<f>>, NoFile, 0)]
  /\ UNCHANGED <<ufm, dh, cache, event, life, disk, real, stale>>

(* Mutant: FILE_UPDATED is not set.                                        *)
UpdateUnmarked(s, f) ==
  LET i == EntryOf(s, f) IN
  /\ Begin(s)
  /\ IsOpen(s, f)
  /\ FileVars(s, f) > 0
  /\ real[f].params < MaxUpdates[f]
  /\ real' = [real EXCEPT ![f].params = @ + 1]
  /\ table' = [table EXCEPT ![i].params = IF @ = real[f].params THEN @ + 1 ELSE @]
  /\ UNCHANGED <<ufm, dh, cache, event, op, life, disk, stale>>

-----------------------------------------------------------------------------
(* A write, delete, split or merge: the parameters change in the file      *)
(* table.  Some of them flush the header at once, others leave it to the   *)
(* close.                                                                  *)
Update(s, f) ==
  LET i == EntryOf(s, f) IN
  /\ Begin(s)
  /\ IsOpen(s, f)
  /\ FileVars(s, f) > 0
  /\ real[f].params < MaxUpdates[f]
  /\ real' = [real EXCEPT ![f].params = @ + 1]
  /\ table' = [table EXCEPT ![i].params = IF @ = real[f].params THEN @ + 1 ELSE @]
  /\ dh' = [dh EXCEPT ![s][f].updated = TRUE]
  /\ UNCHANGED <<ufm, cache, event, op, life, disk, stale>>

FlushHeader(s, f) ==
  /\ Begin(s)
  /\ IsOpen(s, f)
  /\ dh[s][f].updated
  /\ op' = [op EXCEPT ![s] = [Idle EXCEPT !.kind = "flush", !.file = f,
                                          !.hdr = <<Flushed(s, f)>>]]
  /\ UNCHANGED <<table, ufm, dh, cache, event, life, disk, real, stale>>

(* FILEINFO(f, FL$EXCLUSIVE): the cache is emptied, then access is tried,  *)
(* after the first attempt with an event for all sessions to do the same.  *)
AskExclusive(s, f) ==
  /\ Begin(s)
  /\ f \in Reserved
  /\ IsOpen(s, f)
  /\ FileVars(s, f) > 0
  /\ table[EntryOf(s, f)].ref_ct > 0
  /\ op' = [op EXCEPT ![s] = Closing(dh[s], s, cache[s], f, 0)]
  /\ cache' = [cache EXCEPT ![s] = <<>>]
  /\ UNCHANGED <<table, ufm, dh, event, life, disk, real, stale>>

(* Mutant: the session itself may have the file open twice.                *)
MayHaveTwice(s, f) == table[EntryOf(s, f)].ref_ct = 1

MayHaveAlone(s, f) ==
  /\ table[EntryOf(s, f)].ref_ct = 1
  /\ dh[s][f].open_count = 1

GainExclusive(s) ==
  LET f == op[s].file IN
  /\ In(s, "exclusive")
  /\ MayHaveAlone(s, f)
  /\ table' = [table EXCEPT ![EntryOf(s, f)].ref_ct = -1]
  /\ op' = [op EXCEPT ![s] = Idle]
  /\ UNCHANGED <<ufm, dh, cache, event, life, disk, real, stale>>

TryAgain(s) ==
  /\ In(s, "exclusive")
  /\ ~MayHaveAlone(s, op[s].file)
  /\ event' = IF op[s].tries = 0 THEN {t \in Sessions : life[t] # "gone"} ELSE event
  /\ op' = [op EXCEPT ![s] = IF @.tries + 1 = MaxTries THEN Idle
                             ELSE [@ EXCEPT !.tries = op[s].tries + 1]]
  /\ UNCHANGED <<table, ufm, dh, cache, life, disk, real, stale>>

(* Mutant: dh_cache_size is not set to 0.                                  *)
ProcessEventsKept(s) ==
  /\ Begin(s)
  /\ s \in event
  /\ event' = event \ {s}
  /\ op' = [op EXCEPT ![s] = Closing(dh[s], s, cache[s], NoFile, 0)]
  /\ UNCHANGED <<table, ufm, dh, cache, life, disk, real, stale>>

(* process_events: flush_dh_cache.                                         *)
ProcessEvents(s) ==
  /\ Begin(s)
  /\ s \in event
  /\ event' = event \ {s}
  /\ op' = [op EXCEPT ![s] = Closing(dh[s], s, cache[s], NoFile, 0)]
  /\ cache' = [cache EXCEPT ![s] = <<>>]
  /\ UNCHANGED <<table, ufm, dh, life, disk, real, stale>>

-----------------------------------------------------------------------------
(* Headers changed elsewhere: SET.TRIGGER under exclusive access,          *)
(* CREATE.INDEX (create_ak) with the file open and shared.                 *)
Changes(f) == real[f].ak_map + real[f].trigger

(* Mutant: the trigger is set whether or not exclusive access was granted. *)
SetTriggerShared(s, f) ==
  /\ Begin(s)
  /\ IsOpen(s, f)
  /\ Changes(f) < MaxChanges[f]
  /\ op' = [op EXCEPT ![s] = [Idle EXCEPT !.kind = "trigger", !.file = f,
                                          !.hdr = <<[disk[f] EXCEPT !.trigger = @ + 1]>>]]
  /\ UNCHANGED <<table, ufm, dh, cache, event, life, disk, real, stale>>

SetTrigger(s, f) ==
  /\ Begin(s)
  /\ IsOpen(s, f)
  /\ table[EntryOf(s, f)].ref_ct < 0
  /\ Changes(f) < MaxChanges[f]
  /\ op' = [op EXCEPT ![s] = [Idle EXCEPT !.kind = "trigger", !.file = f,
                                          !.hdr = <<[disk[f] EXCEPT !.trigger = @ + 1]>>]]
  /\ UNCHANGED <<table, ufm, dh, cache, event, life, disk, real, stale>>

CreateIndex(s, f) ==
  /\ Begin(s)
  /\ IsOpen(s, f)
  /\ FileVars(s, f) > 0
  /\ table[EntryOf(s, f)].ref_ct > 0
  /\ Changes(f) < MaxChanges[f]
  /\ op' = [op EXCEPT ![s] = [Idle EXCEPT !.kind = "index", !.file = f,
                                          !.hdr = <<[disk[f] EXCEPT !.ak_map = @ + 1]>>]]
  /\ UNCHANGED <<table, ufm, dh, cache, event, life, disk, real, stale>>

WriteTrigger(s) ==
  LET f == op[s].file IN
  /\ In(s, "trigger")
  /\ disk' = [disk EXCEPT ![f] = op[s].hdr[1]]
  /\ real' = [real EXCEPT ![f].trigger = @ + 1]
  /\ stale' = Overtaken(op[s].hdr[1], [disk[f] EXCEPT !.trigger = @ + 1], f)
  /\ op' = [op EXCEPT ![s] = Idle]
  /\ UNCHANGED <<table, ufm, dh, cache, event, life>>

WriteIndex(s) ==
  LET f == op[s].file IN
  /\ In(s, "index")
  /\ disk' = [disk EXCEPT ![f] = op[s].hdr[1]]
  /\ real' = [real EXCEPT ![f].ak_map = @ + 1]
  /\ stale' = Overtaken(op[s].hdr[1], [disk[f] EXCEPT !.ak_map = @ + 1], f)
  /\ op' = [op EXCEPT ![s] = Idle]
  /\ UNCHANGED <<table, ufm, dh, cache, event, life>>

-----------------------------------------------------------------------------
(* A killed session: its memory is gone, and with it what it has not       *)
(* flushed; its references stay until remove_user.                         *)
Kill(s) ==
  /\ s \in Mortals
  /\ life[s] = "live"
  /\ life' = [life EXCEPT ![s] = "dead"]
  /\ stale' = stale \cup {f \in Files : dh[s][f].updated}
  /\ op' = [op EXCEPT ![s] = Idle]
  /\ dh' = [dh EXCEPT ![s] = [f \in Files |-> NoDh]]
  /\ cache' = [cache EXCEPT ![s] = <<>>]
  /\ UNCHANGED <<table, ufm, event, disk, real>>

(* Mutant: the -1 of exclusive access is taken for a count.                *)
ReapSigned(s) ==
  /\ life[s] = "dead"
  /\ life' = [life EXCEPT ![s] = "gone"]
  /\ table' = [i \in Entries |->
                 [table[i] EXCEPT !.ref_ct = IF s \in ufm[i] THEN @ - 1 ELSE @]]
  /\ ufm' = [i \in Entries |-> ufm[i] \ {s}]
  /\ event' = event \ {s}
  /\ UNCHANGED <<dh, cache, op, disk, real, stale>>

Reap(s) ==
  /\ life[s] = "dead"
  /\ life' = [life EXCEPT ![s] = "gone"]
  /\ table' = [i \in Entries |->
                 [table[i] EXCEPT !.ref_ct = IF s \in ufm[i] THEN Abs(@) - 1 ELSE @]]
  /\ ufm' = [i \in Entries |-> ufm[i] \ {s}]
  /\ event' = event \ {s}
  /\ UNCHANGED <<dh, cache, op, disk, real, stale>>

Login(s) ==
  /\ life[s] = "gone"
  /\ life' = [life EXCEPT ![s] = "live"]
  /\ UNCHANGED <<table, ufm, dh, cache, event, op, disk, real, stale>>

Next ==
  \E s \in Sessions :
    \/ \E f \in Wanted[s] :
         \/ OpenCached(s, f) \/ OpenOwn(s, f) \/ Close(s, f)
         \/ \E voc \in BOOLEAN : OpenAgain(s, f, voc) \/ ReadHeader(s, f, voc)
         \/ Update(s, f) \/ FlushHeader(s, f)
         \/ AskExclusive(s, f) \/ SetTrigger(s, f) \/ CreateIndex(s, f)
    \/ RefuseOpen(s) \/ ShareEntry(s) \/ FillEntry(s)
    \/ WriteHeader(s) \/ Release(s)
    \/ GainExclusive(s) \/ TryAgain(s) \/ ProcessEvents(s)
    \/ WriteTrigger(s) \/ WriteIndex(s)
    \/ Kill(s) \/ Reap(s) \/ Login(s)

Spec == Init /\ [][Next]_vars

-----------------------------------------------------------------------------
(* The reference count of an entry, the -1 of exclusive access counted as  *)
(* one, is the number of sessions that count it in their file map, also    *)
(* after sessions were killed with exclusive access and reaped             *)
(* (dh_open.c, dh_close.c, remove_user).                                   *)
RefCountExact ==
  \A i \in Entries :
    /\ Abs(table[i].ref_ct) = Cardinality(ufm[i])
    /\ table[i].ref_ct >= -1

(* The entry a session's DH_FILE points at stays in use for its file, and  *)
(* a live session counts in its file map just those it has open: no        *)
(* sequence of closes, kills and reaps frees an entry under a session.  A  *)
(* file has one entry, so all sessions work with the same parameters.  One *)
(* exception, which the code makes: a DH_FILE that dh_open has freed under *)
(* exclusive access (OpenOwn) leaves an entry that is counted, exclusive   *)
(* and nobody's until the session is reaped.                               *)
EntriesPinned ==
  /\ \A f \in Files : Cardinality(Matching(f)) <= 1
  /\ \A s \in Sessions : \A i \in Entries :
       /\ \A f \in Files : EntryOf(s, f) = i =>
                             /\ InUse(i)
                             /\ table[i].file = f
                             /\ s \in ufm[i]
       /\ life[s] = "live" /\ s \in ufm[i] =>
            \/ \E f \in Files : EntryOf(s, f) = i
            \/ table[i].ref_ct < 0

(* A file under exclusive access is open to one session, once, and nobody  *)
(* is writing a header of it that was read when others could change it     *)
(* (op_dio2.c: "it must be open only to this process").                    *)
ExclusiveAlone ==
  \A i \in Entries : table[i].ref_ct < 0 =>
    \A s, t \in Sessions :
      /\ s \in ufm[i] /\ t \in ufm[i] => s = t
      /\ EntryOf(s, table[i].file) = i => dh[s][table[i].file].open_count = 1
      /\ s \notin ufm[i] /\ op[s].file = table[i].file /\ op[s].hdr # <<>>
           => op[s].kind = "open"

(* The trigger set last is the one in the header: nobody's flush puts an   *)
(* older header over it, because SET.TRIGGER has exclusive access          *)
(* (dh_misc.c: "We have exclusive access so needn't lock").                *)
TriggerKept == \A f \in Files : disk[f].trigger = real[f].trigger

(* The parameters of an open file are those of its data, and a file nobody *)
(* has open can be opened again with them, except after one of four        *)
(* events: a header written over a newer one, an entry filled from a       *)
(* header that was no more on disk, a session killed, or its DH_FILE       *)
(* freed, with changes it had not flushed.                                 *)
ParamsCurrent ==
  \A f \in Files \ stale :
    /\ \A i \in Matching(f) : table[i].params = real[f].params
    /\ Matching(f) = {} => disk[f].params = real[f].params
=============================================================================
