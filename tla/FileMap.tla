------------------------------ MODULE FileMap ------------------------------
(***************************************************************************)
(* What a hashed file promises: a map from record ids to records that is   *)
(* read, written and deleted record by record, whatever the file does to   *)
(* its groups meanwhile.  DynamicFile implements it.                       *)
(***************************************************************************)
CONSTANTS
  Users,   \* sessions
  Ids,     \* record ids
  Vals,    \* records
  NoRec    \* no such record

VARIABLES
  content,  \* content[i]: the record with id i, or NoRec
  pending,  \* pending[u]: what session u has begun to write or delete, if anything
  asked,    \* asked[u]: the id session u READs, if any
  reply     \* what the last READ returned

fmvars == <<content, pending, asked, reply>>

FMInit ==
  /\ content = [i \in Ids |-> NoRec]
  /\ pending = [u \in Users |-> {}]
  /\ asked = [u \in Users |-> {}]
  /\ reply = NoRec

(* READ of an id begins.                                                    *)
Want(u) ==
  /\ asked[u] = {}
  /\ \E i \in Ids : asked' = [asked EXCEPT ![u] = {i}]
  /\ UNCHANGED <<content, pending, reply>>

(* It returns the record of that id, or that there is none.                 *)
Get(u) ==
  /\ \E i \in asked[u] : reply' = content[i]
  /\ asked' = [asked EXCEPT ![u] = {}]
  /\ UNCHANGED <<content, pending>>

(* WRITE or DELETE of one record begins.                                    *)
Ask(u) ==
  /\ pending[u] = {}
  /\ \E w \in [id : Ids, val : Vals \cup {NoRec}] : pending' = [pending EXCEPT ![u] = {w}]
  /\ UNCHANGED <<content, asked, reply>>

(* It is done: the record it was for is what it said, every other one is    *)
(* what it was.                                                             *)
Put(u) ==
  /\ \E w \in pending[u] : content' = [content EXCEPT ![w.id] = w.val]
  /\ pending' = [pending EXCEPT ![u] = {}]
  /\ UNCHANGED <<asked, reply>>

FMNext == \E u \in Users : Want(u) \/ Get(u) \/ Ask(u) \/ Put(u)

FMSpec == FMInit /\ [][FMNext]_fmvars
=============================================================================
