----------------------------- MODULE TxnService -----------------------------
(***************************************************************************)
(* What BEGIN TRANSACTION, COMMIT and ROLLBACK promise to programs that    *)
(* lock what they write: the writes of a transaction reach the files all   *)
(* together or not at all, and nobody else writes a record with a write    *)
(* pending.  Transactions implements it.                                   *)
(***************************************************************************)
CONSTANTS
  Sessions,
  Recs,
  Vals,      \* contents of a record
  NoRec,     \* the content of a record that does not exist
  Nothing    \* no write is pending

VARIABLES
  store,     \* the committed content of each record
  pend       \* pend[s][r]: what s is going to write to r

tsvars == <<store, pend>>

Contents == Vals \cup {NoRec}

NonePending == [r \in Recs |-> Nothing]

TSTypeOK ==
  /\ store \in [Recs -> Contents]
  /\ pend \in [Sessions -> [Recs -> Contents \cup {Nothing}]]

TSInit ==
  /\ store = [r \in Recs |-> NoRec]
  /\ pend = [s \in Sessions |-> NonePending]

Alone(s, r) == \A t \in Sessions \ {s} : pend[t][r] = Nothing

Put(s, r, v) ==
  /\ Alone(s, r)
  /\ pend' = [pend EXCEPT ![s][r] = v]
  /\ UNCHANGED store

(* All pending writes of the session take effect in one step.               *)
Commit(s) ==
  /\ store' = [r \in Recs |-> IF pend[s][r] = Nothing THEN store[r] ELSE pend[s][r]]
  /\ pend' = [pend EXCEPT ![s] = NonePending]

Discard(s) ==
  /\ pend' = [pend EXCEPT ![s] = NonePending]
  /\ UNCHANGED store

(* A write outside a transaction.                                           *)
PutNow(s, r, v) ==
  /\ pend[s] = NonePending /\ Alone(s, r)
  /\ store' = [store EXCEPT ![r] = v]
  /\ UNCHANGED pend

TSNext ==
  \E s \in Sessions :
    \/ \E r \in Recs, v \in Contents : Put(s, r, v) \/ PutNow(s, r, v)
    \/ Commit(s) \/ Discard(s)

TSSpec == TSInit /\ [][TSNext]_tsvars
=============================================================================
