---------------------------- MODULE LockService ----------------------------
(***************************************************************************)
(* What the lock manager promises: locks on records, shared or for update, *)
(* and locks on whole files, granted only when nobody else is in the way.  *)
(* No table, no counters, no waiting; RecordLocks implements it.           *)
(***************************************************************************)
CONSTANTS
  Users,    \* sessions
  NoUser,   \* nobody
  Recs,     \* records
  Files,    \* files
  FileOf    \* FileOf[r]: the file of record r

VARIABLES
  held,    \* [owner, rec, mode] of every record lock
  fheld    \* the owner of each file's lock, or NoUser

lsvars == <<held, fheld>>

Modes == {"update", "shared"}

LSTypeOK ==
  /\ held \subseteq [owner : Users, rec : Recs, mode : Modes]
  /\ fheld \in [Files -> Users \cup {NoUser}]

LSInit == held = {} /\ fheld = [f \in Files |-> NoUser]

Compatible(u, r, m) ==
  /\ fheld[FileOf[r]] \in {NoUser, u}
  /\ \A h \in held : (h.rec = r /\ h.owner # u) => (m = "shared" /\ h.mode = "shared")

(* A grant replaces the lock the user had on the record, in either mode.    *)
Grant(u, r, m) ==
  /\ Compatible(u, r, m)
  /\ held' = {h \in held : h.owner # u \/ h.rec # r}
               \cup {[owner |-> u, rec |-> r, mode |-> m]}
  /\ UNCHANGED fheld

GrantFile(u, f) ==
  /\ fheld[f] = NoUser
  /\ \A h \in held : FileOf[h.rec] = f => h.owner = u
  /\ fheld' = [fheld EXCEPT ![f] = u]
  /\ UNCHANGED held

(* Any locks may be given up together, by their owner's statement or        *)
(* session, or by an administrator.                                         *)
GiveBack ==
  \E S \in SUBSET held, FS \in SUBSET Files :
    /\ held' = held \ S
    /\ fheld' = [f \in Files |-> IF f \in FS THEN NoUser ELSE fheld[f]]

LSNext ==
  \/ \E u \in Users, r \in Recs, m \in Modes : Grant(u, r, m)
  \/ \E u \in Users, f \in Files : GrantFile(u, f)
  \/ GiveBack

LSSpec == LSInit /\ [][LSNext]_lsvars

(* Two users hold one record only if both share it, a user holds a record   *)
(* once, and nobody holds a record of a file another user has locked: what  *)
(* a program that obtained READU, READL or FILELOCK relies on.              *)
LSExclusive ==
  /\ \A h, k \in held : h.rec = k.rec /\ h # k =>
       h.owner # k.owner /\ h.mode = "shared" /\ k.mode = "shared"
  /\ \A h \in held : fheld[FileOf[h.rec]] \in {NoUser, h.owner}
=============================================================================
