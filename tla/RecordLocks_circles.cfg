SPECIFICATION FairSpec
CONSTANTS
  u1 = u1
  u2 = u2
  u3 = u3
  f1 = f1
  f2 = f2
  r1 = r1
  r2 = r2
  r3 = r3
  v1 = v1
  v2 = v2
  v3 = v3
  NoUser = NoUser
  NoLock = NoLock
  Users = {u1, u2, u3}
  Files = {f1, f2}
  Recs = {r1, r3}
  FileOf <- R3InF2
  HashOf <- LastCell
  Fvars = {v1, v3}
  FvarFile <- V3OfF2
  NonTxn = {}
  NumLocks = 2
  Deadlock = TRUE
  AskedModes = {"update"}
  FileLockers = {u1}
  Admins = {}
  FileAdmins = {u2}
  Mortals = {}
  Breakers = {}
  MaxTxn = 0
  MaxLlt = 1
  MaxWaiters = 3
  Writers = {}
INVARIANTS WaitsAreCounted
PROPERTIES DeadlocksTrapped
CHECK_DEADLOCK FALSE
