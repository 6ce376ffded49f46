SPECIFICATION FairSpec
CONSTANTS
  u1 = u1
  u2 = u2
  u3 = u3
  f1 = f1
  f2 = f2
  r1 = r1
  r2 = r2
  r3 = r3
  v1 = v1
  v2 = v2
  v3 = v3
  NoUser = NoUser
  NoLock = NoLock
  Users = {u1, u2}
  Files = {f1}
  Recs = {r1, r2}
  FileOf <- OneFile
  HashOf <- AllCollide
  Fvars = {v1}
  FvarFile <- FvarsOfF1
  NonTxn = {}
  NumLocks = 2
  Deadlock = TRUE
  AskedModes = {"update"}
  FileLockers = {u2}
  Admins = {}
  FileAdmins = {}
  Mortals = {}
  Breakers = {}
  MaxTxn = 0
  MaxLlt = 1
  MaxWaiters = 2
  Writers = {}
PROPERTIES AllDeadlocksTrapped
