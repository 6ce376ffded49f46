SPECIFICATION Spec
CONSTANTS
  s1 = s1
  s2 = s2
  f1 = f1
  f2 = f2
  r1 = r1
  r2 = r2
  va = va
  vb = vb
  NoRec = NoRec
  NoLock = NoLock
  Nothing = Nothing
  Sessions = {s1, s2}
  Files = {f1}
  Recs = {r1, r2}
  FileOf <- OneFile
  Vals = {va}
  Quota <- One
  MaxLevel = 1
  Closers = {}
  Executors = {}
  Nesters = {}
  Aborters = {}
  Mortals = {}
  Fallible = {r1, r2}
  Unrestorable = {}
SYMMETRY SymmetricSessions
INVARIANTS UndoIsMine PendingLocked
PROPERTIES CommitsAtomically
