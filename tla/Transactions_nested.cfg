SPECIFICATION Spec
CONSTANTS
  s1 = s1
  s2 = s2
  f1 = f1
  f2 = f2
  r1 = r1
  r2 = r2
  va = va
  vb = vb
  NoRec = NoRec
  NoLock = NoLock
  Nothing = Nothing
  Sessions = {s1}
  Files = {f1, f2}
  Recs = {r1, r2}
  FileOf <- R2InF2
  Vals = {va}
  Quota <- Two
  MaxLevel = 2
  Closers = {s1}
  Executors = {s1}
  Nesters = {}
  Aborters = {}
  Mortals = {}
  Fallible = {}
  Unrestorable = {}
INVARIANTS NothingLeftBehind BegunAreLive InnerWriteWins
