SPECIFICATION Spec
CONSTANTS
  s1 = s1
  s2 = s2
  f1 = f1
  f2 = f2
  r1 = r1
  r2 = r2
  va = va
  vb = vb
  NoRec = NoRec
  NoLock = NoLock
  Nothing = Nothing
  Sessions = {s1, s2}
  Files = {f1}
  Recs = {r1, r2}
  FileOf <- OneFile
  Vals = {va}
  Quota <- TwoNone
  MaxLevel = 2
  Closers = {}
  Executors = {s1}
  Nesters = {s1}
  Aborters = {s1}
  Mortals = {s1}
  Fallible = {r1}
  Unrestorable = {r1}
INVARIANTS TypeOK LocksAreLive
