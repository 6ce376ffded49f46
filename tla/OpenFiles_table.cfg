SPECIFICATION Spec
CONSTANTS
  s1 = s1
  s2 = s2
  Sessions = {s1, s2}
  Files = {f1, f2}
  f1 = f1
  f2 = f2
  NoFile = NoFile
  NumFiles = 2
  CacheSize = 1
  MaxTries = 2
  MaxOpens <- OpensOf
  MaxUpdates <- UpdatesOf
  MaxChanges <- UpdatesOf
  Reserved = {f1}
  Wanted <- WantedBy
  Mortals = {s1}
INVARIANTS TypeOK RefCountExact EntriesPinned ExclusiveAlone TriggerKept ParamsCurrent
CHECK_DEADLOCK FALSE
