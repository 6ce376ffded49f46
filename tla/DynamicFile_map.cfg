SPECIFICATION Spec
CONSTANTS
  u1 = u1
  u2 = u2
  i1 = i1
  i2 = i2
  i3 = i3
  small = small
  large = large
  big = big
  NoRec = NoRec
  Users = {u1, u2}
  Ids = {i1, i2, i3}
  Vals = {small, large, big}
  HashOf <- Hashes
  Size <- Sizes
  BigBlocks <- Bigs
  BlockSize = 2
  MinModulus = 1
  MaxModulus = 3
  MaxOverflow = 8
  SplitLoad = 110
  MergeLoad = 60
  MaxUpdates = 4
  Writable <- Writes
  Deletable <- Deletes
  Readers = {u2}
  Selectors = {u2}
INVARIANTS RecordsAtHome LockedAtHome BlocksAccounted CountsExact
PROPERTIES SelectDelivers ImplementsMap
