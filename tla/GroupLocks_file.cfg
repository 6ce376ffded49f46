SPECIFICATION FairSpec
CONSTANTS
  u1 = u1
  u2 = u2
  u3 = u3
  h0 = h0
  g1 = g1
  g2 = g2
  g3 = g3
  NoUser = NoUser
  NoLock = NoLock
  Users = {u1, u2, u3}
  Groups = {h0, g1, g2, g3}
  GroupHash <- Collide
  NumGLocks = 6
  Plans <- ThreeSessions
  Mortals = {u1}
INVARIANTS TypeOK GroupsExclude GroupCountsExact
PROPERTIES EveryoneFinishes ImplementsService
CHECK_DEADLOCK FALSE
