SPECIFICATION Spec
CONSTANTS
  u1 = u1
  u2 = u2
  d1 = d1
  d2 = d2
  m1 = m1
  m2 = m2
  a1 = a1
  t1 = t1
  Users = {u1}
  Devices = {d1, d2}
  UserOf <- SameUser
  Answers = {}
  Targets = {t1}
  Marks = {}
  Requests = {r1, r2, r3}
  Batches <- PullBatches
  Malformed <- NoBatch
  MaxSyncItems = 2
  Overlap = 2
  MaxClockSkew = 1
  MaxTx = 1
  MaxClock = 3
  NoRow = NoRow
  NoRequest = NoRequest
SYMMETRY Symmetry
INVARIANTS SyncInv NoMissedChange
CHECK_DEADLOCK FALSE
