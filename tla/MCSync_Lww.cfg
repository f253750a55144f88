SPECIFICATION FairSpec
CONSTANTS
  u1 = u1
  u2 = u2
  d1 = d1
  d2 = d2
  m1 = m1
  m2 = m2
  a1 = a1
  t1 = t1
  Users = {u1, u2}
  Devices = {d1, d2}
  UserOf <- TwoUsers
  Answers = {}
  Targets = {}
  Marks = {m1, m2}
  Requests = {r1, r2, r3}
  Batches <- RaceBatches
  Malformed <- OneInvalid
  MaxSyncItems = 2
  Overlap = 2
  MaxClockSkew = 1
  MaxTx = 1
  MaxClock = 1
  NoRow = NoRow
  NoRequest = NoRequest
INVARIANTS OnlyCommittedOwnRows LastWriteWins
PROPERTIES EveryRequestEnds ImplementsLwwStore
CHECK_DEADLOCK FALSE
