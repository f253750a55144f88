CONSTANTS
  u1 = u1  u2 = u2  d1 = d1  l1 = l1  l2 = l2
  Users = {u1}
  Devices <- NoDevices
  UserOf <- NoUserOf
  Locks = {l1}
  HashText <- OneLock
  Calls = {c1, c2, c3}
  Marks = {m1, m2, m3}
  MaxClock = 1
  MaxEdits = 0
  NoRow = NoRow
  NoCall = NoCall
SPECIFICATION FairSpec
INVARIANTS CallsInOrder
PROPERTIES EveryCallEnds
CHECK_DEADLOCK FALSE
