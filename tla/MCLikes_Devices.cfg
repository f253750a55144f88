CONSTANTS
  u1 = u1  u2 = u2  d1 = d1  l1 = l1  l2 = l2
  Users = {u1, u2}
  Devices = {d1}
  UserOf <- OneDevice
  Locks = {l1, l2}
  HashText <- OwnLock
  Calls = {c1, c2}
  Marks = {m1, m2, m3}
  MaxClock = 2
  MaxEdits = 2
  NoRow = NoRow
  NoCall = NoCall
SYMMETRY Symmetry
SPECIFICATION Spec
INVARIANTS LikesInv OneActiveLike AnswerIsTrue NeverInflated
