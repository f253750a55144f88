CONSTANTS
  e1 = e1  ada = ada  eva = eva  member = member  editor = editor
  null = null  bad = bad  name = name  church = church
  r1 = r1  r2 = r2
  Requests = {r1, r2}
  MaxVersion = 2
  Claims <- ClaimsOf
  Emails = {e1}
  Names = {ada}
  Roles = {member, editor}
  Fields = {name, church}
  DisplayName = name
  Values = {ada, eva}
  Patches <- Bodies
  Null = null
  Bad = bad
  NoRow = NoRow
  NoEntry = NoEntry
  NoPatch = NoPatch
SPECIFICATION FairSpec
INVARIANTS AccountInv PatchesKept
PROPERTIES RoleFollows
