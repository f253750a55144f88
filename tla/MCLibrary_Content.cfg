CONSTANTS
  sw = sw  en = en  c1 = c1  c2 = c2  reader = reader
  Calls = {c1, c2, reader}
  Databases <- SomeDatabases
  Workloads <- SomeWorkloads
  AnswerIds = {a1, a2, a3}
  NoLang = NoLang
  NoRow = NoRow
  HymnLimit = 2
  IntSize = 16
SPECIFICATION Spec
SYMMETRY Symmetry
INVARIANTS LatestAnswerStands OneAnswer AnswersAreTheContent OnlyPublished
