CONSTANTS
  sw = sw  en = en  verse = verse  school = school  hymn = hymn
  Items = {1, 2, 3, 4, 5}
  Langs = {sw, en}
  LangOf <- LangsOf
  Kinds = {verse, school, hymn}
  KindOf <- KindsOf
  Verse = verse
  SabbathSchool = school
  Fallback = en
  KindSets <- Asked
  Limits = {1, 3}
  DayLength = 1
  MaxTime = 1
  MaxEdits = 1
  NoCursor = NoCursor
SPECIFICATION FairSpec
INVARIANTS FeedInv SteadyOnce KindsInterleaved KindsInOrder
PROPERTIES FeedEnds
