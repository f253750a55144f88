CONSTANTS
  neno = neno  suv = suv  sw = sw  en = en 
  Jobs = {j1, j2}
  Codes = {neno, suv}
  Langs = {sw, en}
  KnownBooks = {"JHN", "GEN"}
  Shelves <- AllShelves
  NoRow = NoRow
  BookNames <- Names
  FallbackLang = en
  Chapters = {1, 9}
  IntSize = 8
  NoCode = NoCode  NoLang = NoLang  NoName = NoName
  SearchAsks <- Queries
  NoRef = NoRef  AllScopes = AllScopes
  Paragraphs <- SomeParagraphs
  BeliefTexts <- SomeBeliefs
  Hymns <- SomeHymns
  Videos <- SomeVideos
  Similar <- Alike
  Unaccented <- Accents
  PerGroup = 2
  SnippetRunes = 3
SPECIFICATION Spec
SYMMETRY Symmetry
CONSTRAINT ParseOnly
INVARIANTS OnlyReadingText ChapterOfOneImport ParallelIsSameVerse OfferedCanBeOpened TypedVerseOnce SnippetShowsMatch
PROPERTIES ImplementsTextStore
