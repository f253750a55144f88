-------------------------------- MODULE Bible --------------------------------
(***************************************************************************)
(* The reader's endpoints (internal/server/server.go, GetBibleChapter,      *)
(* ListBibleTranslations, ListBibleBooks; db/queries/content.sql) while      *)
(* imports replace the text. A request is several statements without a       *)
(* transaction: each sees what is committed when it runs. Requests only       *)
(* read and share nothing, so one stands for all.                            *)
(***************************************************************************)
EXTENDS Ingest

CONSTANTS
  BookNames,     \* bible_book_names: rows [book, lang, name, abbr], which nothing changes
  FallbackLang,  \* 'en' in ListBibleBooks
  Chapters,      \* the chapters that requests ask for
  IntSize,       \* 2^32, the number of values of an int32
  NoCode, NoLang, NoName

ASSUME ReaderAssumption == IntSize \in Nat \ {0} /\ IntSize % 2 = 0 /\ Chapters \subseteq Int

VARIABLES
  pc,      \* the statement that is next
  ask,     \* the request
  tr, rows, name, ptr,   \* what the statements before have found
  answer,
  seen     \* the texts of the translations that were committed since the request came

readVars == <<pc, ask, tr, rows, name, ptr, answer, seen>>
bibleVars == <<ingestVars, readVars>>

NoAsk    == [op |-> "none"]
NoAnswer == [status |-> 0]
NotFound(what) == [status |-> 404, what |-> what]

Asks ==
       [op : {"chapter"}, code : Codes, book : KnownBooks, chapter : Chapters, parallel : Codes \cup {NoCode}]
  \cup [op : {"books"}, code : Codes]
  \cup [op : {"translations"}, lang : Langs \cup {NoLang}]

ReadInit ==
  /\ pc = "idle" /\ ask = NoAsk /\ answer = NoAnswer
  /\ tr = NoRow /\ rows = <<>> /\ name = NoName /\ ptr = NoRow
  /\ seen = [c \in Codes |-> {}]

-----------------------------------------------------------------------------
(* The queries. *)

GetTranslation(c) == IF trans[c] = NoRow THEN NoRow ELSE [code |-> c, lang |-> trans[c].lang]

ChapterOf(text, b, n) == {v \in text : v.book = b /\ v.chapter = n}
ByVerse(vs) ==
  CHOOSE s \in [1 .. Cardinality(vs) -> vs] : \A i, k \in DOMAIN s : i < k => s[i].verse < s[k].verse
ListChapterVerses(c, b, n) == ByVerse(ChapterOf(TextAt(c, verses), b, n))

NamesOf(b, l) == {r \in BookNames : r.book = b /\ r.lang = l}
GetBookName(b, l) == IF NamesOf(b, l) = {} THEN NoName ELSE (CHOOSE r \in NamesOf(b, l) : TRUE).name

NameOrFallback(b, l) ==
  LET first == IF NamesOf(b, l) # {} THEN NamesOf(b, l) ELSE NamesOf(b, FallbackLang)
  IN  IF first = {} THEN b ELSE (CHOOSE r \in first : TRUE).name
ChapterCount(text, b) == Max({v.chapter : v \in {u \in text : u.book = b}} \cup {0})
ListBooks(c, l) ==
  {[book |-> b, name |-> NameOrFallback(b, l), chapters |-> ChapterCount(TextAt(c, verses), b)] : b \in KnownBooks}

HasTextAlways(c) == TRUE      \* mutant: ListBibleTranslations without its EXISTS
HasText(c) == TextAt(c, verses) # {}
ListTranslations(l) == {c \in Codes : trans[c] # NoRow /\ HasText(c) /\ (l = NoLang \/ trans[c].lang = l)}

-----------------------------------------------------------------------------
(* The handlers. *)

(* Go's conversion of the request's int to the int32 of a query, and the       *)
(* numbers that it does not change.                                          *)
Int32(n) == ((n + IntSize \div 2) % IntSize) - (IntSize \div 2)
IsInt32(n) == n \in -(IntSize \div 2) .. (IntSize \div 2) - 1

Request(a) ==
  /\ pc = "idle"
  /\ ask' = a /\ answer' = NoAnswer
  /\ seen' = [c \in Codes |-> {TextAt(c, verses)}]
  /\ UNCHANGED <<tr, rows, name, ptr>>

Answer(a) ==
  /\ answer' = a /\ pc' = "answered"
  /\ tr' = NoRow /\ rows' = <<>> /\ name' = NoName /\ ptr' = NoRow
  /\ UNCHANGED <<ask, seen>>

Ask == \E a \in Asks :
  /\ Request(a)
  /\ pc' = IF a.op = "translations" THEN "list" ELSE "translation"

FindTranslation ==
  /\ pc = "translation"
  /\ LET t == GetTranslation(ask.code)
     IN  IF t = NoRow THEN Answer(NotFound("translation"))
         ELSE /\ tr' = t
              /\ pc' = IF ask.op = "chapter" THEN "verses" ELSE "books"
              /\ UNCHANGED <<ask, rows, name, ptr, answer, seen>>

ReadVerses ==
  /\ pc = "verses"
  /\ LET vs == ListChapterVerses(tr.code, ask.book, Int32(ask.chapter))
     IN  IF vs = <<>> THEN Answer(NotFound("chapter"))
         ELSE /\ rows' = vs /\ pc' = "name"
              /\ UNCHANGED <<ask, tr, name, ptr, answer, seen>>

NoText == <<>>
NoParallel == [i \in DOMAIN rows |-> NoText]
Lines(parallel) == [i \in DOMAIN rows |-> [verse |-> rows[i].verse, text |-> rows[i].text, parallel |-> parallel[i]]]

ReadName ==
  /\ pc = "name"
  /\ LET found == GetBookName(ask.book, tr.lang)
     IN  IF ask.parallel = NoCode
         THEN Answer([status |-> 200, name |-> found, lines |-> Lines(NoParallel), parallel |-> NoCode])
         ELSE /\ name' = found /\ pc' = "parallel"
              /\ UNCHANGED <<ask, tr, rows, ptr, answer, seen>>

FindParallel ==
  /\ pc = "parallel"
  /\ LET t == GetTranslation(ask.parallel)
     IN  IF t = NoRow THEN Answer(NotFound("parallel translation"))
         ELSE /\ ptr' = t /\ pc' = "parallel verses"
              /\ UNCHANGED <<ask, tr, rows, name, answer, seen>>

(* byVerse: aligned by the number of the verse. *)
AlignedByPlace(ps, i) == IF i \in DOMAIN ps THEN ps[i].text ELSE NoText   \* mutant: aligned by place
AlignedText(ps, i) ==
  LET same == {k \in DOMAIN ps : ps[k].verse = rows[i].verse}
  IN  IF same = {} THEN NoText ELSE ps[Max(same)].text

ReadParallel ==
  /\ pc = "parallel verses"
  /\ LET ps == ListChapterVerses(ptr.code, ask.book, Int32(ask.chapter))
     IN  Answer([status |-> 200, name |-> name, lines |-> Lines([i \in DOMAIN rows |-> AlignedText(ps, i)]),
                 parallel |-> ptr.code])

ReadBooks ==
  /\ pc = "books"
  /\ Answer([status |-> 200, books |-> ListBooks(tr.code, tr.lang)])

ReadTranslations ==
  /\ pc = "list"
  /\ Answer([status |-> 200, codes |-> ListTranslations(ask.lang)])

Done ==
  /\ pc = "answered"
  /\ pc' = "idle" /\ ask' = NoAsk /\ answer' = NoAnswer /\ seen' = [c \in Codes |-> {}]
  /\ UNCHANGED <<tr, rows, name, ptr>>

(* A statement fails: the caller gets an error. *)
FailRead ==
  /\ pc \in {"translation", "verses", "name", "parallel", "parallel verses", "books", "list"}
  /\ Answer([status |-> 500])

Reads ==
  \/ Ask \/ FindTranslation \/ ReadVerses \/ ReadName \/ FindParallel \/ ReadParallel
  \/ ReadBooks \/ ReadTranslations \/ Done \/ FailRead

(* What the history variable seen records when an import ends: a version of  *)
(* a translation with its text.                                             *)
Witness ==
  seen' = [c \in Codes |-> IF pc = "idle" \/ trans'[c] = trans[c] THEN seen[c]
                           ELSE seen[c] \cup {TextAt(c, verses')}]

-----------------------------------------------------------------------------
(* A chapter is one import's text: never a mixture, never the gap between    *)
(* the delete and the copy, and not found only if some text that was          *)
(* committed meanwhile lacks it (server.go:171-226 under main.go:134-177).    *)
(* It is the chapter that was asked for if its number is an int32: others are *)
(* cut at server.go:183, and the chapter of the remainder is served as theirs.*)
AskedChapter == ask.op = "chapter" /\ IsInt32(ask.chapter)
Chapter200 == AskedChapter /\ answer.status = 200
LinesOf(vs) == {[verse |-> v.verse, text |-> v.text] : v \in vs}
ChapterOfOneImport ==
  /\ Chapter200 =>
       \E text \in seen[ask.code] :
         /\ ChapterOf(text, ask.book, ask.chapter) # {}
         /\ LinesOf(Range(answer.lines)) = LinesOf(ChapterOf(text, ask.book, ask.chapter))
         /\ \A i, k \in DOMAIN answer.lines : i < k => answer.lines[i].verse < answer.lines[k].verse
  /\ AskedChapter /\ answer = NotFound("chapter") =>
       \E text \in seen[ask.code] : ChapterOf(text, ask.book, ask.chapter) = {}

(* The parallel text beside a verse is that verse, and all of it is of one   *)
(* import of the other translation (server.go:213-222), for a number that is  *)
(* an int32.                                                                 *)
ParallelIsSameVerse ==
  Chapter200 /\ answer.parallel # NoCode =>
    \E text \in seen[ask.parallel] : \A i \in DOMAIN answer.lines :
      LET line == answer.lines[i]
          other == {v \in ChapterOf(text, ask.book, ask.chapter) : v.verse = line.verse}
      IN  IF other = {} THEN line.parallel = NoText ELSE \E v \in other : line.parallel = v.text

(* What is offered can be opened: a listed translation had text, and a book   *)
(* with chapters had verses in its last one (content.sql: ListBibleBooks,      *)
(* ListBibleTranslations).                                                   *)
OfferedCanBeOpened ==
  /\ ask.op = "translations" /\ answer.status = 200 =>
       \A c \in answer.codes : \E text \in seen[c] : text # {}
  /\ ask.op = "books" /\ answer.status = 200 =>
       \E text \in seen[ask.code] : \A b \in answer.books :
         IF b.chapters = 0 THEN ~\E v \in text : v.book = b.book
         ELSE ChapterOf(text, b.book, b.chapters) # {}
=============================================================================
