------------------------------ MODULE Library ------------------------------
(***************************************************************************)
(* internal/server/library.go, and GetFeedItem of server.go: the feed      *)
(* items, books, beliefs, hymns, Sabbath School lessons and courses that   *)
(* clients read, and the quiz answers they give, while editors change the  *)
(* content and devices push answers of their own (module Sync). A read is  *)
(* several statements without a transaction; an answer is a lookup and a   *)
(* transaction at READ COMMITTED, of which the writes are kept in its call *)
(* until it commits. One user stands for all: the rows of others do not    *)
(* meet his.                                                               *)
(***************************************************************************)
EXTENDS Integers, Sequences, FiniteSets, SequencesExt

CONSTANTS
  Calls,       \* requests that are handled at the same time
  Databases,   \* the states of the content that editors leave
  Workloads,   \* what clients do: [asks, callers, pushes, versions]
  AnswerIds,   \* ids of rows of user_answers
  NoLang,      \* no language was asked for, or one that is none
  NoRow,
  HymnLimit,   \* the most hymns that a list holds (500)
  IntSize      \* 2^32, the number of values of an int32

Ops == {"egwBooks", "beliefs", "hymnals", "courses", "belief", "egwChapter", "hymns", "hymn", "week",
        "lesson", "answer", "feedItem"}
Refs == UNION {{a.question : a \in {b \in w.asks : b.op = "answer"}} : w \in Workloads}

ASSUME LibraryAssumption ==
  /\ IntSize \in Nat \ {0} /\ IntSize % 2 = 0 /\ HymnLimit \in Nat \ {0}
  /\ \A w \in Workloads :
       /\ w.callers \subseteq Calls /\ w.versions \subseteq Databases
       /\ \A a \in w.asks : a.op \in Ops /\ (a.op = "answer" => a.option \in Int)
  /\ \A d \in Databases : IsFiniteSet(d.options) /\ \A o \in d.options : o.question \in Int /\ o.ord \in Int
  /\ NoRow \notin [ref : Refs, option : Int, live : BOOLEAN]

(* What the tables promise of a content (00001_init.sql:52-127): the columns  *)
(* that are numbers, the keys, what refers to what, and the texts and         *)
(* languages that are there; and that days and hours are numbers. The texts   *)
(* that rows are ordered by, which are titles and the languages and codes of  *)
(* hymnals, are numbers in the order of the collation.                        *)
Numbers(S, column) == IsFiniteSet(S) /\ \A x \in S : x[column] \in Int
Key(S, column) == \A x, y \in S : x[column] = y[column] => x = y

ASSUME ContentAssumption ==
  /\ \A d \in Databases :
       /\ Numbers(d.links, "ord") /\ Numbers(d.paragraphs, "ord") /\ Numbers(d.stanzas, "idx")
       /\ Numbers(d.days, "idx") /\ Numbers(d.weeks, "start") /\ Numbers(d.questions, "id")
       /\ Numbers(d.editions, "title") /\ Numbers(d.beliefs, "n") /\ Numbers(d.courses, "title")
       /\ Numbers(d.hymnals, "lang") /\ Numbers(d.hymnals, "code") /\ Numbers(d.hymns, "number")
       /\ Key(d.editions, "id") /\ Key(d.questions, "id") /\ Key(d.options, "id") /\ Key(d.hymnals, "code")
       /\ \A h, k \in d.hymns : h.hymnal = k.hymnal /\ h.number = k.number => h = k
       /\ \A s, t \in d.lessons : s.course = t.course /\ s.n = t.n => s = t
       /\ NoRow \notin d.items /\ NoRow \notin d.editions /\ NoRow \notin d.beliefs /\ NoRow \notin d.hymnals
       /\ NoRow \notin d.hymns /\ NoRow \notin d.weeks /\ NoRow \notin d.lessons /\ NoRow \notin d.options
       /\ \A e, f \in d.editions : e.lang # NoLang /\ (e.book = f.book /\ e.lang = f.lang => e = f)
       /\ \A p \in d.paragraphs : p.text # NoRow /\ \E e \in d.editions : e.id = p.edition
       /\ \A b \in d.beliefs : b.lang # NoLang /\ b.n \in 1 .. 28
       /\ \A w \in d.weeks : w.lang # NoLang
       /\ \A o \in d.options : o.correct \in BOOLEAN
  /\ \A w \in Workloads : \A a \in w.asks : a.op = "week" => a.now \in Int /\ a.date \in Int

VARIABLES
  load,      \* the workload of this behaviour
  db,        \* the content
  rows,      \* user_answers: [ref, option, live] by id, or NoRow
  call,      \* what each call does
  overlap,   \* refs of which two answers were handled at the same time, or a device pushed one
  stands     \* by ref: the option of the last answer that was handled alone

vars == <<load, db, rows, call, overlap, stands>>

Idle == [pc |-> "idle"]

Init ==
  /\ load \in Workloads
  /\ db \in load.versions
  /\ rows = [i \in AnswerIds |-> NoRow]
  /\ call = [c \in Calls |-> Idle]
  /\ overlap = {} /\ stands = [r \in Refs |-> NoRow]

-----------------------------------------------------------------------------
(* A handler's conversion of an int to the int32 of a query. *)
Int32(n) == ((n + IntSize \div 2) % IntSize) - (IntSize \div 2)

(* ORDER BY: no row stands before one that comes Before it. *)
OrderBy(S, Before(_, _)) ==
  CHOOSE s \in [1 .. Cardinality(S) -> S] : Range(s) = S /\ \A i, j \in DOMAIN s : i < j => ~Before(s[j], s[i])
Sorted(S, column) == OrderBy(S, LAMBDA x, y : x[column] < y[column])
One(S) == IF S = {} THEN NoRow ELSE CHOOSE x \in S : TRUE
Published(S) == {x \in S : x.status = "published"}
InLang(S, l) == {x \in S : x.lang = l}

(* db/queries/content.sql: an item that is published, and due. *)
GetFeedItem(d, id, now) == One({i \in Published(d.items) : i.id = id /\ i.at <= now})
ListFeedLinks(d, id) == Sorted({k \in d.links : k.item = id}, "ord")

(* db/queries/library.sql. *)
ChaptersOf(d, e) == {p.chapter : p \in {q \in d.paragraphs : q.edition = e}}
ListEgwBooks(d, l) ==
  LET es == Sorted(InLang(d.editions, l), "title")
  IN  [i \in DOMAIN es |-> [id |-> es[i].id, book |-> es[i].book, chapters |-> Cardinality(ChaptersOf(d, es[i].id))]]
GetEgwEdition(d, id) == One({e \in d.editions : e.id = Int32(id)})
GetEgwEditionByBookLang(d, b, l) == One({e \in InLang(d.editions, l) : e.book = b})
ListEgwChapterParagraphs(d, e, n) ==
  Sorted({p \in d.paragraphs : p.edition = e /\ p.chapter = Int32(n)}, "ord")
ListBeliefs(d, l) == Sorted(Published(InLang(d.beliefs, l)), "n")
GetBelief(d, n, l) == One({b \in Published(InLang(d.beliefs, l)) : b.n = n})
ListHymnals(d) == OrderBy(d.hymnals, LAMBDA g, h : g.lang < h.lang \/ (g.lang = h.lang /\ g.code < h.code))
GetHymnal(d, code) == One({h \in d.hymnals : h.code = code})
(* q is a number, a text or nothing. *)
Matches(q, h) ==
  /\ q.t = "number" => h.number = Int32(q.n)
  /\ q.t = "title" => h.title \in q.like
Limited(s) == SubSeq(s, 1, IF Len(s) < HymnLimit THEN Len(s) ELSE HymnLimit)
ListHymns(d, id, q) == Limited(Sorted({h \in d.hymns : h.hymnal = id /\ Matches(q, h)}, "number"))
GetHymn(d, id, n) == One({h \in d.hymns : h.hymnal = id /\ h.number = Int32(n)})
ListHymnStanzas(d, id) == Sorted({s \in d.stanzas : s.hymn = id}, "idx")
GetSabbathSchoolLesson(d, l, day) ==
  LET weeks == {w \in Published(InLang(d.weeks, l)) : w.start <= day /\ day < w.start + 7}
  IN  One({w \in weeks : \A v \in weeks : v.start <= w.start})
ListSabbathSchoolDays(d, id) == Sorted({s \in d.days : s.week = id}, "idx")
ListCourses(d, l) ==
  LET cs == Sorted(Published(InLang(d.courses, l)), "title")
  IN  [i \in DOMAIN cs |-> [id |-> cs[i].id, lessons |-> Cardinality({s \in d.lessons : s.course = cs[i].id})]]
LessonOfAny(d, id, n) == One({s \in d.lessons : s.course = Int32(id) /\ s.n = Int32(n)})   \* mutant: drafts too
GetCourseLesson(d, id, n) ==
  One({s \in d.lessons : s.n = Int32(n) /\ s.course = Int32(id) /\ \E c \in Published(d.courses) : c.id = s.course})
ListLessonQuestions(d, id) == Sorted({q \in d.questions : q.lesson = id}, "id")
ListLessonOptions(d, id) ==
  OrderBy({o \in d.options : \E q \in d.questions : q.lesson = id /\ q.id = o.question},
          LAMBDA o, p : o.question < p.question \/ (o.question = p.question /\ o.ord < p.ord))

(* The option if it is one of the question, of that lesson, of a published    *)
(* course; and the first option that is correct, a column of the same row.    *)
GetQuizOptionForLesson(d, a) ==
  LET lesson == GetCourseLesson(d, a.course, a.n)
  IN  One({o \in d.options :
             /\ o.id = Int32(a.option) /\ o.question = Int32(a.question)
             /\ \E q \in d.questions : q.id = o.question /\ lesson # NoRow /\ q.lesson = lesson.id})
CorrectOf(d, q) == {o \in d.options : o.question = q /\ o.correct}
CorrectOption(d, q) == One({p \in CorrectOf(d, q) : \A r \in CorrectOf(d, q) : p.ord <= r.ord})

-----------------------------------------------------------------------------
(* Calls: the statement that is next, the request, what was found so far,     *)
(* the answer and the contents there were since the request came.            *)
Goto(c, pc, x) == call' = [call EXCEPT ![c].pc = pc, ![c].found = Append(@, x)]
Reply(c, a)    == call' = [call EXCEPT ![c].pc = "answered", ![c].found = <<>>, ![c].answer = a]
NotFound == [status |-> 404]
OK(x)    == [status |-> 200, body |-> x]
Reads    == UNCHANGED <<load, db, rows, overlap, stands>>

FirstStatement == [egwBooks |-> "list", beliefs |-> "list", hymnals |-> "list", courses |-> "list", belief |-> "list",
          egwChapter |-> "edition", hymns |-> "hymnal", hymn |-> "hymnal", week |-> "week",
          lesson |-> "lesson", answer |-> "option", feedItem |-> "item"]

(* What is refused before a statement runs: a language that is none, a belief *)
(* without a number of the 28.                                               *)
Refusal(a) ==
  IF a.op \in {"egwBooks", "beliefs", "courses"} /\ a.lang = NoLang THEN 400
  ELSE IF a.op = "belief" /\ (a.lang = NoLang \/ a.n < 1 \/ a.n > 28) THEN 404
  ELSE IF a.op = "week" /\ a.lang = NoLang THEN 404
  ELSE 0

InProgress == {c \in Calls : call[c].pc \notin {"idle", "answered"}}
Answering(r) == {c \in InProgress : call[c].ask.op = "answer" /\ call[c].ask.question = r}

Started(a) ==
  [pc |-> IF Refusal(a) = 0 THEN FirstStatement[a.op] ELSE "answered", ask |-> a, found |-> <<>>,
   answer |-> [status |-> Refusal(a)], seen |-> {db}, saw |-> {},
   alone |-> a.op = "answer" /\ Answering(a.question) = {}]

Ask(c) ==
  /\ call[c].pc = "idle" /\ c \in load.callers
  /\ \E a \in load.asks :
       /\ call' = [k \in Calls |->
            IF k = c THEN Started(a)
            ELSE IF a.op = "answer" /\ k \in Answering(a.question) THEN [call[k] EXCEPT !.alone = FALSE]
            ELSE call[k]]
       /\ overlap' = IF a.op = "answer" /\ Answering(a.question) # {} THEN overlap \cup {a.question} ELSE overlap
  /\ UNCHANGED <<load, db, rows, stands>>

Listed(a) ==
  CASE a.op = "egwBooks" -> OK(ListEgwBooks(db, a.lang))
    [] a.op = "beliefs"  -> OK(ListBeliefs(db, a.lang))
    [] a.op = "hymnals"  -> OK(ListHymnals(db))
    [] a.op = "courses"  -> OK(ListCourses(db, a.lang))
    [] a.op = "belief"   -> IF GetBelief(db, a.n, a.lang) = NoRow THEN NotFound ELSE OK(GetBelief(db, a.n, a.lang))

At(c, pc) == call[c].pc = pc /\ Reads
AskOf(c) == call[c].ask
Found(c) == call[c].found

List(c) == At(c, "list") /\ Reply(c, Listed(AskOf(c)))

-----------------------------------------------------------------------------
(* GetFeedItem *)
FindItem(c) ==
  /\ At(c, "item")
  /\ LET i == GetFeedItem(db, AskOf(c).id, AskOf(c).now)
     IN  IF i = NoRow THEN Reply(c, NotFound) ELSE Goto(c, "links", i)
ReadLinks(c) ==
  /\ At(c, "links")
  /\ Reply(c, OK([item |-> Found(c)[1], links |-> ListFeedLinks(db, AskOf(c).id)]))

(* GetEgwChapter *)
FindEdition(c) ==
  /\ At(c, "edition")
  /\ LET e == GetEgwEdition(db, AskOf(c).edition)
     IN  IF e = NoRow THEN Reply(c, NotFound) ELSE Goto(c, "paragraphs", e)

Beside(ps, parallel) == [i \in DOMAIN ps |-> [ref |-> ps[i].ref, text |-> ps[i].text, parallel |-> parallel[i]]]
NoText(ps) == [i \in DOMAIN ps |-> NoRow]
ByRef(qs, p) ==
  LET same == {i \in DOMAIN qs : qs[i].ref = p.ref}
  IN  IF same = {} THEN NoRow ELSE qs[Max(same)].text

WantsParallel(c) == AskOf(c).parallel # NoLang /\ AskOf(c).parallel # Found(c)[1].lang
ReadParagraphs(c) ==
  /\ At(c, "paragraphs")
  /\ LET ps == ListEgwChapterParagraphs(db, Found(c)[1].id, AskOf(c).n)
     IN  IF ps = <<>> THEN Reply(c, NotFound)
         ELSE IF WantsParallel(c) THEN Goto(c, "parallel edition", ps)
         ELSE Reply(c, OK(Beside(ps, NoText(ps))))
FindParallel(c) ==
  /\ At(c, "parallel edition")
  /\ LET e == GetEgwEditionByBookLang(db, Found(c)[1].book, AskOf(c).parallel)
     IN  IF e = NoRow THEN Reply(c, OK(Beside(Found(c)[2], NoText(Found(c)[2])))) ELSE Goto(c, "parallel paragraphs", e)
ReadParallel(c) ==
  /\ At(c, "parallel paragraphs")
  /\ LET qs == ListEgwChapterParagraphs(db, Found(c)[3].id, AskOf(c).n)
         ps == Found(c)[2]
     IN  Reply(c, OK(Beside(ps, [i \in DOMAIN ps |-> ByRef(qs, ps[i])])))

(* ListHymns, GetHymn *)
FindHymnal(c) ==
  /\ At(c, "hymnal")
  /\ LET h == GetHymnal(db, AskOf(c).code)
     IN  IF h = NoRow THEN Reply(c, NotFound)
         ELSE Goto(c, IF AskOf(c).op = "hymns" THEN "hymns" ELSE "hymn", h)

ReadHymns(c) ==
  /\ At(c, "hymns")
  /\ Reply(c, OK(ListHymns(db, Found(c)[1].id, AskOf(c).q)))
FindHymn(c) ==
  /\ At(c, "hymn")
  /\ LET h == GetHymn(db, Found(c)[1].id, AskOf(c).number)
     IN  IF h = NoRow THEN Reply(c, NotFound) ELSE Goto(c, "stanzas", h)
ReadStanzas(c) ==
  /\ At(c, "stanzas")
  /\ Reply(c, OK([hymn |-> Found(c)[2], stanzas |-> ListHymnStanzas(db, Found(c)[2].id)]))

(* GetSabbathSchoolCurrent: the day that was asked for, or that it is in      *)
(* Nairobi, three hours ahead of UTC; now counts hours.                       *)
HoursAhead == 3
TodayUTC(a) == IF a.hasDate THEN a.date ELSE a.now \div 24      \* mutant: the server's day
Today(a) == IF a.hasDate THEN a.date ELSE (a.now + HoursAhead) \div 24
FindWeek(c) ==
  /\ At(c, "week")
  /\ LET w == GetSabbathSchoolLesson(db, AskOf(c).lang, Today(AskOf(c)))
     IN  IF w = NoRow THEN Reply(c, NotFound) ELSE Goto(c, "days", w)
ReadDays(c) ==
  /\ At(c, "days")
  /\ LET w  == Found(c)[1]
         ds == ListSabbathSchoolDays(db, w.id)
     IN  Reply(c, OK([week |-> w, days |-> [i \in DOMAIN ds |-> [date |-> w.start + ds[i].idx, text |-> ds[i].text]]]))

(* GetCourseLesson *)
FindLesson(c) ==
  /\ At(c, "lesson")
  /\ LET s == GetCourseLesson(db, AskOf(c).course, AskOf(c).n)
     IN  IF s = NoRow THEN Reply(c, NotFound) ELSE Goto(c, "questions", s)
ReadQuestions(c) ==
  /\ At(c, "questions")
  /\ Goto(c, "options", ListLessonQuestions(db, Found(c)[1].id))
OptionsUnder(os, q) ==     \* the options of one question, in the order they came
  LET places == {i \in DOMAIN os : os[i].question = q}
      s == OrderBy(places, <)
  IN  [k \in DOMAIN s |-> os[s[k]]]
ReadOptions(c) ==
  /\ At(c, "options")
  /\ LET qs == Found(c)[2]
         os == ListLessonOptions(db, Found(c)[1].id)
     IN  Reply(c, OK([lesson |-> Found(c)[1],
           questions |-> [i \in DOMAIN qs |-> [id |-> qs[i].id,
             options |-> OptionsUnder(os, qs[i].id)]]]))

-----------------------------------------------------------------------------
(* AnswerQuiz. The lookup takes ids as int32s, the row is named by the        *)
(* number that came.                                                         *)
RowsOf(r) == {i \in AnswerIds : rows[i] # NoRow /\ rows[i].ref = r}
Target(c) == AskOf(c).question

FindOption(c) ==     \* a question without a correct option is an error: NULL is no int32
  /\ At(c, "option")
  /\ LET o     == GetQuizOptionForLesson(db, AskOf(c))
         right == CorrectOption(db, o.question)
     IN  IF o = NoRow THEN Reply(c, NotFound)
         ELSE IF right = NoRow THEN Reply(c, [status |-> 500])
         ELSE Goto(c, "update", [correct |-> o.correct, right |-> right.id])

(* UpdateQuizAnswer: the rows that are committed when the statement begins,   *)
(* once no other transaction has written them. All of them, the deleted too.  *)
MatchedLive(c) == {i \in RowsOf(Target(c)) : rows[i].live}      \* mutant: AND deleted_at IS NULL
Matched(c) == RowsOf(Target(c))
BeginUpdate(c) ==
  /\ At(c, "update")
  /\ call' = [call EXCEPT ![c].saw = Matched(c), ![c].pc = IF Matched(c) = {} THEN "insert" ELSE "lock"]
Locked == UNION {call[c].saw : c \in {k \in Calls : call[k].pc = "commit"}}
UpdateQuizAnswer(c) ==
  /\ At(c, "lock")
  /\ call[c].saw \cap Locked = {}
  /\ call' = [call EXCEPT ![c].pc = "commit"]

(* InsertQuizAnswer: a new id; nothing else of a row is unique. *)
InsertQuizAnswer(c) ==
  /\ At(c, "insert")
  /\ \E i \in AnswerIds : rows[i] = NoRow
  /\ call' = [call EXCEPT ![c].pc = "commit"]

Answer(c) == [ref |-> Target(c), option |-> Int32(AskOf(c).option), live |-> TRUE]
WrittenOne(c) ==     \* mutant: LIMIT 1
  [i \in AnswerIds |-> IF call[c].saw # {} /\ i = CHOOSE k \in call[c].saw : TRUE THEN Answer(c) ELSE rows[i]]
Written(c) == [i \in AnswerIds |-> IF i \in call[c].saw THEN Answer(c) ELSE rows[i]]
Commit(c) ==
  /\ call[c].pc = "commit"
  /\ IF call[c].saw # {} THEN rows' = Written(c)
     ELSE \E i \in {k \in AnswerIds : rows[k] = NoRow} : rows' = [rows EXCEPT ![i] = Answer(c)]
  /\ stands' = [stands EXCEPT ![Target(c)] = IF call[c].alone THEN Answer(c).option ELSE NoRow]
  /\ Reply(c, OK(Found(c)[1]))
  /\ UNCHANGED <<load, db, overlap>>

-----------------------------------------------------------------------------
(* A statement fails, or the transaction with what it wrote. *)
Fail(c) == c \in InProgress /\ Reads /\ Reply(c, [status |-> 500])

Done(c) == At(c, "answered") /\ call' = [call EXCEPT ![c] = Idle]

(* A device pushes an answer of its own, or a newer version of one it has.    *)
Push ==
  /\ load.pushes
  /\ \E i \in AnswerIds \ Locked, r \in Refs, live \in BOOLEAN :
       /\ rows[i] # NoRow => rows[i].ref = r
       /\ rows' = [rows EXCEPT ![i] = [ref |-> r, option |-> 0, live |-> live]]
       /\ overlap' = IF rows[i] = NoRow THEN overlap \cup {r} ELSE overlap
       /\ stands' = [stands EXCEPT ![r] = NoRow]
       /\ call' = [c \in Calls |-> IF c \in Answering(r) THEN [call[c] EXCEPT !.alone = FALSE] ELSE call[c]]
  /\ UNCHANGED <<load, db>>

(* An editor changes the content, in one transaction. *)
Edit ==
  /\ db' \in load.versions \ {db}
  /\ call' = [c \in Calls |-> IF c \in InProgress THEN [call[c] EXCEPT !.seen = @ \cup {db'}] ELSE call[c]]
  /\ UNCHANGED <<load, rows, overlap, stands>>

Handle(c) ==
  \/ Ask(c) \/ List(c) \/ FindItem(c) \/ ReadLinks(c)
  \/ FindEdition(c) \/ ReadParagraphs(c) \/ FindParallel(c) \/ ReadParallel(c)
  \/ FindHymnal(c) \/ ReadHymns(c) \/ FindHymn(c) \/ ReadStanzas(c)
  \/ FindWeek(c) \/ ReadDays(c)
  \/ FindLesson(c) \/ ReadQuestions(c) \/ ReadOptions(c)
  \/ FindOption(c) \/ BeginUpdate(c) \/ UpdateQuizAnswer(c) \/ InsertQuizAnswer(c) \/ Commit(c)
  \/ Fail(c) \/ Done(c)

Next == Push \/ Edit \/ \E c \in Calls : Handle(c)

Spec == Init /\ [][Next]_vars

-----------------------------------------------------------------------------
(* An answer that no other overlapped is what every row of the question says, *)
(* also when devices and overlapping first answers left several, deleted ones *)
(* among them (library.go:318-328).                                         *)
LatestAnswerStands ==
  \A r \in Refs : stands[r] # NoRow =>
    /\ RowsOf(r) # {}
    /\ \A i \in RowsOf(r) : rows[i].live /\ rows[i].option = stands[r]

(* "One answer per (user, question)" (library.go:318): as long as no two      *)
(* answers to the question overlap and no device adds one, however often it   *)
(* is answered, deleted by a device and answered again.                      *)
OneAnswer == \A r \in Refs \ overlap : Cardinality(RowsOf(r)) <= 1

(* What an answer should be when nobody edits meanwhile: the rows that the    *)
(* request asks for, by what it says.                                        *)
NairobiDay(a, day) == IF a.hasDate THEN day = a.date ELSE 24 * day <= a.now + 3 /\ a.now + 3 < 24 * day + 24
LessonsFor(d, a) ==
  {s \in d.lessons : s.course = a.course /\ s.n = a.n /\ \E c \in d.courses : c.id = a.course /\ c.status = "published"}
Asked(d, a) ==
  CASE a.op = "egwBooks"   -> {e \in d.editions : e.lang = a.lang}
    [] a.op = "egwChapter" -> {p \in d.paragraphs : p.edition = a.edition /\ p.chapter = a.n}
    [] a.op = "beliefs"    -> {b \in d.beliefs : b.lang = a.lang /\ b.status = "published"}
    [] a.op = "belief"     -> {b \in d.beliefs : b.n = a.n /\ b.lang = a.lang /\ b.status = "published"}
    [] a.op = "hymnals"    -> d.hymnals
    [] a.op = "hymns"      -> {h \in d.hymnals : h.code = a.code}
    [] a.op = "hymn"       -> {h \in d.hymns : h.number = a.number /\ \E g \in d.hymnals : g.id = h.hymnal /\ g.code = a.code}
    [] a.op = "week"       -> {w \in d.weeks : /\ w.lang = a.lang /\ w.status = "published"
                                              /\ \E day \in w.start .. w.start + 6 : NairobiDay(a, day)}
    [] a.op = "courses"    -> {c \in d.courses : c.lang = a.lang /\ c.status = "published"}
    [] a.op = "lesson"     -> LessonsFor(d, a)
    [] a.op = "answer"     -> {o \in d.options : /\ o.id = a.option /\ o.question = a.question
                                                /\ \E q \in d.questions, s \in LessonsFor(d, a) : q.id = a.question /\ q.lesson = s.id}
    [] a.op = "feedItem"   -> {i \in d.items : i.id = a.id /\ i.status = "published" /\ i.at <= a.now}

(* All of S, each once, in the order of the column: as they are, or with each *)
(* line of the answer made of its row.                                       *)
InOrder(s, S, column) ==
  /\ Range(s) = S /\ Len(s) = Cardinality(S)
  /\ \A i, j \in DOMAIN s : i < j => s[i][column] <= s[j][column]
LineByLine(lines, S, column, MadeOf(_, _)) ==
  \E s \in [1 .. Cardinality(S) -> S] :
    InOrder(s, S, column) /\ DOMAIN lines = DOMAIN s /\ \A i \in DOMAIN s : MadeOf(lines[i], s[i])

ChapterIs(d, a, lines) ==
  LET other == {e \in d.editions : e.lang = a.parallel
                  /\ \E o \in d.editions : o.id = a.edition /\ o.book = e.book /\ o.lang # e.lang}
      beside(r) == {p \in d.paragraphs : p.ref = r /\ p.chapter = a.n /\ \E e \in other : e.id = p.edition}
  IN  LineByLine(lines, Asked(d, a), "ord", LAMBDA line, p :
        /\ line.ref = p.ref /\ line.text = p.text
        /\ IF line.parallel = NoRow THEN beside(p.ref) = {} ELSE \E q \in beside(p.ref) : q.text = line.parallel)
BooksAre(d, a, books) ==
  LineByLine(books, Asked(d, a), "title", LAMBDA b, e :
    b.id = e.id /\ b.book = e.book /\ b.chapters = Cardinality({p.chapter : p \in {q \in d.paragraphs : q.edition = e.id}}))
CoursesAre(d, a, courses) ==
  LineByLine(courses, Asked(d, a), "title", LAMBDA x, c :
    x.id = c.id /\ x.lessons = Cardinality({s \in d.lessons : s.course = c.id}))
HymnalsAre(d, a, s) ==
  /\ Range(s) = Asked(d, a) /\ Len(s) = Cardinality(Asked(d, a))
  /\ \A i, j \in DOMAIN s : i < j => s[i].lang < s[j].lang \/ (s[i].lang = s[j].lang /\ s[i].code < s[j].code)
HymnsAre(d, a, hs) ==      \* a list that leaves a hymn out is full of hymns with smaller numbers
  LET fit == {h \in d.hymns : /\ \E g \in Asked(d, a) : g.id = h.hymnal
                              /\ a.q.t = "number" => h.number = a.q.n
                              /\ a.q.t = "title" => h.title \in a.q.like}
  IN  /\ Asked(d, a) # {} /\ Range(hs) \subseteq fit /\ Len(hs) <= HymnLimit
      /\ \A i, j \in DOMAIN hs : i < j => hs[i].number < hs[j].number
      /\ \A h \in fit \ Range(hs) : Len(hs) = HymnLimit /\ \A i \in DOMAIN hs : hs[i].number < h.number
WeekIs(d, a, body) ==
  /\ body.week \in Asked(d, a) /\ \A w \in Asked(d, a) : w.start <= body.week.start
  /\ LineByLine(body.days, {s \in d.days : s.week = body.week.id}, "idx", LAMBDA x, s :
       x.date = body.week.start + s.idx /\ x.text = s.text)
HymnIs(d, a, body) ==
  body.hymn \in Asked(d, a) /\ InOrder(body.stanzas, {s \in d.stanzas : s.hymn = body.hymn.id}, "idx")
ItemIs(d, a, body) == body.item \in Asked(d, a) /\ InOrder(body.links, {k \in d.links : k.item = a.id}, "ord")
LessonIs(d, a, body) ==
  /\ body.lesson \in Asked(d, a)
  /\ LineByLine(body.questions, {q \in d.questions : q.lesson = body.lesson.id}, "id", LAMBDA x, q :
       x.id = q.id /\ InOrder(x.options, {o \in d.options : o.question = q.id}, "ord"))
VerdictIs(d, a, body) ==
  /\ \E o \in Asked(d, a) : body.correct = o.correct
  /\ \E o \in CorrectOf(d, a.question) : body.right = o.id /\ \A r \in CorrectOf(d, a.question) : o.ord <= r.ord

IsContent(d, a, body) ==
  CASE a.op = "egwBooks"   -> BooksAre(d, a, body)
    [] a.op = "egwChapter" -> ChapterIs(d, a, body)
    [] a.op = "beliefs"    -> InOrder(body, Asked(d, a), "n")
    [] a.op = "belief"     -> body \in Asked(d, a)
    [] a.op = "hymnals"    -> HymnalsAre(d, a, body)
    [] a.op = "hymns"      -> HymnsAre(d, a, body)
    [] a.op = "hymn"       -> HymnIs(d, a, body)
    [] a.op = "week"       -> WeekIs(d, a, body)
    [] a.op = "courses"    -> CoursesAre(d, a, body)
    [] a.op = "lesson"     -> LessonIs(d, a, body)
    [] a.op = "answer"     -> VerdictIs(d, a, body)
    [] a.op = "feedItem"   -> ItemIs(d, a, body)

(* The numbers of a request that an int32 holds: others are cut (Int32), and  *)
(* name other rows than they say.                                            *)
IsInt32(n) == n \in -(IntSize \div 2) .. (IntSize \div 2) - 1
NumbersHold(a) ==
  /\ a.op = "egwChapter" => IsInt32(a.edition) /\ IsInt32(a.n)
  /\ a.op = "hymns" /\ a.q.t = "number" => IsInt32(a.q.n)
  /\ a.op = "hymn" => IsInt32(a.number)
  /\ a.op \in {"lesson", "answer"} => IsInt32(a.course) /\ IsInt32(a.n)
  /\ a.op = "answer" => IsInt32(a.question) /\ IsInt32(a.option)

(* A 404 says that there is nothing, a 400 that a list was asked for in no    *)
(* language, a 500 nothing.                                                  *)
IsAnswer(d, a, x) ==
  CASE x.status = 200 -> IsContent(d, a, x.body)
    [] x.status = 404 -> Asked(d, a) = {}
    [] x.status = 400 -> a.op \in {"egwBooks", "beliefs", "courses"} /\ a.lang = NoLang
    [] OTHER          -> x.status = 500

(* Who is answered while nobody edits reads the content: the rows asked for,  *)
(* each once and in their order, with those that belong to them, and no 404   *)
(* for what is there (library.go:28-298, server.go:145-169).                  *)
Unedited(c, d) == call[c].pc = "answered" /\ call[c].seen = {d}
AnswersAreTheContent ==
  \A c \in Calls : \A d \in Databases :
    Unedited(c, d) /\ NumbersHold(AskOf(c)) => IsAnswer(d, AskOf(c), call[c].answer)

(* Drafts are never shown, nor items that are not due, and no option stands *)
(* under a question that it was never one of, whatever editors do between   *)
(* the statements.                                                          *)
OnlyPublished ==
  \A c \in Calls : call[c].pc = "answered" /\ call[c].answer.status = 200 =>
    LET a == AskOf(c)
        body == call[c].answer.body
        Some(P(_)) == \E d \in call[c].seen : P(d)
    IN  CASE a.op = "beliefs" -> Some(LAMBDA d : Range(body) \subseteq Published(d.beliefs))
          [] a.op = "courses" -> Some(LAMBDA d : {x.id : x \in Range(body)} \subseteq {b.id : b \in Published(d.courses)})
          [] a.op = "belief" -> Some(LAMBDA d : \E b \in Published(d.beliefs) : b.n = a.n /\ b.lang = a.lang)
          [] a.op = "week"   -> Some(LAMBDA d : body.week \in Published(d.weeks))
          [] a.op = "feedItem" -> body.item.at <= a.now /\ Some(LAMBDA d : body.item \in Published(d.items))
          [] a.op = "lesson" ->
               /\ Some(LAMBDA d : \E b \in Published(d.courses) : b.id = body.lesson.course)
               /\ \A q \in Range(body.questions) : \A o \in Range(q.options) :
                    Some(LAMBDA d : o \in d.options /\ o.question = q.id)
          [] a.op = "answer" -> Some(LAMBDA d : \E b \in Published(d.courses) : b.id = Int32(a.course))
          [] OTHER           -> TRUE
=============================================================================
