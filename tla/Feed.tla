-------------------------------- MODULE Feed --------------------------------
(***************************************************************************)
(* GET /v1/feed (internal/server/server.go, ListFeed; feed.go; db/queries/ *)
(* content.sql, ListFeed): a client pages through the published items with *)
(* the cursor of the page before. A page is one query, a second one in the *)
(* fallback language when the first finds nothing, and arrangeFeed, which  *)
(* reorders the page. Editors, who write feed_items directly, publish,     *)
(* withdraw and reschedule items meanwhile, and time makes scheduled ones  *)
(* visible. A request may fail and an answer may be lost: the client then  *)
(* asks for the same page again. Requests only read and clients share      *)
(* nothing, so one client stands for all.                                  *)
(***************************************************************************)
EXTENDS Integers, Sequences

CONSTANTS
  Items,              \* ids of feed_items, ordered like the uuids
  Langs, LangOf,      \* LangOf[i]: the language of item i
  Kinds, KindOf,      \* KindOf[i]: the kind of item i
  Verse, SabbathSchool,   \* the two kinds that arrangeFeed anchors
  Fallback,           \* fallbackLang, "en"
  KindSets, Limits,   \* values of the parameters kinds (none: {}) and limit
  DayLength,          \* clock ticks in a day
  MaxTime, MaxEdits,  \* bounds of the run
  NoCursor

ASSUME FeedAssumption ==
  /\ Items \subseteq Nat
  /\ LangOf \in [Items -> Langs] /\ KindOf \in [Items -> Kinds]
  /\ Verse \in Kinds /\ SabbathSchool \in Kinds /\ Verse # SabbathSchool
  /\ Fallback \in Langs
  /\ KindSets \subseteq SUBSET Kinds
  /\ Limits \subseteq Nat \ {0}
  /\ DayLength \in Nat \ {0}
  /\ MaxTime \in Nat /\ MaxEdits \in Nat
  /\ NoCursor \notin [lang : Langs, at : Nat, id : Items]

Row    == [id : Items, at : Nat]
Cursor == [lang : Langs, at : Nat, id : Items]

VARIABLES
  now,
  status,     \* "published", or "draft" for the states no query serves
  publishAt,
  edits,      \* edits made, against MaxEdits
  phase,      \* of the client: "paging", or "ended" when the last page had no next_cursor
  wanted,     \* the parameters lang and kinds, and whether an empty cursor is sent for none
  cursor,     \* next_cursor of the last page the client received
  shown,      \* items on the pages it received
  steady,     \* the items the first page's query could see and no editor touched since
  pc,         \* where the handler is
  limit,      \* of the request
  first,      \* firstPage
  today,
  rest, out,  \* arrangeFeed's local variables
  next        \* next_cursor of the page being built

itemVars    == <<now, status, publishAt, edits>>
clientVars  == <<phase, wanted, cursor, shown>>
handlerVars == <<pc, limit, first, today, rest, out, next>>
vars == <<now, status, publishAt, edits, phase, wanted, cursor, shown, steady,
          pc, limit, first, today, rest, out, next>>

Wanted == [lang : Langs, kinds : KindSets, empty : BOOLEAN]

TypeOK ==
  /\ now \in Nat /\ edits \in Nat
  /\ status \in [Items -> {"draft", "published"}]
  /\ publishAt \in [Items -> Nat]
  /\ phase \in {"paging", "ended"}
  /\ wanted \in Wanted
  /\ cursor \in Cursor \cup {NoCursor}
  /\ shown \subseteq Items /\ steady \subseteq Items
  /\ pc \in {"idle", "query", "fallback", "verse", "sabbath", "loop"}
  /\ limit \in Limits \cup {0}
  /\ first \in BOOLEAN
  /\ today \in Nat
  /\ rest \in Seq(Row) /\ out \in Seq(Row)
  /\ next \in Cursor \cup {NoCursor}

Init ==
  /\ now = 0 /\ edits = 0
  /\ status = [i \in Items |-> "published"]
  /\ publishAt \in [Items -> 0..MaxTime]
  /\ phase = "ended"
  /\ wanted \in {w \in Wanted : w.lang = Fallback /\ ~w.empty}
  /\ cursor = NoCursor
  /\ shown = {} /\ steady = {}
  /\ pc = "idle"
  /\ limit = 0
  /\ first = FALSE
  /\ today = 0
  /\ rest = <<>> /\ out = <<>>
  /\ next = NoCursor

-----------------------------------------------------------------------------
(* The items.                                                              *)

Tick ==
  /\ now < MaxTime
  /\ now' = now + 1
  /\ UNCHANGED <<status, publishAt, edits, clientVars, steady, handlerVars>>

\* An editor publishes, withdraws or reschedules item i.
Edit(i) ==
  /\ edits < MaxEdits
  /\ edits' = edits + 1
  /\ \E s \in {"draft", "published"} : status' = [status EXCEPT ![i] = s]
  /\ \E t \in 0..MaxTime : publishAt' = [publishAt EXCEPT ![i] = t]
  /\ steady' = steady \ {i}
  /\ UNCHANGED <<now, clientVars, handlerVars>>

-----------------------------------------------------------------------------
(* The query ListFeed.                                                     *)

Older(a, b) == a.at < b.at \/ (a.at = b.at /\ a.id < b.id)

RowOf(i) == [id |-> i, at |-> publishAt[i]]

\* The rows the WHERE clause lets through, without the cursor.
Visible(lang, kinds) ==
  {i \in Items : /\ status[i] = "published"
                 /\ publishAt[i] <= now
                 /\ LangOf[i] = lang
                 /\ kinds = {} \/ KindOf[i] \in kinds}

MatchingNotOlder(lang, kinds, cur) ==
  {RowOf(i) : i \in {j \in Visible(lang, kinds) : cur = NoCursor \/ ~Older(cur, RowOf(j))}}
Matching(lang, kinds, cur) ==
  {RowOf(i) : i \in {j \in Visible(lang, kinds) : cur = NoCursor \/ Older(RowOf(j), cur)}}

\* ORDER BY publish_at DESC, id DESC LIMIT lim: the newest rows, newest first, all of
\* them when there are fewer.
IsAnswer(s, rows, lim) ==
  /\ \A j, k \in DOMAIN s : j < k => Older(s[k], s[j])
  /\ \A r \in rows : \/ \E k \in DOMAIN s : s[k] = r
                     \/ Len(s) = lim /\ Older(r, s[lim])

Answers(rows, lim) ==
  {s \in UNION {[1..n -> rows] : n \in 0..lim} : IsAnswer(s, rows, lim)}

-----------------------------------------------------------------------------
(* The handler.                                                            *)

\* The client opens the feed, or pulls to refresh it.
Open ==
  /\ phase = "ended" /\ pc = "idle"
  /\ phase' = "paging"
  /\ wanted' \in Wanted
  /\ cursor' = NoCursor
  /\ shown' = {} /\ steady' = {}
  /\ UNCHANGED <<itemVars, handlerVars>>

Ask ==
  /\ phase = "paging" /\ pc = "idle"
  /\ pc' = "query"
  /\ limit' \in Limits
  /\ first' = (cursor = NoCursor)
  /\ UNCHANGED <<itemVars, clientVars, steady, today, rest, out, next>>

\* The cursor pins the language: lang is a parameter of the first page only.
AskedLangAgain == wanted.lang
AskedLang == IF cursor = NoCursor THEN wanted.lang ELSE cursor.lang

\* A row beyond limit says that there is a next page, and is dropped.
PageOf(s) == IF Len(s) > limit THEN SubSeq(s, 1, limit) ELSE s

CursorAt(row, lang) == [lang |-> lang, at |-> row.at, id |-> row.id]

NextFromDropped(s, lang) == IF Len(s) > limit THEN CursorAt(s[limit + 1], lang) ELSE NoCursor
NextCursor(s, lang) == IF Len(s) > limit THEN CursorAt(s[limit], lang) ELSE NoCursor

\* What ListFeed makes of the rows of its last query in lang.
Build(s, lang) ==
  /\ rest' = PageOf(s)
  /\ next' = NextCursor(s, lang)
  /\ out' = <<>>
  /\ pc' = IF first THEN "verse" ELSE "loop"
  /\ steady' = IF first THEN Visible(lang, wanted.kinds) ELSE steady
  /\ UNCHANGED <<itemVars, clientVars, limit, first, today>>

\* Whether the handler asks again in the fallback language: only when the request has
\* no parameter cursor, so an empty one ends the feed.
AsksAgain(s) == s = <<>> /\ first /\ ~wanted.empty /\ wanted.lang # Fallback

Query ==
  /\ pc = "query"
  /\ \E s \in Answers(Matching(AskedLang, wanted.kinds, cursor), limit + 1) :
       IF AsksAgain(s)
         THEN /\ pc' = "fallback"
              /\ UNCHANGED <<itemVars, clientVars, steady, limit, first, today, rest, out, next>>
         ELSE Build(s, AskedLang)

QueryFallback ==
  /\ pc = "fallback"
  /\ \E s \in Answers(Matching(Fallback, wanted.kinds, NoCursor), limit + 1) :
       Build(s, Fallback)

\* The request is over, and its variables with it.
Return ==
  /\ pc' = "idle" /\ limit' = 0 /\ first' = FALSE /\ today' = 0
  /\ rest' = <<>> /\ out' = <<>> /\ next' = NoCursor

\* A query fails, and the client gets an error.
Fail ==
  /\ pc \in {"query", "fallback"}
  /\ Return
  /\ UNCHANGED <<itemVars, clientVars, steady>>

-----------------------------------------------------------------------------
(* arrangeFeed: rows move from rest to out.                                *)

Day(t) == t \div DayLength

Verses        == {r \in Row : KindOf[r.id] = Verse}
TodaysSchool  == {r \in Row : KindOf[r.id] = SabbathSchool /\ Day(r.at) = today}
\* The rows whose kind is not that of the last row taken.
AnyKind       == Row
OtherKind     == {r \in Row : out = <<>> \/ KindOf[r.id] # KindOf[out[Len(out)].id]}

IsAnyOf(k, S) == k \in DOMAIN rest /\ rest[k] \in S
IsFirstOf(k, S) ==
  /\ k \in DOMAIN rest /\ rest[k] \in S
  /\ \A j \in 1..(k - 1) : rest[j] \notin S

Take(k) ==
  /\ out' = Append(out, rest[k])
  /\ rest' = [j \in 1..(Len(rest) - 1) |-> IF j < k THEN rest[j] ELSE rest[j + 1]]

\* Take the first row of S, if there is one.
TakeFirstOf(S) ==
  \/ \E k \in DOMAIN rest : IsFirstOf(k, S) /\ Take(k)
  \/ (\A k \in DOMAIN rest : rest[k] \notin S) /\ UNCHANGED <<rest, out>>

TakeVerse ==
  /\ pc = "verse"
  /\ today' = Day(now)
  /\ TakeFirstOf(Verses)
  /\ pc' = "sabbath"
  /\ UNCHANGED <<itemVars, clientVars, steady, limit, first, next>>

TakeTodaysSchool ==
  /\ pc = "sabbath"
  /\ TakeFirstOf(TodaysSchool)
  /\ pc' = "loop"
  /\ UNCHANGED <<itemVars, clientVars, steady, limit, first, today, next>>

Interleave ==
  /\ pc = "loop" /\ rest # <<>>
  /\ \/ \E k \in DOMAIN rest : IsFirstOf(k, OtherKind) /\ Take(k)
     \/ (\A k \in DOMAIN rest : rest[k] \notin OtherKind) /\ Take(1)
  /\ UNCHANGED <<itemVars, clientVars, steady, pc, limit, first, today, next>>

-----------------------------------------------------------------------------
(* The answer.                                                             *)

IdsOf(s) == {s[k].id : k \in DOMAIN s}

Deliver ==
  /\ pc = "loop" /\ rest = <<>>
  /\ shown' = shown \cup IdsOf(out)
  /\ phase' = IF next = NoCursor THEN "ended" ELSE "paging"
  /\ cursor' = next
  /\ Return
  /\ UNCHANGED <<itemVars, wanted, steady>>

\* The answer is lost: the client knows what it knew.
Lose ==
  /\ pc = "loop" /\ rest = <<>>
  /\ Return
  /\ UNCHANGED <<itemVars, clientVars, steady>>

-----------------------------------------------------------------------------
Handle == Query \/ QueryFallback \/ TakeVerse \/ TakeTodaysSchool \/ Interleave

Next ==
  \/ Tick
  \/ \E i \in Items : Edit(i)
  \/ Open \/ Ask
  \/ Handle \/ Fail
  \/ Deliver \/ Lose

Spec == Init /\ [][Next]_vars

\* The handler runs on, the client asks for the next page, and neither the database nor
\* the network fails a page for ever.
Fairness ==
  /\ WF_vars(Ask) /\ WF_vars(Handle)
  /\ SF_vars(Query) /\ SF_vars(QueryFallback) /\ SF_vars(Deliver)

FairSpec == Spec /\ Fairness

-----------------------------------------------------------------------------
(* What the feed promises.                                                 *)

\* Pagination "never skips or repeats items across pages" (feed.go:116), whatever
\* editors, the clock, failed queries and lost answers do between two pages: an item
\* that was visible when the first page was read and that no editor touched since is on
\* exactly one of the pages the client received, once, when the feed ends.
SteadyOnce ==
  /\ \A j, k \in DOMAIN rest : rest[j].id = rest[k].id => j = k
  /\ \A j, k \in DOMAIN out : out[j].id = out[k].id => j = k
  /\ IdsOf(rest) \cap IdsOf(out) = {}
  /\ shown \cap steady \cap (IdsOf(rest) \cup IdsOf(out)) = {}
  /\ phase = "ended" => steady \subseteq shown

\* "The rest is interleaved so no kind appears twice in a row when another kind is
\* available" (feed.go:118): where two neighbours are of a kind, so is all that follows.
KindsInterleaved ==
  \A k \in 2..Len(out) :
    KindOf[out[k].id] = KindOf[out[k - 1].id] =>
      /\ \A j \in k..Len(out) : KindOf[out[j].id] = KindOf[out[k].id]
      /\ \A j \in DOMAIN rest : KindOf[rest[j].id] = KindOf[out[k].id]

\* Within a kind a page stays newest first: interleaving moves items of other kinds only,
\* and neither the verse nor today's Sabbath School item jumps over a newer one, although
\* "today" is read after the query and midnight may lie between.
KindsInOrder ==
  /\ \A j, k \in DOMAIN out :
       j < k /\ KindOf[out[j].id] = KindOf[out[k].id] => Older(out[k], out[j])
  /\ \A j \in DOMAIN out, k \in DOMAIN rest :
       KindOf[out[j].id] = KindOf[rest[k].id] => Older(rest[k], out[j])

\* A client that keeps asking reaches the last page, though items go on being published
\* and rescheduled: the cursor only moves to older rows.
FeedEnds == phase = "paging" ~> phase = "ended"

-----------------------------------------------------------------------------
(* Why SteadyOnce holds: of the steady items the client has those down to  *)
(* the cursor, and with the page being built it has those down to next.    *)

InPage(i) == i \in IdsOf(rest) \cup IdsOf(out)

Building == pc \in {"verse", "sabbath", "loop"}

\* The steady items still match what the client asked for, in the cursor's language.
SteadyVisible ==
  \A i \in steady :
    /\ status[i] = "published" /\ publishAt[i] <= now
    /\ wanted.kinds = {} \/ KindOf[i] \in wanted.kinds
    /\ cursor # NoCursor => LangOf[i] = cursor.lang

ShownToCursor ==
  /\ phase = "paging" /\ cursor = NoCursor => shown = {}
  /\ phase = "paging" /\ cursor # NoCursor =>
       \A i \in steady : i \in shown <=> ~Older(RowOf(i), cursor)
  /\ phase = "ended" => steady \subseteq shown /\ cursor = NoCursor

PageToNext ==
  Building =>
    \A i \in steady :
      /\ ~(i \in shown /\ InPage(i))
      /\ IF next = NoCursor
           THEN i \in shown \/ InPage(i)
           ELSE /\ i \in shown \/ InPage(i) <=> ~Older(RowOf(i), next)
                /\ LangOf[i] = next.lang

PageOnce ==
  /\ \A j, k \in DOMAIN rest : rest[j].id = rest[k].id => j = k
  /\ \A j, k \in DOMAIN out : out[j].id = out[k].id => j = k
  /\ \A j \in DOMAIN rest, k \in DOMAIN out : rest[j].id # out[k].id

HandlerOK ==
  /\ pc # "idle" => phase = "paging" /\ limit \in Limits /\ first = (cursor = NoCursor)
  /\ pc = "fallback" => first
  /\ ~Building => rest = <<>> /\ out = <<>>

\* The inductive invariant of Feed: the client and the page being built are where the
\* cursor says.
FeedInv == SteadyVisible /\ ShownToCursor /\ PageToNext /\ PageOnce /\ HandlerOK

\* Why KindsInterleaved holds from the start: the anchors are a verse and then a
\* Sabbath School item.
AnchorsOK ==
  /\ pc = "verse" => out = <<>>
  /\ pc = "sabbath" => Len(out) <= 1 /\ \A k \in DOMAIN out : KindOf[out[k].id] = Verse

\* Why KindsInOrder does: rest is newest first and holds nothing of a later day.
RestInOrder ==
  /\ \A j, k \in DOMAIN rest : j < k => Older(rest[k], rest[j])
  /\ \A k \in DOMAIN rest : rest[k].at <= now
  /\ pc = "sabbath" => \A k \in DOMAIN rest : Day(rest[k].at) <= today
=============================================================================
