----------------------------- MODULE FeedProofs -----------------------------
(***************************************************************************)
(* Theorems about Feed, for every set of items, languages, kinds and       *)
(* limits: the type invariant, the inductive invariant, and that a steady  *)
(* item is on exactly one of the pages a client receives.                  *)
(***************************************************************************)
EXTENDS Feed, TLAPS

-----------------------------------------------------------------------------
(* The order of the feed.                                                  *)

\* The place of a row or a cursor in the feed.
Place(r) == r.at \in Nat /\ r.id \in Nat

LEMMA OlderTransitive ==
  ASSUME NEW a, NEW b, NEW c, Place(a), Place(b), Place(c), Older(a, b), Older(b, c)
  PROVE  Older(a, c)
BY DEF Older, Place

\* Places with different ids are never level.
LEMMA OlderTotal ==
  ASSUME NEW a, NEW b, Place(a), Place(b)
  PROVE  /\ ~(Older(a, b) /\ Older(b, a))
         /\ a.id # b.id => Older(a, b) \/ Older(b, a)
BY DEF Older, Place

LEMMA Places ==
  /\ \A r \in Row : Place(r)
  /\ \A c \in Cursor : Place(c)
BY FeedAssumption DEF FeedAssumption, Place, Row, Cursor

LEMMA RowTyped ==
  ASSUME TypeOK, NEW i \in Items
  PROVE  /\ RowOf(i) \in Row
         /\ RowOf(i).id = i /\ RowOf(i).at = publishAt[i]
BY DEF RowOf, Row, TypeOK

LEMMA MatchingTyped ==
  ASSUME TypeOK, NEW lang, NEW kinds, NEW cur
  PROVE  Matching(lang, kinds, cur) \subseteq Row
BY RowTyped DEF Matching, Visible

\* What the query returns: at most lim rows, newest first.
LEMMA AnswerTyped ==
  ASSUME TypeOK, NEW lang, NEW kinds, NEW cur, NEW lim \in Nat,
         NEW s \in Answers(Matching(lang, kinds, cur), lim)
  PROVE  /\ s \in Seq(Row) /\ Len(s) <= lim
         /\ \A k \in 1..Len(s) : s[k] \in Matching(lang, kinds, cur)
         /\ IsAnswer(s, Matching(lang, kinds, cur), lim)
<1> DEFINE rows == Matching(lang, kinds, cur)
<1>1. PICK n \in 0..lim : s \in [1..n -> rows]
  BY DEF Answers
<1>2. s \in Seq(rows) /\ Len(s) = n
  BY <1>1
<1>3. rows \subseteq Row
  BY MatchingTyped
<1>4. s \in Seq(Row) /\ Len(s) <= lim
  BY <1>2, <1>3
<1>5. \A k \in 1..Len(s) : s[k] \in rows
  BY <1>1, <1>2
<1>6. IsAnswer(s, rows, lim)
  BY DEF Answers
<1> QED
  BY <1>4, <1>5, <1>6

-----------------------------------------------------------------------------
(* The arrangement of a page moves one row, or none.                       *)

Moves == \E k \in DOMAIN rest : Take(k)

LEMMA ArrangeMoves ==
  ASSUME TypeOK, TakeVerse \/ TakeTodaysSchool \/ Interleave
  PROVE  /\ Moves \/ UNCHANGED <<rest, out>>
         /\ Building /\ Building'
         /\ UNCHANGED <<itemVars, clientVars, steady, limit, first, next>>
<1>1. CASE TakeVerse
  BY <1>1 DEF TakeVerse, TakeFirstOf, Moves, Building
<1>2. CASE TakeTodaysSchool
  BY <1>2 DEF TakeTodaysSchool, TakeFirstOf, Moves, Building
<1>3. CASE Interleave
  <2>1. 1 \in DOMAIN rest
    BY <1>3 DEF Interleave, TypeOK
  <2> QED
    BY <1>3, <2>1 DEF Interleave, Moves, Building
<1> QED
  BY <1>1, <1>2, <1>3

LEMMA TakeTyped ==
  ASSUME TypeOK, NEW k \in DOMAIN rest, Take(k)
  PROVE  /\ rest' \in Seq(Row) /\ Len(rest') = Len(rest) - 1
         /\ \A j \in 1..Len(rest') : rest'[j] = IF j < k THEN rest[j] ELSE rest[j + 1]
         /\ out' \in Seq(Row) /\ Len(out') = Len(out) + 1
         /\ \A j \in 1..Len(out) : out'[j] = out[j]
         /\ out'[Len(out) + 1] = rest[k]
<1>1. rest \in Seq(Row) /\ out \in Seq(Row) /\ k \in 1..Len(rest)
  BY DEF TypeOK
<1>2. out' = Append(out, rest[k]) /\ rest[k] \in Row
  BY <1>1 DEF Take
<1>3. /\ out' \in Seq(Row) /\ Len(out') = Len(out) + 1
      /\ \A j \in 1..Len(out) : out'[j] = out[j]
      /\ out'[Len(out) + 1] = rest[k]
  BY <1>1, <1>2
<1> DEFINE n == Len(rest) - 1
           f == [j \in 1..n |-> IF j < k THEN rest[j] ELSE rest[j + 1]]
<1>4. n \in Nat /\ rest' = f
  BY <1>1 DEF Take
<1>5. \A j \in 1..n : f[j] \in Row
  BY <1>1
<1>6. f \in Seq(Row) /\ Len(f) = n
  BY <1>4, <1>5
<1>7. \A j \in 1..n : f[j] = IF j < k THEN rest[j] ELSE rest[j + 1]
  OBVIOUS
<1> QED
  BY <1>3, <1>4, <1>6, <1>7

-----------------------------------------------------------------------------
(* Types.                                                                  *)

ItemsOK ==
  /\ now \in Nat /\ edits \in Nat
  /\ status \in [Items -> {"draft", "published"}]
  /\ publishAt \in [Items -> Nat]
ClientOK ==
  /\ phase \in {"paging", "ended"} /\ wanted \in Wanted
  /\ cursor \in Cursor \cup {NoCursor}
  /\ shown \subseteq Items /\ steady \subseteq Items
RequestOK ==
  /\ pc \in {"idle", "query", "fallback", "verse", "sabbath", "loop"}
  /\ limit \in Limits \cup {0} /\ today \in Nat
FirstOK == first \in BOOLEAN
PageOK ==
  /\ rest \in Seq(Row) /\ out \in Seq(Row)
  /\ next \in Cursor \cup {NoCursor}

LEMMA TypeParts ==
  /\ TypeOK <=> ItemsOK /\ ClientOK /\ RequestOK /\ FirstOK /\ PageOK
  /\ ItemsOK' /\ ClientOK' /\ RequestOK' /\ FirstOK' /\ PageOK' => TypeOK'
BY DEF TypeOK, ItemsOK, ClientOK, RequestOK, FirstOK, PageOK

\* A part of TypeOK holds on when its variables do not change.
LEMMA PartsUnchanged ==
  /\ TypeOK /\ UNCHANGED itemVars => ItemsOK'
  /\ TypeOK /\ UNCHANGED <<clientVars, steady>> => ClientOK'
  /\ TypeOK /\ UNCHANGED <<pc, limit, today>> => RequestOK'
  /\ TypeOK /\ UNCHANGED first => FirstOK'
  /\ TypeOK /\ UNCHANGED <<rest, out, next>> => PageOK'
<1> USE TypeParts
<1>1. TypeOK /\ UNCHANGED itemVars => ItemsOK'
  BY DEF itemVars, ItemsOK
<1>2. TypeOK /\ UNCHANGED <<clientVars, steady>> => ClientOK'
  BY DEF clientVars, ClientOK
<1>3. TypeOK /\ UNCHANGED <<pc, limit, today>> => RequestOK'
  BY DEF RequestOK
<1>4. TypeOK /\ UNCHANGED first => FirstOK'
  BY DEF FirstOK
<1>5. TypeOK /\ UNCHANGED <<rest, out, next>> => PageOK'
  BY DEF PageOK
<1> QED
  BY <1>1, <1>2, <1>3, <1>4, <1>5

LEMMA InitType == Init => TypeOK
<1> SUFFICES ASSUME Init PROVE TypeOK
  OBVIOUS
<1>1. ItemsOK
  BY FeedAssumption DEF FeedAssumption, Init, ItemsOK
<1>2. ClientOK
  BY DEF Init, ClientOK
<1>3. RequestOK /\ PageOK
  BY DEF Init, RequestOK, PageOK
<1>4. FirstOK
  BY DEF Init, FirstOK
<1> QED
  BY <1>1, <1>2, <1>3, <1>4, TypeParts

LEMMA ReturnTyped == ASSUME Return PROVE RequestOK' /\ FirstOK' /\ PageOK'
<1>1. RequestOK'
  BY DEF Return, RequestOK
<1>2. FirstOK'
  BY DEF Return, FirstOK
<1>3. PageOK'
  BY DEF Return, PageOK
<1> QED
  BY <1>1, <1>2, <1>3

LEMMA BuildTyped ==
  ASSUME TypeOK, NEW lang \in Langs, NEW kinds, NEW cur, limit \in Limits,
         NEW s \in Answers(Matching(lang, kinds, cur), limit + 1), Build(s, lang)
  PROVE  TypeOK'
<1>1. limit \in Nat /\ limit > 0
  BY FeedAssumption DEF FeedAssumption
<1>2. s \in Seq(Row)
  BY AnswerTyped, <1>1
<1>3. ItemsOK' /\ RequestOK' /\ FirstOK'
  <2>1. ItemsOK' /\ FirstOK'
    BY PartsUnchanged DEF Build
  <2>2. RequestOK'
    BY TypeParts DEF Build, RequestOK
  <2> QED
    BY <2>1, <2>2
<1>4. Visible(lang, wanted.kinds) \subseteq Items
  BY DEF Visible
<1>5. ClientOK'
  BY TypeParts, <1>4 DEF Build, ClientOK, clientVars
<1>6. CASE Len(s) > limit
  <2>1. rest' = SubSeq(s, 1, limit) /\ next' = [lang |-> lang, at |-> s[limit].at, id |-> s[limit].id]
    BY <1>6 DEF Build, PageOf, NextCursor, CursorAt
  <2>2. s[limit] \in Row
    BY <1>1, <1>2, <1>6
  <2>3. next' \in Cursor
    BY <2>1, <2>2 DEF Cursor, Row
  <2>4. rest' \in Seq(Row)
    BY <1>1, <1>2, <1>6, <2>1
  <2>5. PageOK'
    BY <2>3, <2>4 DEF Build, PageOK
  <2> QED
    BY <1>3, <1>5, <2>5, TypeParts
<1>7. CASE ~(Len(s) > limit)
  <2>1. PageOK'
    BY <1>2, <1>7 DEF Build, PageOf, NextCursor, PageOK
  <2> QED
    BY <1>3, <1>5, <2>1, TypeParts
<1> QED
  BY <1>6, <1>7

\* Whatever the limits, the clock and the editors do, every variable keeps its type.
LEMMA TypeStep == ASSUME TypeOK, HandlerOK, [Next]_vars PROVE TypeOK'
<1> USE TypeParts, PartsUnchanged
<1>1. CASE Tick
  <2>1. ItemsOK'
    BY <1>1 DEF Tick, ItemsOK
  <2> QED
    BY <1>1, <2>1 DEF Tick, handlerVars
<1>2. ASSUME NEW i \in Items, Edit(i) PROVE TypeOK'
  <2>1. ItemsOK'
    BY <1>2, FeedAssumption DEF FeedAssumption, Edit, ItemsOK
  <2>2. ClientOK'
    BY <1>2 DEF Edit, ClientOK, clientVars
  <2> QED
    BY <1>2, <2>1, <2>2 DEF Edit, handlerVars
<1>3. CASE Open
  <2>1. ClientOK'
    BY <1>3 DEF Open, ClientOK
  <2> QED
    BY <1>3, <2>1 DEF Open, handlerVars
<1>4. CASE Ask
  <2>1. RequestOK'
    BY <1>4 DEF Ask, RequestOK
  <2>2. FirstOK'
    BY <1>4 DEF Ask, FirstOK
  <2> QED
    BY <1>4, <2>1, <2>2 DEF Ask
<1>5. CASE Query
  <2>1. limit \in Limits
    BY <1>5 DEF Query, HandlerOK
  <2>2. AskedLang \in Langs
    BY DEF AskedLang, ClientOK, Wanted, Cursor
  <2>3. PICK s \in Answers(Matching(AskedLang, wanted.kinds, cursor), limit + 1) :
          IF AsksAgain(s)
            THEN /\ pc' = "fallback"
                 /\ UNCHANGED <<itemVars, clientVars, steady, limit, first, today, rest, out, next>>
            ELSE Build(s, AskedLang)
    BY <1>5 DEF Query
  <2>4. CASE AsksAgain(s)
    <3>1. RequestOK'
      BY <2>3, <2>4 DEF RequestOK
    <3> QED
      BY <2>3, <2>4, <3>1
  <2>5. CASE ~AsksAgain(s)
    BY <2>1, <2>2, <2>3, <2>5, BuildTyped
  <2> QED
    BY <2>4, <2>5
<1>6. CASE QueryFallback
  BY <1>6, BuildTyped, FeedAssumption DEF FeedAssumption, QueryFallback, HandlerOK
<1>7. CASE TakeVerse \/ TakeTodaysSchool \/ Interleave
  <2>1. PageOK'
    BY <1>7, ArrangeMoves, TakeTyped DEF Moves, PageOK
  <2>2. RequestOK'
    BY <1>7, FeedAssumption
       DEF FeedAssumption, RequestOK, TakeVerse, TakeTodaysSchool, Interleave, Day, ItemsOK
  <2> QED
    BY <1>7, <2>1, <2>2, ArrangeMoves
<1>8. CASE Fail
  BY <1>8, ReturnTyped DEF Fail
<1>9. CASE Deliver
  <2>1. IdsOf(out) \subseteq Items
    <3>1. \A k \in DOMAIN out : out[k] \in Row
      BY DEF PageOK
    <3> QED
      BY <3>1 DEF IdsOf, Row
  <2>2. ClientOK'
    BY <1>9, <2>1 DEF Deliver, ClientOK, PageOK
  <2> QED
    BY <1>9, <2>2, ReturnTyped DEF Deliver
<1>10. CASE Lose
  BY <1>10, ReturnTyped DEF Lose
<1>11. CASE UNCHANGED vars
  BY <1>11 DEF vars, itemVars, clientVars
<1> QED
  BY <1>1, <1>2, <1>3, <1>4, <1>5, <1>6, <1>7, <1>8, <1>9, <1>10, <1>11 DEF Next, Handle

-----------------------------------------------------------------------------
(* The page a query builds.                                                *)

InvF == TypeOK /\ FeedInv

LEMMA MatchingIs ==
  ASSUME TypeOK, NEW lang, NEW kinds, NEW cur,
         NEW r \in Matching(lang, kinds, cur)
  PROVE  /\ r.id \in Visible(lang, kinds) /\ r = RowOf(r.id)
         /\ cur = NoCursor \/ Older(r, cur)
<1>1. PICK i \in Visible(lang, kinds) : r = RowOf(i) /\ (cur = NoCursor \/ Older(RowOf(i), cur))
  BY DEF Matching
<1>2. i = r.id
  BY <1>1 DEF RowOf
<1> QED
  BY <1>1, <1>2

\* Where the steady items stand when the handler's query is answered: the client has
\* those down to the cursor, and the others match the query.
LEMMA SteadyMatches ==
  ASSUME InvF, pc \in {"query", "fallback"}, NEW lang \in Langs,
         cursor # NoCursor => lang = cursor.lang,
         NEW s, Build(s, lang), NEW i \in steady'
  PROVE  /\ i \in Items /\ i \in Visible(lang, wanted.kinds)
         /\ i \in shown => cursor # NoCursor /\ ~Older(RowOf(i), cursor)
         /\ i \notin shown <=> RowOf(i) \in Matching(lang, wanted.kinds, cursor)
<1>1. phase = "paging" /\ first = (cursor = NoCursor)
  BY DEF InvF, FeedInv, HandlerOK
<1>2. CASE cursor = NoCursor
  <2>1. i \in Visible(lang, wanted.kinds) /\ shown = {}
    BY <1>1, <1>2 DEF Build, InvF, FeedInv, ShownToCursor
  <2> QED
    BY <1>2, <2>1 DEF Visible, Matching
<1>3. CASE cursor # NoCursor
  <2>1. i \in steady
    BY <1>1, <1>3 DEF Build
  <2>2. i \in Items /\ i \in Visible(lang, wanted.kinds)
    BY <1>3, <2>1 DEF InvF, FeedInv, SteadyVisible, Visible, TypeOK
  <2>3. i \in shown <=> ~Older(RowOf(i), cursor)
    BY <1>1, <1>3, <2>1 DEF InvF, FeedInv, ShownToCursor
  <2>4. RowOf(i) \in Matching(lang, wanted.kinds, cursor) => Older(RowOf(i), cursor)
    BY <1>3, MatchingIs DEF InvF
  <2>5. Older(RowOf(i), cursor) => RowOf(i) \in Matching(lang, wanted.kinds, cursor)
    BY <2>2 DEF Matching
  <2> QED
    BY <1>3, <2>2, <2>3, <2>4, <2>5
<1> QED
  BY <1>2, <1>3

LEMMA BuildInv ==
  ASSUME InvF, pc \in {"query", "fallback"}, NEW lang \in Langs,
         cursor # NoCursor => lang = cursor.lang,
         NEW s \in Answers(Matching(lang, wanted.kinds, cursor), limit + 1),
         Build(s, lang)
  PROVE  FeedInv'
<1> DEFINE rows == Matching(lang, wanted.kinds, cursor)
<1>1. /\ limit \in Nat /\ limit > 0 /\ limit \in Limits
      /\ phase = "paging" /\ first = (cursor = NoCursor)
  <2>1. limit \in Limits /\ phase = "paging" /\ first = (cursor = NoCursor)
    BY DEF InvF, FeedInv, HandlerOK
  <2>2. \A l \in Limits : l \in Nat /\ l > 0
    BY FeedAssumption DEF FeedAssumption
  <2> QED
    BY <2>1, <2>2
<1>2. /\ s \in Seq(Row) /\ Len(s) \in Nat /\ Len(s) <= limit + 1
      /\ \A k \in 1..Len(s) : s[k] \in rows /\ s[k] \in Row
      /\ IsAnswer(s, rows, limit + 1)
  BY <1>1, AnswerTyped DEF InvF
<1>3. \A k \in 1..Len(s) : s[k] = RowOf(s[k].id) /\ s[k].id \in Items /\ Place(s[k])
  BY <1>2, MatchingIs, Places DEF InvF, Row
<1>4. \A j, k \in 1..Len(s) : j < k => Older(s[k], s[j]) /\ ~Older(s[j], s[k])
  BY <1>2, <1>3, OlderTotal DEF IsAnswer
<1>5. \A j, k \in 1..Len(s) : s[j].id = s[k].id => j = k
  BY <1>3, <1>4
<1>6. \A r \in rows : (\E k \in 1..Len(s) : s[k] = r)
                         \/ (Len(s) = limit + 1 /\ Older(r, s[limit + 1]))
  <2>1. DOMAIN s = 1..Len(s)
    BY <1>2
  <2> QED
    BY <1>2, <2>1 DEF IsAnswer
<1> DEFINE n == IF Len(s) > limit THEN limit ELSE Len(s)
<1>7. /\ n \in 0..Len(s) /\ Len(rest') = n /\ rest' \in Seq(Row)
      /\ \A k \in 1..n : rest'[k] = s[k]
      /\ out' = <<>>
  <2>1. CASE Len(s) > limit
    <3>1. rest' = SubSeq(s, 1, limit) /\ out' = <<>>
      BY <2>1 DEF Build, PageOf, NextCursor, CursorAt
    <3>2. limit \in 1..Len(s) /\ n = limit
      BY <1>1, <1>2, <2>1
    <3> HIDE DEF n
    <3>3. SubSeq(s, 1, limit) \in Seq(Row) /\ Len(SubSeq(s, 1, limit)) = limit
      BY <1>1, <1>2, <3>2
    <3>4. \A k \in 1..limit : SubSeq(s, 1, limit)[k] = s[k]
      BY <1>1, <1>2, <3>2
    <3> QED
      BY <1>1, <1>2, <3>1, <3>2, <3>3, <3>4
  <2>2. CASE ~(Len(s) > limit)
    BY <1>1, <1>2, <2>2 DEF Build, PageOf, NextCursor, CursorAt
  <2> QED
    BY <2>1, <2>2
<1>8. \A i : InPage(i)' <=> \E k \in 1..n : s[k].id = i
  BY <1>7 DEF InPage, IdsOf
<1>9. PageOnce'
  <2>1. DOMAIN rest' = 1..n /\ DOMAIN out' = {}
    BY <1>7
  <2>2. \A k \in 1..n : k \in 1..Len(s)
    BY <1>2, <1>7
  <2> HIDE DEF n
  <2> QED
    BY <1>5, <1>7, <2>1, <2>2 DEF PageOnce
<1>10. SteadyVisible'
  <2>1. /\ status' = status /\ publishAt' = publishAt /\ now' = now
        /\ wanted' = wanted /\ cursor' = cursor
    BY DEF Build, itemVars, clientVars
  <2> QED
    BY <2>1, SteadyMatches DEF SteadyVisible, Visible
<1>11. ShownToCursor'
  <2>1. publishAt' = publishAt /\ cursor' = cursor /\ shown' = shown /\ phase' = phase
    BY DEF Build, itemVars, clientVars
  <2>2. cursor # NoCursor => steady' = steady
    BY <1>1 DEF Build
  <2>3. /\ cursor = NoCursor => shown = {}
        /\ cursor # NoCursor => \A i \in steady : i \in shown <=> ~Older(RowOf(i), cursor)
    BY <1>1 DEF InvF, FeedInv, ShownToCursor
  <2> QED
    BY <1>1, <2>1, <2>2, <2>3 DEF ShownToCursor, RowOf
<1>12. HandlerOK'
  BY <1>1 DEF Build, HandlerOK, Building, clientVars
<1>13. PageToNext'
  <2> SUFFICES ASSUME NEW i \in steady'
               PROVE  /\ ~(i \in shown /\ InPage(i)')
                      /\ IF next' = NoCursor
                           THEN i \in shown \/ InPage(i)'
                           ELSE /\ i \in shown \/ InPage(i)' <=> ~Older(RowOf(i), next')
                                /\ LangOf[i] = next'.lang
    BY DEF PageToNext, Build, itemVars, clientVars, RowOf
  <2>1. /\ i \in Items /\ LangOf[i] = lang
        /\ i \in shown => cursor # NoCursor /\ ~Older(RowOf(i), cursor)
        /\ i \notin shown <=> RowOf(i) \in rows
    BY SteadyMatches DEF Visible
  <2>2. RowOf(i).id = i /\ Place(RowOf(i))
    BY <2>1, RowTyped, Places DEF InvF
  <2>3. ~(i \in shown /\ InPage(i)')
    BY <1>2, <1>3, <1>7, <1>8, <2>1
  <2>4. CASE Len(s) > limit
    <3>1. /\ next' = [lang |-> lang, at |-> s[limit].at, id |-> s[limit].id]
          /\ n = limit /\ Len(s) = limit + 1
      BY <1>1, <1>2, <2>4 DEF Build, PageOf, NextCursor, CursorAt
    <3>2. next' # NoCursor /\ Place(next')
      BY <1>1, <1>2, <3>1, FeedAssumption, Places DEF FeedAssumption, Row, Cursor
    <3>3. \A r : (Older(r, next') <=> Older(r, s[limit])) /\ (Older(next', r) <=> Older(s[limit], r))
      BY <3>1 DEF Older
    <3>4. i \in shown => ~Older(RowOf(i), s[limit])
      <4>1. cursor # NoCursor => Older(s[limit], cursor) /\ Place(cursor)
        BY <1>1, <1>2, <3>1, MatchingIs, Places DEF InvF, TypeOK
      <4> QED
        BY <1>1, <1>3, <2>1, <2>2, <3>1, <4>1, OlderTransitive
    <3>5. InPage(i)' => ~Older(RowOf(i), s[limit])
      <4>1. ASSUME NEW k \in 1..n, s[k].id = i PROVE ~Older(RowOf(i), s[limit])
        <5>1. s[k] = RowOf(i)
          BY <1>3, <1>7, <4>1
        <5>2. k < limit \/ k = limit
          BY <1>1, <3>1
        <5> QED
          BY <1>1, <1>3, <1>4, <3>1, <5>1, <5>2, OlderTotal
      <4> QED
        BY <1>8, <4>1
    <3>6. i \notin shown /\ ~InPage(i)' => Older(RowOf(i), s[limit])
      <4> SUFFICES ASSUME i \notin shown, ~InPage(i)' PROVE Older(RowOf(i), s[limit])
        OBVIOUS
      <4>1. Older(s[limit + 1], s[limit])
        BY <1>1, <1>4, <3>1
      <4>2. CASE \E k \in 1..Len(s) : s[k] = RowOf(i)
        <5>1. s[limit + 1] = RowOf(i)
          BY <1>1, <1>8, <2>2, <3>1, <4>2
        <5> QED
          BY <4>1, <5>1
      <4>3. CASE Older(RowOf(i), s[limit + 1])
        BY <1>1, <1>3, <2>2, <3>1, <4>1, <4>3, OlderTransitive
      <4> QED
        BY <1>6, <2>1, <4>2, <4>3
    <3> QED
      BY <2>1, <2>3, <3>1, <3>2, <3>3, <3>4, <3>5, <3>6
  <2>5. CASE ~(Len(s) > limit)
    <3>1. next' = NoCursor /\ n = Len(s)
      BY <2>5 DEF Build, PageOf, NextCursor, CursorAt
    <3>2. RowOf(i) \in rows => \E k \in 1..Len(s) : s[k] = RowOf(i)
      BY <1>1, <1>2, <1>6, <2>5
    <3> QED
      BY <1>8, <2>1, <2>2, <2>3, <3>1, <3>2
  <2> QED
    BY <2>4, <2>5
<1> QED
  BY <1>9, <1>10, <1>11, <1>12, <1>13 DEF FeedInv

-----------------------------------------------------------------------------
(* The inductive invariant.                                                *)

LEMMA InitInv == Init => FeedInv
BY DEF Init, FeedInv, SteadyVisible, ShownToCursor, PageToNext, PageOnce, HandlerOK,
       Building, IdsOf, InPage

\* The invariant says nothing about a client and a page that do not change.
LEMMA SameClient ==
  ASSUME FeedInv, UNCHANGED <<publishAt, clientVars, pc, limit, first, rest, out, next>>,
         steady' \subseteq steady, SteadyVisible'
  PROVE  FeedInv'
<1>1. \A i : RowOf(i)' = RowOf(i) /\ InPage(i)' = InPage(i)
  BY DEF RowOf, InPage, IdsOf
<1>2. ShownToCursor'
  BY <1>1 DEF FeedInv, ShownToCursor, clientVars
<1>3. PageToNext'
  BY <1>1 DEF FeedInv, PageToNext, clientVars, Building
<1>4. PageOnce' /\ HandlerOK'
  BY DEF FeedInv, PageOnce, HandlerOK, clientVars, Building
<1> QED
  BY <1>2, <1>3, <1>4 DEF FeedInv

LEMMA EditInv ==
  ASSUME InvF, NEW e \in Items, Edit(e)
  PROVE  FeedInv'
<1>1. /\ steady' = steady \ {e}
      /\ UNCHANGED <<now, clientVars, handlerVars>>
      /\ \A i \in steady' : i \in Items /\ i # e
  BY DEF Edit, InvF, TypeOK
<1>2. \A i \in Items : i # e => status'[i] = status[i] /\ publishAt'[i] = publishAt[i]
  BY DEF Edit, InvF, TypeOK
<1>3. \A i \in steady' : RowOf(i)' = RowOf(i) /\ status'[i] = status[i] /\ publishAt'[i] = publishAt[i]
  BY <1>1, <1>2 DEF RowOf
<1>4. SteadyVisible'
  BY <1>1, <1>3 DEF InvF, FeedInv, SteadyVisible, clientVars
<1>5. ShownToCursor'
  BY <1>1, <1>3 DEF InvF, FeedInv, ShownToCursor, clientVars
<1>6. \A i : InPage(i)' = InPage(i)
  BY <1>1 DEF InPage, IdsOf, handlerVars
<1>7. PageToNext'
  BY <1>1, <1>3, <1>6 DEF InvF, FeedInv, PageToNext, clientVars, handlerVars, Building
<1>8. PageOnce' /\ HandlerOK'
  BY <1>1 DEF InvF, FeedInv, PageOnce, HandlerOK, clientVars, handlerVars, Building
<1> QED
  BY <1>4, <1>5, <1>7, <1>8 DEF FeedInv

\* Moving a row from rest to out changes neither the page nor that it has no doubles.
LEMMA ArrangeInv ==
  ASSUME InvF, TakeVerse \/ TakeTodaysSchool \/ Interleave
  PROVE  FeedInv'
<1>1. /\ Building /\ Building'
      /\ UNCHANGED <<itemVars, clientVars, steady, limit, first, next>>
  BY ArrangeMoves DEF InvF
<1>2. PageOnce' /\ \A i : InPage(i)' <=> InPage(i)
  <2>1. ASSUME NEW k \in DOMAIN rest, Take(k)
        PROVE  PageOnce' /\ \A i : InPage(i)' <=> InPage(i)
    <3>1. /\ Len(rest) \in Nat /\ Len(out) \in Nat /\ k \in 1..Len(rest)
          /\ DOMAIN rest = 1..Len(rest) /\ DOMAIN out = 1..Len(out)
          /\ DOMAIN rest' = 1..(Len(rest) - 1) /\ DOMAIN out' = 1..(Len(out) + 1)
      BY <2>1, TakeTyped DEF InvF, TypeOK
    <3>2. /\ \A j \in 1..(Len(rest) - 1) : rest'[j] = IF j < k THEN rest[j] ELSE rest[j + 1]
          /\ \A j \in 1..Len(out) : out'[j] = out[j]
          /\ out'[Len(out) + 1] = rest[k]
      BY <2>1, <3>1, TakeTyped DEF InvF
    <3>3. \A j \in 1..(Len(rest) - 1) :
            \E m \in 1..Len(rest) : /\ m # k /\ rest'[j] = rest[m]
                                    /\ m = IF j < k THEN j ELSE j + 1
      BY <3>1, <3>2
    <3>4. \A j \in 1..(Len(out) + 1) : \/ j \in 1..Len(out) /\ out'[j] = out[j]
                                       \/ j = Len(out) + 1 /\ out'[j] = rest[k]
      BY <3>1, <3>2
    <3>5. \A m \in 1..Len(rest) : m # k => \E j \in 1..(Len(rest) - 1) : rest'[j] = rest[m]
      <4> SUFFICES ASSUME NEW m \in 1..Len(rest), m # k
                   PROVE  \E j \in 1..(Len(rest) - 1) : rest'[j] = rest[m]
        OBVIOUS
      <4>1. CASE m < k
        <5>1. m \in 1..(Len(rest) - 1) /\ rest'[m] = rest[m]
          BY <3>1, <3>2, <4>1
        <5> QED
          BY <5>1
      <4>2. CASE m > k
        <5>1. m - 1 \in 1..(Len(rest) - 1) /\ rest'[m - 1] = rest[m]
          BY <3>1, <3>2, <4>2
        <5> QED
          BY <5>1
      <4> QED
        BY <3>1, <4>1, <4>2
    <3>6. PageOnce
      BY DEF InvF, FeedInv
    <3>7. PageOnce'
      <4>1. \A i, j \in 1..(Len(rest) - 1) : rest'[i].id = rest'[j].id => i = j
        BY <3>1, <3>3, <3>6 DEF PageOnce
      <4>2. \A i, j \in 1..(Len(out) + 1) : out'[i].id = out'[j].id => i = j
        BY <3>1, <3>4, <3>6 DEF PageOnce
      <4>3. \A i \in 1..(Len(rest) - 1), j \in 1..(Len(out) + 1) : rest'[i].id # out'[j].id
        BY <3>1, <3>3, <3>4, <3>6 DEF PageOnce
      <4> QED
        BY <3>1, <4>1, <4>2, <4>3 DEF PageOnce
    <3>8. \A i : InPage(i)' => InPage(i)
      BY <3>1, <3>3, <3>4 DEF InPage, IdsOf
    <3>9. \A i : InPage(i) => InPage(i)'
      <4> SUFFICES ASSUME NEW i, InPage(i) PROVE InPage(i)'
        OBVIOUS
      <4>1. CASE i \in IdsOf(out)
        <5>1. PICK j \in 1..Len(out) : out[j].id = i
          BY <3>1, <4>1 DEF IdsOf
        <5>2. j \in 1..(Len(out) + 1) /\ out'[j].id = i
          BY <3>1, <3>2, <5>1
        <5> QED
          BY <3>1, <5>2 DEF InPage, IdsOf
      <4>2. CASE i \in IdsOf(rest)
        <5>1. PICK m \in 1..Len(rest) : rest[m].id = i
          BY <3>1, <4>2 DEF IdsOf
        <5>2. CASE m = k
          BY <3>1, <3>2, <5>1, <5>2 DEF InPage, IdsOf
        <5>3. CASE m # k
          BY <3>1, <3>5, <5>1, <5>3 DEF InPage, IdsOf
        <5> QED
          BY <5>2, <5>3
      <4> QED
        BY <4>1, <4>2 DEF InPage
    <3> QED
      BY <3>7, <3>8, <3>9
  <2>2. CASE UNCHANGED <<rest, out>>
    BY <2>2 DEF InvF, FeedInv, PageOnce, InPage, IdsOf
  <2> QED
    BY <2>1, <2>2, ArrangeMoves DEF InvF, Moves
<1>3. \A i : RowOf(i)' = RowOf(i)
  BY <1>1 DEF RowOf, itemVars
<1>4. SteadyVisible' /\ ShownToCursor'
  BY <1>1, <1>3 DEF InvF, FeedInv, SteadyVisible, ShownToCursor, itemVars, clientVars
<1>5. PageToNext'
  BY <1>1, <1>2, <1>3 DEF InvF, FeedInv, PageToNext, clientVars
<1>6. HandlerOK'
  BY <1>1 DEF InvF, FeedInv, HandlerOK, clientVars, Building
<1> QED
  BY <1>2, <1>4, <1>5, <1>6 DEF FeedInv

LEMMA DeliverInv == ASSUME InvF, Deliver PROVE FeedInv'
<1>1. /\ Building /\ rest = <<>> /\ phase = "paging"
      /\ shown' = shown \cup IdsOf(out) /\ cursor' = next
      /\ phase' = IF next = NoCursor THEN "ended" ELSE "paging"
      /\ UNCHANGED <<itemVars, wanted, steady>>
      /\ pc' = "idle" /\ rest' = <<>> /\ out' = <<>>
  BY DEF Deliver, Return, Building, InvF, FeedInv, HandlerOK
<1>2. \A i : InPage(i) <=> i \in IdsOf(out)
  BY <1>1 DEF InPage, IdsOf
<1>3. \A i \in steady : IF next = NoCursor
                           THEN i \in shown'
                           ELSE /\ i \in shown' <=> ~Older(RowOf(i), next)
                                /\ LangOf[i] = next.lang
  BY <1>1, <1>2 DEF InvF, FeedInv, PageToNext
<1>4. \A i : RowOf(i)' = RowOf(i)
  BY <1>1 DEF RowOf, itemVars
<1>5. SteadyVisible'
  BY <1>1, <1>3 DEF InvF, FeedInv, SteadyVisible, itemVars
<1>6. ShownToCursor'
  BY <1>1, <1>3, <1>4 DEF ShownToCursor
<1>7. PageToNext' /\ PageOnce' /\ HandlerOK'
  BY <1>1 DEF PageToNext, PageOnce, HandlerOK, Building
<1> QED
  BY <1>5, <1>6, <1>7 DEF FeedInv

\* A request that ends without an answer leaves the client where it was.
LEMMA ReturnInv ==
  ASSUME InvF, Return, UNCHANGED <<itemVars, clientVars, steady>>
  PROVE  FeedInv'
<1>1. \A i : RowOf(i)' = RowOf(i)
  BY DEF RowOf, itemVars
<1>2. SteadyVisible' /\ ShownToCursor'
  BY <1>1 DEF InvF, FeedInv, SteadyVisible, ShownToCursor, itemVars, clientVars
<1>3. PageToNext' /\ PageOnce' /\ HandlerOK'
  BY DEF Return, PageToNext, PageOnce, HandlerOK, Building
<1> QED
  BY <1>2, <1>3 DEF FeedInv

LEMMA InvStep == ASSUME InvF, [Next]_vars PROVE InvF'
<1>1. TypeOK'
  BY TypeStep DEF InvF, FeedInv
<1> SUFFICES FeedInv'
  BY <1>1 DEF InvF
<1>2. CASE Tick
  <2>1. now' >= now /\ now' \in Nat
    BY <1>2 DEF Tick, InvF, TypeOK
  <2>2. SteadyVisible'
    <3>1. \A i \in steady : publishAt[i] \in Nat /\ publishAt[i] <= now'
      BY <2>1 DEF InvF, FeedInv, SteadyVisible, TypeOK
    <3> QED
      BY <1>2, <3>1 DEF Tick, clientVars, InvF, FeedInv, SteadyVisible
  <2> QED
    BY <1>2, <2>2, SameClient DEF Tick, handlerVars, InvF
<1>3. ASSUME NEW i \in Items, Edit(i) PROVE FeedInv'
  BY <1>3, EditInv
<1>4. CASE Open
  <2>1. /\ steady' = {} /\ shown' = {} /\ cursor' = NoCursor /\ phase' = "paging"
        /\ pc = "idle" /\ UNCHANGED handlerVars
    BY <1>4 DEF Open
  <2>2. PageToNext' /\ PageOnce' /\ HandlerOK'
    BY <2>1 DEF PageToNext, handlerVars, InvF, FeedInv, PageOnce, HandlerOK, Building
  <2> QED
    BY <2>1, <2>2 DEF FeedInv, SteadyVisible, ShownToCursor
<1>5. CASE Ask
  <2>1. /\ phase = "paging" /\ pc = "idle" /\ pc' = "query" /\ limit' \in Limits
        /\ first' = (cursor = NoCursor)
        /\ UNCHANGED <<itemVars, clientVars, steady, today, rest, out, next>>
    BY <1>5 DEF Ask
  <2>2. \A i : RowOf(i)' = RowOf(i)
    BY <2>1 DEF RowOf, itemVars
  <2>3. SteadyVisible' /\ ShownToCursor'
    BY <2>1, <2>2 DEF InvF, FeedInv, SteadyVisible, ShownToCursor, itemVars, clientVars
  <2>4. PageToNext' /\ PageOnce' /\ HandlerOK'
    BY <2>1 DEF PageToNext, InvF, FeedInv, PageOnce, HandlerOK, Building, clientVars
  <2> QED
    BY <2>3, <2>4 DEF FeedInv
<1>6. CASE Query
  <2>1. PICK s \in Answers(Matching(AskedLang, wanted.kinds, cursor), limit + 1) :
          IF AsksAgain(s)
            THEN /\ pc' = "fallback"
                 /\ UNCHANGED <<itemVars, clientVars, steady, limit, first, today, rest, out, next>>
            ELSE Build(s, AskedLang)
    BY <1>6 DEF Query
  <2>2. CASE AsksAgain(s)
    <3>1. /\ first /\ pc = "query" /\ pc' = "fallback"
          /\ UNCHANGED <<itemVars, clientVars, steady, limit, first, today, rest, out, next>>
      BY <1>6, <2>1, <2>2 DEF Query, AsksAgain
    <3>2. \A i : RowOf(i)' = RowOf(i)
      BY <3>1 DEF RowOf, itemVars
    <3>3. SteadyVisible' /\ ShownToCursor'
      BY <3>1, <3>2 DEF InvF, FeedInv, SteadyVisible, ShownToCursor, itemVars, clientVars
    <3>4. PageToNext' /\ PageOnce' /\ HandlerOK'
      BY <3>1 DEF PageToNext, InvF, FeedInv, PageOnce, HandlerOK, Building, clientVars
    <3> QED
      BY <3>3, <3>4 DEF FeedInv
  <2>3. CASE ~AsksAgain(s)
    <3>1. AskedLang \in Langs /\ (cursor # NoCursor => AskedLang = cursor.lang)
      BY DEF AskedLang, InvF, TypeOK, Wanted, Cursor
    <3>2. pc \in {"query", "fallback"}
      BY <1>6 DEF Query
    <3> QED
      BY <2>1, <2>3, <3>1, <3>2, BuildInv
  <2> QED
    BY <2>2, <2>3
<1>7. CASE QueryFallback
  <2>1. pc = "fallback" /\ cursor = NoCursor
    BY <1>7 DEF QueryFallback, InvF, FeedInv, HandlerOK
  <2>2. PICK s \in Answers(Matching(Fallback, wanted.kinds, NoCursor), limit + 1) :
          Build(s, Fallback)
    BY <1>7 DEF QueryFallback
  <2>3. Fallback \in Langs
    BY FeedAssumption DEF FeedAssumption
  <2> QED
    BY <2>1, <2>2, <2>3, BuildInv
<1>8. CASE TakeVerse \/ TakeTodaysSchool \/ Interleave
  BY <1>8, ArrangeInv
<1>9. CASE Fail \/ Lose
  BY <1>9, ReturnInv DEF Fail, Lose
<1>10. CASE Deliver
  BY <1>10, DeliverInv
<1>11. CASE UNCHANGED vars
  <2>1. SteadyVisible'
    BY <1>11 DEF vars, InvF, FeedInv, SteadyVisible
  <2> QED
    BY <1>11, <2>1, SameClient DEF vars, clientVars, InvF
<1> QED
  BY <1>2, <1>3, <1>4, <1>5, <1>6, <1>7, <1>8, <1>9, <1>10, <1>11 DEF Next, Handle

\* Every variable of Feed keeps its type, and the client and the page being built stay
\* where the cursor says.
THEOREM FeedInvariant == Spec => [](TypeOK /\ FeedInv)
<1>1. Init => InvF
  BY InitType, InitInv DEF InvF
<1>2. InvF /\ [Next]_vars => InvF'
  BY InvStep
<1> QED
  BY <1>1, <1>2, PTL DEF Spec, InvF

\* Whatever editors, the clock, failures and lost answers do between two pages, an item
\* they leave alone is on exactly one of the pages of a feed, once.
THEOREM EachSteadyItemOnce == Spec => []SteadyOnce
<1>1. InvF => SteadyOnce
  <2> SUFFICES ASSUME InvF PROVE SteadyOnce
    OBVIOUS
  <2>1. /\ \A j, k \in DOMAIN rest : rest[j].id = rest[k].id => j = k
        /\ \A j, k \in DOMAIN out : out[j].id = out[k].id => j = k
        /\ IdsOf(rest) \cap IdsOf(out) = {}
    BY DEF InvF, FeedInv, PageOnce, IdsOf
  <2>2. shown \cap steady \cap (IdsOf(rest) \cup IdsOf(out)) = {}
    <3>1. CASE Building
      BY <3>1 DEF InvF, FeedInv, PageToNext, InPage
    <3>2. CASE ~Building
      BY <3>2 DEF InvF, FeedInv, HandlerOK, IdsOf
    <3> QED
      BY <3>1, <3>2
  <2>3. phase = "ended" => steady \subseteq shown
    BY DEF InvF, FeedInv, ShownToCursor
  <2> QED
    BY <2>1, <2>2, <2>3 DEF SteadyOnce
<1> QED
  BY <1>1, FeedInvariant, PTL DEF InvF

-----------------------------------------------------------------------------
(* The kinds on a page.                                                    *)

InvK == AnchorsOK /\ KindsInterleaved

\* A row taken from rest is followed by its kind only if there is no other kind left.
LEMMA TakeKinds ==
  ASSUME TypeOK, KindsInterleaved, NEW k \in DOMAIN rest, Take(k), out # <<>>,
         \/ rest[k] \in OtherKind
         \/ \A j \in DOMAIN rest : rest[j] \notin OtherKind
  PROVE  KindsInterleaved'
<1>1. /\ Len(rest) \in Nat /\ Len(out) \in Nat /\ Len(out) > 0 /\ k \in 1..Len(rest)
      /\ DOMAIN rest = 1..Len(rest) /\ DOMAIN rest' = 1..(Len(rest) - 1)
      /\ Len(out') = Len(out) + 1
      /\ \A j \in 1..Len(rest) : rest[j] \in Row
  BY TakeTyped DEF TypeOK
<1>2. /\ \A j \in 1..(Len(rest) - 1) : \E m \in 1..Len(rest) : rest'[j] = rest[m]
      /\ \A j \in 1..Len(out) : out'[j] = out[j]
      /\ out'[Len(out) + 1] = rest[k]
  <2>1. /\ \A j \in 1..(Len(rest) - 1) : rest'[j] = IF j < k THEN rest[j] ELSE rest[j + 1]
        /\ \A j \in 1..Len(out) : out'[j] = out[j]
        /\ out'[Len(out) + 1] = rest[k]
    BY <1>1, TakeTyped
  <2>2. \A j \in 1..(Len(rest) - 1) : j \in 1..Len(rest) /\ j + 1 \in 1..Len(rest)
    BY <1>1
  <2> QED
    BY <2>1, <2>2
<1> SUFFICES ASSUME NEW p \in 2..Len(out'), KindOf[out'[p].id] = KindOf[out'[p - 1].id]
             PROVE  /\ \A j \in p..Len(out') : KindOf[out'[j].id] = KindOf[out'[p].id]
                    /\ \A j \in DOMAIN rest' : KindOf[rest'[j].id] = KindOf[out'[p].id]
  BY DEF KindsInterleaved
<1>3. CASE p = Len(out) + 1
  <2>1. out'[p] = rest[k] /\ out'[p - 1] = out[Len(out)]
    BY <1>1, <1>2, <1>3
  <2>2. rest[k] \notin OtherKind
    BY <2>1, <1>1 DEF OtherKind
  <2>3. \A j \in 1..Len(rest) : KindOf[rest[j].id] = KindOf[out[Len(out)].id]
    BY <1>1, <2>2 DEF OtherKind
  <2>4. \A j \in 1..(Len(rest) - 1) : KindOf[rest'[j].id] = KindOf[out'[p].id]
    BY <1>1, <1>2, <2>1, <2>3
  <2>5. \A j \in p..Len(out') : j = p
    BY <1>1, <1>3
  <2> QED
    BY <1>1, <2>4, <2>5
<1>4. CASE p # Len(out) + 1
  <2>1. p \in 2..Len(out) /\ out'[p] = out[p] /\ out'[p - 1] = out[p - 1]
    <3>1. p \in 2..Len(out) /\ p \in 1..Len(out) /\ p - 1 \in 1..Len(out)
      BY <1>1, <1>4
    <3> QED
      BY <1>2, <3>1
  <2>2. /\ \A j \in p..Len(out) : KindOf[out[j].id] = KindOf[out[p].id]
        /\ \A j \in 1..Len(rest) : KindOf[rest[j].id] = KindOf[out[p].id]
    BY <1>1, <2>1 DEF KindsInterleaved
  <2>3. \A j \in p..Len(out') : \/ j \in p..Len(out) /\ out'[j] = out[j]
                                \/ out'[j] = rest[k]
    BY <1>1, <1>2, <2>1
  <2>4. \A j \in p..Len(out') : KindOf[out'[j].id] = KindOf[out[p].id]
    BY <1>1, <2>2, <2>3
  <2>5. ASSUME NEW j \in 1..(Len(rest) - 1) PROVE KindOf[rest'[j].id] = KindOf[out[p].id]
    <3>1. PICK m \in 1..Len(rest) : rest'[j] = rest[m]
      BY <1>2
    <3>2. KindOf[rest[m].id] = KindOf[out[p].id]
      BY <2>2
    <3> QED
      BY <3>1, <3>2
  <2> QED
    BY <1>1, <2>1, <2>4, <2>5
<1> QED
  BY <1>3, <1>4

LEMMA KindsStep == ASSUME InvF, InvF', InvK, [Next]_vars PROVE InvK'
<1> USE DEF InvF
<1>1. CASE out' = <<>> /\ pc' # "sabbath"
  BY <1>1 DEF InvK, AnchorsOK, KindsInterleaved
<1>2. CASE UNCHANGED <<pc, rest, out>>
  BY <1>2 DEF InvK, AnchorsOK, KindsInterleaved
<1>3. CASE TakeVerse
  <2>1. pc' = "sabbath" /\ out = <<>> /\ TakeFirstOf(Verses)
    BY <1>3 DEF TakeVerse, InvK, AnchorsOK
  <2>2. ASSUME NEW k \in DOMAIN rest, IsFirstOf(k, Verses), Take(k)
        PROVE  Len(out') = 1 /\ KindOf[out'[1].id] = Verse
    <3>1. Len(out') = Len(out) + 1 /\ out'[Len(out) + 1] = rest[k] /\ Len(out) = 0
      BY <2>1, <2>2, TakeTyped
    <3> QED
      BY <2>2, <3>1 DEF IsFirstOf, Verses
  <2>3. \/ Len(out') = 1 /\ KindOf[out'[1].id] = Verse
        \/ out' = <<>>
    BY <2>1, <2>2 DEF TakeFirstOf
  <2>4. out' \in Seq(Row) /\ Len(out') \in Nat /\ DOMAIN out' = 1..Len(out')
    BY DEF TypeOK
  <2>5. AnchorsOK'
    <3>1. CASE Len(out') = 1 /\ KindOf[out'[1].id] = Verse
      <4>1. \A k \in DOMAIN out' : k = 1
        BY <2>4, <3>1
      <4> QED
        BY <2>1, <3>1, <4>1 DEF AnchorsOK
    <3>2. CASE out' = <<>>
      BY <2>1, <3>2 DEF AnchorsOK
    <3> QED
      BY <2>3, <3>1, <3>2
  <2>6. \A k : k \notin 2..Len(out')
    <3>1. Len(out') <= 1
      BY <2>3, <2>4
    <3> QED
      BY <2>4, <3>1
  <2> QED
    BY <2>5, <2>6 DEF InvK, KindsInterleaved
<1>4. CASE TakeTodaysSchool
  <2>1. /\ pc = "sabbath" /\ pc' = "loop" /\ Len(out) <= 1 /\ out \in Seq(Row)
        /\ \A k \in DOMAIN out : KindOf[out[k].id] = Verse
        /\ TakeFirstOf(TodaysSchool)
    BY <1>4 DEF TakeTodaysSchool, InvK, AnchorsOK, TypeOK
  <2>2. ASSUME NEW k \in DOMAIN rest, IsFirstOf(k, TodaysSchool), Take(k)
        PROVE  KindsInterleaved'
    <3>1. /\ Len(out') = Len(out) + 1 /\ out'[Len(out) + 1] = rest[k]
          /\ \A j \in 1..Len(out) : out'[j] = out[j]
      BY <2>2, TakeTyped
    <3>2. KindOf[rest[k].id] = SabbathSchool
      BY <2>2 DEF IsFirstOf, TodaysSchool
    <3>3. \A p \in 2..Len(out') : KindOf[out'[p].id] # KindOf[out'[p - 1].id]
      <4> SUFFICES ASSUME NEW p \in 2..Len(out')
                   PROVE  KindOf[out'[p].id] # KindOf[out'[p - 1].id]
        OBVIOUS
      <4>1. p = 2 /\ Len(out) = 1
        <5>1. Len(out) \in Nat /\ Len(out) <= 1 /\ Len(out') = Len(out) + 1
          BY <2>1, <3>1
        <5>2. p \in Int /\ 2 <= p /\ p <= Len(out')
          BY <5>1
        <5> QED
          BY <5>1, <5>2
      <4> QED
        BY <2>1, <3>1, <3>2, <4>1, FeedAssumption DEF FeedAssumption
    <3> QED
      BY <3>3 DEF KindsInterleaved
  <2>3. ASSUME UNCHANGED <<rest, out>> PROVE KindsInterleaved'
    BY <2>3 DEF InvK, KindsInterleaved
  <2> QED
    BY <2>1, <2>2, <2>3 DEF TakeFirstOf, InvK, AnchorsOK
<1>5. CASE Interleave
  <2>1. pc' = "loop" /\ AnchorsOK'
    BY <1>5 DEF Interleave, AnchorsOK
  <2>2. 1 \in DOMAIN rest
    BY <1>5 DEF Interleave, TypeOK
  <2>3. \E k \in DOMAIN rest : /\ Take(k)
                              /\ \/ rest[k] \in OtherKind
                                 \/ \A j \in DOMAIN rest : rest[j] \notin OtherKind
    BY <1>5, <2>2 DEF Interleave, IsFirstOf
  <2>4. CASE out # <<>>
    BY <2>1, <2>3, <2>4, TakeKinds DEF InvK
  <2>5. CASE out = <<>>
    <3>1. Len(out') = 1
      BY <2>3, <2>5, TakeTyped
    <3> QED
      BY <2>1, <3>1 DEF InvK, KindsInterleaved
  <2> QED
    BY <2>4, <2>5
<1>6. CASE Query \/ QueryFallback \/ Fail \/ Deliver \/ Lose
  <2>1. pc' # "sabbath" /\ pc \in {"query", "fallback", "loop"}
    BY <1>6 DEF Query, QueryFallback, Fail, Deliver, Lose, Build, Return
  <2>2. out' = <<>>
    <3>1. pc \in {"query", "fallback"} => out = <<>>
      BY DEF FeedInv, HandlerOK, Building
    <3> QED
      BY <1>6, <3>1 DEF Query, QueryFallback, Fail, Deliver, Lose, Build, Return
  <2> QED
    BY <1>1, <2>1, <2>2
<1>7. CASE Ask
  <2>1. out' = <<>> /\ pc' = "query"
    BY <1>7 DEF Ask, FeedInv, HandlerOK, Building
  <2> QED
    BY <1>1, <2>1
<1>8. CASE Tick \/ (\E i \in Items : Edit(i)) \/ Open \/ UNCHANGED vars
  BY <1>2, <1>8 DEF Tick, Edit, Open, vars, handlerVars
<1> QED
  BY <1>3, <1>4, <1>5, <1>6, <1>7, <1>8 DEF Next, Handle

\* On every page of the feed, and for any number of kinds, two neighbours are of one
\* kind only where everything that follows is.
THEOREM KindsAlternate == Spec => []KindsInterleaved
<1>1. Init => InvK
  BY DEF Init, InvK, AnchorsOK, KindsInterleaved
<1>2. InvF /\ InvF' /\ InvK /\ [Next]_vars => InvK'
  BY KindsStep
<1>3. Spec => []InvF
  BY FeedInvariant, PTL DEF InvF
<1>4. InvK => KindsInterleaved
  BY DEF InvK
<1> QED
  BY <1>1, <1>2, <1>3, <1>4, PTL DEF Spec

-----------------------------------------------------------------------------
(* The order within a kind.                                                *)

InvO == RestInOrder /\ KindsInOrder

LEMMA DayParts ==
  ASSUME NEW t \in Nat
  PROVE  /\ Day(t) \in Nat /\ t % DayLength \in 0..(DayLength - 1)
         /\ t = DayLength * Day(t) + (t % DayLength)
<1>1. DayLength \in Nat \ {0}
  BY FeedAssumption DEF FeedAssumption
<1> QED
  BY <1>1, Z3 DEF Day

LEMMA QuotientsFollow ==
  ASSUME NEW d \in Nat \ {0}, NEW q \in Nat, NEW r \in Nat,
         NEW x \in 0..(d - 1), NEW y \in 0..(d - 1), d * q + x <= d * r + y
  PROVE  q <= r
<1> SUFFICES ASSUME q >= r + 1 PROVE FALSE
  OBVIOUS
<1>1. d * q >= d * (r + 1)
  OBVIOUS
<1>2. d * (r + 1) = d * r + d
  OBVIOUS
<1> QED
  BY <1>1, <1>2

\* Days follow the clock.
LEMMA DaysGoOn ==
  ASSUME NEW t \in Nat, NEW u \in Nat, t <= u
  PROVE  Day(t) <= Day(u)
<1>1. DayLength \in Nat \ {0}
  BY FeedAssumption DEF FeedAssumption
<1>3. /\ Day(t) \in Nat /\ t % DayLength \in 0..(DayLength - 1)
      /\ t = DayLength * Day(t) + (t % DayLength)
  BY DayParts
<1>4. /\ Day(u) \in Nat /\ u % DayLength \in 0..(DayLength - 1)
      /\ u = DayLength * Day(u) + (u % DayLength)
  BY DayParts
<1> DEFINE D == DayLength
           q == Day(t)
           r == Day(u)
           x == t % DayLength
           y == u % DayLength
<1>5. D * q + x <= D * r + y
  BY <1>3, <1>4
<1>6. D \in Nat \ {0} /\ q \in Nat /\ r \in Nat /\ x \in 0..(D - 1) /\ y \in 0..(D - 1)
  BY <1>1, <1>3, <1>4
<1> HIDE DEF D, q, r, x, y
<1>7. q <= r
  BY <1>5, <1>6, QuotientsFollow
<1> QED
  BY <1>7 DEF q, r

\* A row may be taken when it is the first of its kind that is left.
LEMMA TakeInOrder ==
  ASSUME TypeOK, RestInOrder, KindsInOrder, NEW k \in DOMAIN rest, Take(k),
         \A j \in 1..(k - 1) : KindOf[rest[j].id] # KindOf[rest[k].id]
  PROVE  /\ KindsInOrder'
         /\ \A i, j \in DOMAIN rest' : i < j => Older(rest'[j], rest'[i])
         /\ \A j \in DOMAIN rest' : \E m \in DOMAIN rest : rest'[j] = rest[m]
<1>1. /\ Len(rest) \in Nat /\ Len(out) \in Nat /\ k \in 1..Len(rest)
      /\ DOMAIN rest = 1..Len(rest) /\ DOMAIN out = 1..Len(out)
      /\ DOMAIN rest' = 1..(Len(rest) - 1) /\ DOMAIN out' = 1..(Len(out) + 1)
  BY TakeTyped DEF TypeOK
<1>2. /\ \A j \in 1..(Len(rest) - 1) : rest'[j] = IF j < k THEN rest[j] ELSE rest[j + 1]
      /\ \A j \in 1..Len(out) : out'[j] = out[j]
      /\ out'[Len(out) + 1] = rest[k]
  BY <1>1, TakeTyped
<1> DEFINE at(j) == IF j < k THEN j ELSE j + 1
<1>3. \A j \in 1..(Len(rest) - 1) : at(j) \in 1..Len(rest) /\ at(j) # k /\ rest'[j] = rest[at(j)]
  BY <1>1, <1>2
<1>4. \A i, j \in 1..(Len(rest) - 1) : i < j => at(i) < at(j)
  BY <1>1
<1>5. \A j \in 1..(Len(out) + 1) : \/ j \in 1..Len(out) /\ out'[j] = out[j]
                                   \/ j = Len(out) + 1 /\ out'[j] = rest[k]
  BY <1>1, <1>2
<1> HIDE DEF at
<1>6. \A i, j \in DOMAIN rest' : i < j => Older(rest'[j], rest'[i])
  BY <1>1, <1>3, <1>4 DEF RestInOrder
<1>7. \A i, j \in DOMAIN out' :
        i < j /\ KindOf[out'[i].id] = KindOf[out'[j].id] => Older(out'[j], out'[i])
  <2> SUFFICES ASSUME NEW i \in 1..(Len(out) + 1), NEW j \in 1..(Len(out) + 1), i < j,
                      KindOf[out'[i].id] = KindOf[out'[j].id]
               PROVE  Older(out'[j], out'[i])
    BY <1>1
  <2>1. i \in 1..Len(out) /\ out'[i] = out[i]
    BY <1>1, <1>2
  <2>2. CASE j \in 1..Len(out) /\ out'[j] = out[j]
    BY <1>1, <2>1, <2>2 DEF KindsInOrder
  <2>3. CASE out'[j] = rest[k]
    BY <1>1, <2>1, <2>3 DEF KindsInOrder
  <2> QED
    BY <1>5, <2>2, <2>3
<1>8. \A i \in DOMAIN out', j \in DOMAIN rest' :
        KindOf[out'[i].id] = KindOf[rest'[j].id] => Older(rest'[j], out'[i])
  <2> SUFFICES ASSUME NEW i \in 1..(Len(out) + 1), NEW j \in 1..(Len(rest) - 1),
                      KindOf[out'[i].id] = KindOf[rest'[j].id]
               PROVE  Older(rest'[j], out'[i])
    BY <1>1
  <2>1. at(j) \in 1..Len(rest) /\ at(j) # k /\ rest'[j] = rest[at(j)]
    BY <1>3
  <2>2. CASE i \in 1..Len(out) /\ out'[i] = out[i]
    BY <1>1, <2>1, <2>2 DEF KindsInOrder
  <2>3. CASE out'[i] = rest[k]
    <3>1. at(j) \notin 1..(k - 1)
      BY <2>1, <2>3
    <3>2. k < at(j)
      BY <1>1, <2>1, <3>1
    <3> QED
      BY <1>1, <2>1, <2>3, <3>2 DEF RestInOrder
  <2> QED
    BY <1>5, <2>2, <2>3
<1> QED
  BY <1>1, <1>3, <1>6, <1>7, <1>8 DEF KindsInOrder

\* Each of the three ways to take a row takes the first of its kind.
LEMMA TakesFirstOfKind ==
  ASSUME TypeOK, RestInOrder, TakeVerse \/ TakeTodaysSchool \/ Interleave
  PROVE  \/ UNCHANGED <<rest, out>>
         \/ \E k \in DOMAIN rest :
              Take(k) /\ \A j \in 1..(k - 1) : KindOf[rest[j].id] # KindOf[rest[k].id]
<1>1. /\ rest \in Seq(Row) /\ DOMAIN rest = 1..Len(rest) /\ Len(rest) \in Nat
      /\ \A j \in DOMAIN rest : rest[j] \in Row
  BY DEF TypeOK
<1>2. \A k \in DOMAIN rest : \A j \in 1..(k - 1) : j \in DOMAIN rest /\ j < k
  BY <1>1
<1>3. CASE TakeVerse
  <2>1. ASSUME NEW k \in DOMAIN rest, IsFirstOf(k, Verses), NEW j \in 1..(k - 1)
        PROVE  KindOf[rest[j].id] # KindOf[rest[k].id]
    BY <1>1, <1>2, <2>1 DEF IsFirstOf, Verses
  <2> QED
    BY <1>3, <2>1 DEF TakeVerse, TakeFirstOf
<1>4. CASE TakeTodaysSchool
  <2>1. ASSUME NEW k \in DOMAIN rest, IsFirstOf(k, TodaysSchool), NEW j \in 1..(k - 1)
        PROVE  KindOf[rest[j].id] # KindOf[rest[k].id]
    <3>1. /\ KindOf[rest[k].id] = SabbathSchool /\ Day(rest[k].at) = today
          /\ ~(KindOf[rest[j].id] = SabbathSchool /\ Day(rest[j].at) = today)
      BY <1>1, <1>2, <2>1 DEF IsFirstOf, TodaysSchool
    <3>2. Older(rest[k], rest[j]) /\ Day(rest[j].at) <= today
      BY <1>2, <1>4 DEF RestInOrder, TakeTodaysSchool
    <3>3. rest[j].at \in Nat /\ rest[k].at \in Nat
      BY <1>1, <1>2 DEF Row
    <3>4. Day(rest[k].at) <= Day(rest[j].at)
      BY <3>2, <3>3, DaysGoOn DEF Older
    <3>5. Day(rest[j].at) \in Nat /\ Day(rest[k].at) \in Nat
      BY <3>3, DayParts
    <3> QED
      BY <3>1, <3>2, <3>4, <3>5
  <2> QED
    BY <1>4, <2>1 DEF TakeTodaysSchool, TakeFirstOf
<1>5. CASE Interleave
  <2>1. ASSUME NEW k \in DOMAIN rest, IsFirstOf(k, OtherKind), NEW j \in 1..(k - 1)
        PROVE  KindOf[rest[j].id] # KindOf[rest[k].id]
    BY <1>1, <1>2, <2>1 DEF IsFirstOf, OtherKind
  <2>2. 1 \in DOMAIN rest /\ \A j \in 1..(1 - 1) : FALSE
    BY <1>1, <1>5 DEF Interleave
  <2> QED
    BY <1>5, <2>1, <2>2 DEF Interleave
<1> QED
  BY <1>3, <1>4, <1>5

LEMMA BuildInOrder ==
  ASSUME InvF, limit \in Limits, NEW lang, NEW cur,
         NEW s \in Answers(Matching(lang, wanted.kinds, cur), limit + 1), Build(s, lang)
  PROVE  InvO'
<1> DEFINE rows == Matching(lang, wanted.kinds, cur)
<1>1. limit \in Nat /\ limit > 0
  BY FeedAssumption DEF FeedAssumption
<1>2. /\ s \in Seq(Row) /\ Len(s) \in Nat /\ DOMAIN s = 1..Len(s)
      /\ \A k \in 1..Len(s) : s[k] \in rows
      /\ IsAnswer(s, rows, limit + 1)
  BY <1>1, AnswerTyped DEF InvF
<1>3. \A k \in 1..Len(s) : s[k].at <= now
  <2> SUFFICES ASSUME NEW k \in 1..Len(s) PROVE s[k].at <= now
    OBVIOUS
  <2>1. s[k].id \in Visible(lang, wanted.kinds) /\ s[k] = RowOf(s[k].id)
    BY <1>2, MatchingIs DEF InvF
  <2>2. s[k].at = publishAt[s[k].id]
    BY <2>1 DEF RowOf
  <2> QED
    BY <2>1, <2>2 DEF Visible
<1>4. \A j, k \in 1..Len(s) : j < k => Older(s[k], s[j])
  BY <1>2 DEF IsAnswer
<1>5. /\ out' = <<>> /\ now' = now /\ pc' # "sabbath"
      /\ \E n \in 0..Len(s) : DOMAIN rest' = 1..n /\ \A k \in 1..n : rest'[k] = s[k]
  <2>1. CASE Len(s) > limit
    <3>1. rest' = SubSeq(s, 1, limit) /\ limit \in 0..Len(s)
      BY <1>1, <1>2, <2>1 DEF Build, PageOf, NextCursor, CursorAt
    <3>2. DOMAIN rest' = 1..limit /\ \A k \in 1..limit : rest'[k] = s[k]
      BY <1>1, <1>2, <3>1
    <3> QED
      BY <3>1, <3>2 DEF Build, itemVars
  <2>2. CASE ~(Len(s) > limit)
    <3>1. /\ rest' = s /\ out' = <<>> /\ now' = now /\ pc' # "sabbath"
      BY <2>2 DEF Build, PageOf, NextCursor, CursorAt, itemVars
    <3>2. Len(s) \in 0..Len(s) /\ DOMAIN rest' = 1..Len(s) /\ \A k \in 1..Len(s) : rest'[k] = s[k]
      BY <1>2, <3>1
    <3> QED
      BY <3>1, <3>2
  <2> QED
    BY <2>1, <2>2
<1>6. PICK n \in 0..Len(s) : DOMAIN rest' = 1..n /\ \A k \in 1..n : rest'[k] = s[k]
  BY <1>5
<1>7. \A k \in 1..n : k \in 1..Len(s)
  BY <1>2
<1>8. RestInOrder'
  BY <1>3, <1>4, <1>5, <1>6, <1>7 DEF RestInOrder
<1>9. KindsInOrder'
  BY <1>5 DEF KindsInOrder
<1> QED
  BY <1>8, <1>9 DEF InvO

LEMMA OrderStep == ASSUME InvF, InvO, [Next]_vars PROVE InvO'
<1> USE DEF InvF
<1>1. ASSUME NEW s, NEW lang, Build(s, lang), pc \in {"query", "fallback"},
             NEW cur, s \in Answers(Matching(lang, wanted.kinds, cur), limit + 1)
      PROVE  InvO'
  BY <1>1, BuildInOrder DEF FeedInv, HandlerOK
<1>2. CASE /\ rest' = <<>> /\ out' = <<>>
  BY <1>2 DEF InvO, RestInOrder, KindsInOrder
<1>3. CASE UNCHANGED <<pc, rest, out, today>> /\ now' \in Nat /\ now <= now'
  <2>1. \A k \in DOMAIN rest : rest[k].at <= now'
    <3>1. \A k \in DOMAIN rest : rest[k].at \in Nat /\ rest[k].at <= now /\ now \in Nat
      <4>1. \A k \in DOMAIN rest : rest[k] \in Row
        BY DEF TypeOK
      <4> QED
        BY <4>1 DEF InvO, RestInOrder, TypeOK, Row
    <3> QED
      BY <1>3, <3>1
  <2>2. \A t : Day(t)' = Day(t)
    BY DEF Day
  <2> QED
    BY <1>3, <2>1, <2>2 DEF InvO, RestInOrder, KindsInOrder
<1>4. CASE Tick \/ (\E i \in Items : Edit(i)) \/ Open \/ UNCHANGED vars
  BY <1>3, <1>4 DEF Tick, Edit, Open, vars, itemVars, handlerVars, TypeOK
<1>5. CASE Ask \/ Fail \/ Deliver \/ Lose
  BY <1>2, <1>5 DEF Ask, Fail, Deliver, Lose, Return, FeedInv, HandlerOK, Building
<1>6. CASE Query
  <2>1. PICK s \in Answers(Matching(AskedLang, wanted.kinds, cursor), limit + 1) :
          IF AsksAgain(s)
            THEN /\ pc' = "fallback"
                 /\ UNCHANGED <<itemVars, clientVars, steady, limit, first, today, rest, out, next>>
            ELSE Build(s, AskedLang)
    BY <1>6 DEF Query
  <2>2. CASE AsksAgain(s)
    <3>1. rest' = <<>> /\ out' = <<>>
      BY <1>6, <2>1, <2>2 DEF Query, FeedInv, HandlerOK, Building
    <3> QED
      BY <1>2, <3>1
  <2> QED
    BY <1>1, <1>6, <2>1, <2>2 DEF Query
<1>7. CASE QueryFallback
  BY <1>1, <1>7 DEF QueryFallback
<1>8. CASE TakeVerse \/ TakeTodaysSchool \/ Interleave
  <2>1. /\ now' = now /\ now \in Nat
        /\ pc' = "sabbath" => TakeVerse /\ today' = Day(now)
    BY <1>8 DEF TakeVerse, TakeTodaysSchool, Interleave, itemVars, TypeOK
  <2>2. /\ KindsInOrder'
        /\ \A i, j \in DOMAIN rest' : i < j => Older(rest'[j], rest'[i])
        /\ \A j \in DOMAIN rest' : \E m \in DOMAIN rest : rest'[j] = rest[m]
    <3>1. CASE UNCHANGED <<rest, out>>
      BY <3>1 DEF InvO, RestInOrder, KindsInOrder
    <3> QED
      BY <1>8, <3>1, TakesFirstOfKind, TakeInOrder DEF InvO
  <2>3. \A j \in DOMAIN rest' : rest'[j].at \in Nat /\ rest'[j].at <= now
    <3>1. \A m \in DOMAIN rest : rest[m].at \in Nat /\ rest[m].at <= now
      <4>1. \A m \in DOMAIN rest : rest[m] \in Row
        BY DEF TypeOK
      <4> QED
        BY <4>1 DEF InvO, RestInOrder, Row
    <3> QED
      BY <2>2, <3>1
  <2>4. pc' = "sabbath" => \A j \in DOMAIN rest' : Day(rest'[j].at) <= today'
    BY <2>1, <2>3, DaysGoOn
  <2>5. \A t : Day(t)' = Day(t)
    BY DEF Day
  <2>6. RestInOrder'
    BY <2>1, <2>2, <2>3, <2>4, <2>5 DEF RestInOrder
  <2> QED
    BY <2>2, <2>6 DEF InvO
<1> QED
  BY <1>4, <1>5, <1>6, <1>7, <1>8 DEF Next, Handle

\* A page stays newest first within each kind, whatever the kinds, the length of a day
\* and the moment "today" is read.
THEOREM EachKindInOrder == Spec => []KindsInOrder
<1>1. Init => InvO
  BY DEF Init, InvO, RestInOrder, KindsInOrder
<1>2. InvF /\ InvO /\ [Next]_vars => InvO'
  BY OrderStep
<1>3. Spec => []InvF
  BY FeedInvariant, PTL DEF InvF
<1>4. InvO => KindsInOrder
  BY DEF InvO
<1> QED
  BY <1>1, <1>2, <1>3, <1>4, PTL DEF Spec
=============================================================================
