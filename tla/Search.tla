------------------------------- MODULE Search -------------------------------
(***************************************************************************)
(* GET /v1/search (internal/server/search.go, db/queries/search.sql) with    *)
(* the reader's endpoints and the imports of module Bible. A search is one    *)
(* statement for each scope, two more for a typed reference. The unit of a    *)
(* text is a rune in snippet and a word here. Case is folded everywhere and   *)
(* left out; accents are folded where the queries have immutable_unaccent,    *)
(* and not in tsv and in snippet.                                           *)
(***************************************************************************)
EXTENDS Bible

CONSTANTS
  SearchAsks,    \* requests [op, q, lang, scope, ref]: ref is what refRe reads in q, or NoRef
  NoRef, AllScopes,
  Paragraphs, BeliefTexts, Hymns, Videos,   \* the rows of the other scopes
  Similar,       \* pairs of texts whose trigram similarity is above 0.3
  Unaccented,    \* words with accents, each with what immutable_unaccent makes of it
  PerGroup,      \* searchPerGroup
  SnippetRunes   \* snippetRunes

(* The words of a text are strings. What a query matches and shows are texts. *)
Words == Seq(STRING)
ASSUME SearchAssumption ==
  /\ \A a \in SearchAsks : a.op = "search" /\ a.q \in Words
  /\ Unaccented \in [DOMAIN Unaccented -> STRING]
  /\ PerGroup \in Nat \ {0} /\ SnippetRunes \in Nat \ {0}
  /\ \A S \in {Paragraphs, BeliefTexts, Hymns, Videos} : IsFiniteSet(S)
  /\ \A r \in Paragraphs \cup BeliefTexts \cup Videos : r.text \in Words
  /\ \A h \in Hymns : h.category \in Words

VARIABLES
  typed, groups,   \* the typed reference's hit, the groups so far
  stood            \* history: the verses, with their language, that were there all the time since a search came

vars == <<bibleVars, typed, groups, stood>>

NoHit == [ref |-> NoRef]
Scopes == <<"bible", "egw", "beliefs", "hymns", "video">>

-----------------------------------------------------------------------------
(* Where q occurs in a text, and the window that snippet cuts at the first. *)
Occurs(q, text) == {i \in 0 .. Len(text) - Len(q) : \A k \in DOMAIN q : text[i + k] = q[k]}

SnippetStartUnclamped(len, at) == Max({0, at - SnippetRunes \div 3})   \* mutant: without the min
SnippetStart(len, at) == Max({0, Min({at - SnippetRunes \div 3, len - SnippetRunes})})
Snippet(text, q) ==
  IF Len(text) <= SnippetRunes THEN [from |-> 0, to |-> Len(text)]
  ELSE LET at    == Occurs(q, text)
           start == IF q = <<>> \/ at = {} THEN 0 ELSE SnippetStart(Len(text), Min(at))
       IN  [from |-> start, to |-> start + SnippetRunes]

Hit(ref, text, q) == [ref |-> ref, text |-> text, snippet |-> Snippet(text, q)]
Whole(text) == [from |-> 0, to |-> Len(text)]

-----------------------------------------------------------------------------
(* The queries. Ranks are any order; LIMIT keeps the first rows of it. *)
Plain(w) == IF w \in DOMAIN Unaccented THEN Unaccented[w] ELSE w
Folded(text) == [i \in DOMAIN text |-> Plain(text[i])]
Includes(text, q) == Occurs(Folded(q), Folded(text)) # {}    \* immutable_unaccent(text) ILIKE
AllWords(text, q) == Range(q) \subseteq Range(text)      \* tsv @@ plainto_tsquery
FullText(text, q) == AllWords(text, q) \/ Includes(text, q)
Resembles(text, q) == <<text, q>> \in Similar

Orders(S) == {f \in [1 .. Cardinality(S) -> S] : \A i, k \in DOMAIN f : f[i] = f[k] => i = k}
Limited(S, n) == {SubSeq(f, 1, Min({n, Len(f)})) : f \in Orders(S)}

SearchVerses(q, l) ==
  Limited({r \in verses : trans[r.code].lang = l /\ FullText(r.verse.text, q)}, PerGroup)
SearchEgw(q, l) ==
  Limited({p \in Paragraphs : p.lang = l /\ FullText(p.text, q)}, PerGroup)
SearchBeliefs(q, l) ==
  Limited({b \in BeliefTexts : /\ b.lang = l /\ b.status = "published"
                               /\ Includes(b.title, q) \/ Includes(b.text, q) \/ Resembles(b.title, q)}, PerGroup)
SearchHymns(q, l) ==    \* the hymn of that number first
  LET found == {h \in Hymns : h.lang = l /\ (<<h.number>> = q \/ Includes(h.title, q) \/ Resembles(h.title, q))}
      exact == {h \in found : <<h.number>> = q}
  IN  {SubSeq(o[1] \o o[2], 1, Min({PerGroup, Cardinality(found)})) : o \in Orders(exact) \X Orders(found \ exact)}
SearchVideos(q, l) ==
  Limited({v \in Videos : /\ v.lang = l /\ v.status = "published" /\ v.visible
                          /\ v.media = "video" /\ v.kind \in {"prophecy", "sermon"}
                          /\ Includes(v.text, q) \/ Includes(v.kicker, q) \/ Includes(v.label, q)}, PerGroup)

(* A name or abbreviation in any language, in the reader's if there is one. *)
FindBookByName(n, l) ==
  LET named == {r \in BookNames : Plain(r.name) = Plain(n) \/ r.abbr = n}
      own   == {r \in named : r.lang = l}
  IN  {r.book : r \in IF own # {} THEN own ELSE named}
GetVerseInLang(l, b, ch, v) ==
  {r \in verses : trans[r.code].lang = l /\ RefOf(r.verse) = <<b, ch, v>>}

-----------------------------------------------------------------------------
(* The handler. *)
SearchInit == typed = NoHit /\ groups = <<>> /\ stood = {}

Goto(p) == pc' = p /\ UNCHANGED <<ask, tr, rows, name, ptr, answer, seen>>
Wants(scope) == ask.scope \in {AllScopes, scope}

(* The limits of q are those of a text that is not empty and of one that is. *)
Accepted(a) == a.q # <<>> /\ a.lang # NoLang
AskSearch ==
  /\ \E a \in SearchAsks :
       /\ pc = "idle"
       /\ ask' = a
       /\ IF Accepted(a) THEN pc' = "reference" /\ answer' = NoAnswer
          ELSE pc' = "answered" /\ answer' = [status |-> 400]
  /\ seen' = [c \in Codes |-> {TextAt(c, verses)}]
  /\ UNCHANGED <<tr, rows, name, ptr, typed, groups>>

(* searchRef: the book's name, then the verse; \v 1 when none was typed. *)
FindBook ==
  /\ pc = "reference"
  /\ IF ~Wants("bible") THEN name' = NoName /\ pc' = "egw"
     ELSE LET found == IF ask.ref = NoRef THEN {} ELSE FindBookByName(ask.ref.name, ask.lang)
          IN  IF found = {} THEN name' = NoName /\ pc' = "bible"
              ELSE name' \in found /\ pc' = "reference verse"
  /\ UNCHANGED <<ask, tr, rows, ptr, answer, seen, typed, groups>>

TypedVerse == IF ask.ref.verse = 0 THEN 1 ELSE ask.ref.verse
FindVerse ==
  /\ pc = "reference verse"
  /\ LET found == GetVerseInLang(ask.lang, name, ask.ref.chapter, TypedVerse)
     IN  IF found = {} THEN UNCHANGED typed
         ELSE \E r \in found : typed' = Hit(RefOf(r.verse), r.verse.text, <<>>)
  /\ pc' = "bible" /\ name' = NoName
  /\ UNCHANGED <<ask, tr, rows, ptr, answer, seen, groups>>

(* Rows that repeat the first hit are passed over: the typed verse, or the    *)
(* same verse in a second translation.                                       *)
RepeatsNever(hits, hit) == FALSE       \* mutant: no test against hits[0]
Repeats(hits, hit) == hits # <<>> /\ hits[1].ref = hit.ref
AddHit(hits, hit) == IF Repeats(hits, hit) THEN hits ELSE Append(hits, hit)
BibleHits(found) ==
  LET hits[i \in 0 .. Len(found)] ==
        IF i = 0 THEN IF typed = NoHit THEN <<>> ELSE <<typed>>
        ELSE AddHit(hits[i - 1], Hit(RefOf(found[i].verse), found[i].verse.text, ask.q))
      all == hits[Len(found)]
  IN  SubSeq(all, 1, Min({PerGroup, Len(all)}))
AddGroup(scope, hits) ==
  groups' = IF hits = <<>> THEN groups ELSE Append(groups, [scope |-> scope, hits |-> hits])

SearchBible ==
  /\ pc = "bible"
  /\ \E found \in SearchVerses(ask.q, ask.lang) : AddGroup("bible", BibleHits(found))
  /\ typed' = NoHit
  /\ Goto("egw")

HitIn(scope, row) ==     \* of a hymn the category is shown, and all of it
  IF scope = "hymns" THEN [ref |-> row.ref, text |-> row.category, snippet |-> Whole(row.category)]
  ELSE Hit(row.ref, row.text, ask.q)
Scope(scope, next, results) ==
  /\ pc = scope
  /\ IF Wants(scope)
     THEN \E found \in results : AddGroup(scope, [i \in DOMAIN found |-> HitIn(scope, found[i])])
     ELSE UNCHANGED groups
  /\ UNCHANGED typed
  /\ Goto(next)

SearchParagraphs == Scope("egw", "beliefs", SearchEgw(ask.q, ask.lang))
SearchDoctrine   == Scope("beliefs", "hymns", SearchBeliefs(ask.q, ask.lang))
SearchHymnals    == Scope("hymns", "video", SearchHymns(ask.q, ask.lang))
SearchFeed       == Scope("video", "groups", SearchVideos(ask.q, ask.lang))

(* A query fails. *)
FailSearch ==
  /\ \/ pc = "reference" /\ Wants("bible") /\ ask.ref # NoRef
     \/ pc = "reference verse"
     \/ pc \in Range(Scopes) /\ Wants(pc)
  /\ Answer([status |-> 500])
  /\ typed' = NoHit /\ groups' = <<>>

ReturnGroups ==
  /\ pc = "groups"
  /\ Answer([status |-> 200, groups |-> groups])
  /\ groups' = <<>> /\ UNCHANGED typed

SearchSteps ==
  \/ AskSearch \/ FindBook \/ FindVerse \/ SearchBible
  \/ SearchParagraphs \/ SearchDoctrine \/ SearchHymnals \/ SearchFeed \/ ReturnGroups
  \/ FailSearch

(* What the history variable stood records at every step. *)
Standing == {<<trans[r.code].lang, RefOf(r.verse)>> : r \in verses}
Remember ==
  stood' = IF pc' = "idle" \/ ask'.op # "search" THEN {}
           ELSE IF pc = "idle" THEN Standing'
           ELSE stood \cap Standing'

Init == IngestInit /\ ReadInit /\ SearchInit

Next ==
  \/ SearchSteps /\ UNCHANGED ingestVars /\ Remember
  \/ Reads /\ UNCHANGED <<ingestVars, typed, groups>> /\ Remember
  \/ IngestNext /\ Witness /\ UNCHANGED <<pc, ask, tr, rows, name, ptr, answer, typed, groups>> /\ Remember

Spec == Init /\ [][Next]_vars

-----------------------------------------------------------------------------
Found == ask.op = "search" /\ answer.status = 200
BibleGroups(gs) == {g \in Range(gs) : g.scope = "bible"}

(* The verses that a typed reference may mean: more than one if a language    *)
(* uses a name for two books.                                               *)
TypedRefs == {<<b, ask.ref.chapter, TypedVerse>> : b \in FindBookByName(ask.ref.name, ask.lang)}
TypedStood ==
  /\ Wants("bible") /\ ask.ref # NoRef /\ TypedRefs # {}
  /\ \A ref \in TypedRefs : <<ask.lang, ref>> \in stood

(* A typed verse that is there stands first, and once, also when the text is  *)
(* replaced between its query and the search, and a group has at most         *)
(* PerGroup hits (search.go:51-77).                                          *)
TypedVerseOnce ==
  Found =>
    /\ TypedStood => \E g \in BibleGroups(answer.groups) : g.hits[1].ref \in TypedRefs
    /\ \A g \in BibleGroups(answer.groups) : \A i \in 2 .. Len(g.hits) : g.hits[i].ref # g.hits[1].ref
    /\ \A g \in Range(answer.groups) : Len(g.hits) <= PerGroup

(* snippet never reaches beyond the text, whose ends it shows when there is    *)
(* room. It shows the first place where q itself begins; of a text that was   *)
(* found by its folded accents or otherwise, the beginning; and a hymn's      *)
(* category is shown whole (search.go:112-114, 170-190).                      *)
IsTyped(g, hit) == g.scope = "bible" /\ ask.ref # NoRef /\ hit = g.hits[1] /\ hit.ref \in TypedRefs
SnippetShowsMatch ==
  Found => \A g \in Range(answer.groups) : \A hit \in Range(g.hits) :
    LET s  == hit.snippet
        at == Occurs(ask.q, hit.text)
    IN  IF g.scope = "hymns" THEN s = Whole(hit.text)
        ELSE /\ 0 <= s.from /\ s.to <= Len(hit.text)
             /\ s.to - s.from = Min({SnippetRunes, Len(hit.text)})
             /\ IF IsTyped(g, hit) THEN TRUE       \* shown from its start
                ELSE IF at = {} THEN s.from = 0
                ELSE s.from <= Min(at) /\ Min(at) < s.to
=============================================================================
