----------------------------- MODULE MCLibrary -----------------------------
(***************************************************************************)
(* A small instance of Library: every read, one client at a time, while the  *)
(* content is edited; and two answers at a time with a device that pushes.    *)
(***************************************************************************)
EXTENDS Library, TLC

CONSTANTS sw, en, reader, c1, c2

Para(e, ch, o, r, s) == [edition |-> e, chapter |-> ch, ord |-> o, ref |-> r, text |-> s]
Option(i, q, o, right) == [id |-> i, question |-> q, ord |-> o, correct |-> right]

Before ==
  [items      |-> {[id |-> 1, status |-> "published", at |-> 5], [id |-> 2, status |-> "draft", at |-> 5]},
   links      |-> {[item |-> 1, ord |-> 1], [item |-> 1, ord |-> 2], [item |-> 2, ord |-> 1]},
   editions   |-> {[id |-> 1, book |-> "SC", lang |-> sw, title |-> 2], [id |-> 2, book |-> "SC", lang |-> en, title |-> 1],
                   [id |-> 3, book |-> "DA", lang |-> sw, title |-> 1]},
   paragraphs |-> {Para(1, 1, 1, "SC 9.1", "a"), Para(1, 1, 2, "SC 9.2", "b"), Para(1, 1, 2, "SC 9.4", "c"),
                   Para(2, 1, 1, "SC 9.2", "B"), Para(2, 1, 2, "SC 9.3", "C"), Para(2, 2, 1, "SC 10.1", "D")},
   beliefs    |-> {[n |-> 1, lang |-> sw, status |-> "published"], [n |-> 28, lang |-> sw, status |-> "draft"]},
   hymnals    |-> {[id |-> 1, code |-> 2, lang |-> 1], [id |-> 2, code |-> 1, lang |-> 2], [id |-> 3, code |-> 3, lang |-> 1]},
   hymns      |-> {[id |-> 4, hymnal |-> 1, number |-> 2, title |-> "t1"], [id |-> 5, hymnal |-> 1, number |-> 3, title |-> "t2"],
                   [id |-> 6, hymnal |-> 1, number |-> 1, title |-> "t2"], [id |-> 7, hymnal |-> 2, number |-> 1, title |-> "t1"]},
   stanzas    |-> {[hymn |-> 4, idx |-> 2], [hymn |-> 4, idx |-> 1], [hymn |-> 5, idx |-> 1]},
   weeks      |-> {[id |-> 1, lang |-> sw, status |-> "published", start |-> 0],
                   [id |-> 2, lang |-> sw, status |-> "published", start |-> 7],
                   [id |-> 3, lang |-> sw, status |-> "draft", start |-> 8],
                   [id |-> 4, lang |-> sw, status |-> "published", start |-> 3]},
   days       |-> {[week |-> w, idx |-> i, text |-> "d"] : w \in 1 .. 4, i \in {0, 6}},
   courses    |-> {[id |-> 1, lang |-> sw, status |-> "published", title |-> 2], [id |-> 2, lang |-> sw, status |-> "draft", title |-> 3],
                   [id |-> 3, lang |-> sw, status |-> "published", title |-> 1]},
   lessons    |-> {[id |-> 1, course |-> 1, n |-> 1], [id |-> 2, course |-> 2, n |-> 1]},
   questions  |-> {[id |-> 1, lesson |-> 1], [id |-> 2, lesson |-> 1], [id |-> 3, lesson |-> 2]},
   options    |-> {Option(1, 1, 1, FALSE), Option(2, 1, 2, TRUE), Option(3, 2, 1, FALSE), Option(4, 3, 1, TRUE)}]

After ==
  [Before EXCEPT
   !.items      = {[i EXCEPT !.status = IF i.id = 1 THEN "draft" ELSE "published"] : i \in @},
   !.links      = @ \ {[item |-> 1, ord |-> 1]},
   !.paragraphs = (@ \ {Para(1, 1, 2, "SC 9.2", "b")}) \cup {Para(1, 1, 4, "SC 9.3", "e")},
   !.beliefs    = {[n |-> 1, lang |-> sw, status |-> "draft"], [n |-> 28, lang |-> sw, status |-> "published"]},
   !.hymns      = {h \in @ : h.number # 2},
   !.stanzas    = @ \ {[hymn |-> 4, idx |-> 1]},
   !.weeks      = {IF w.id = 2 THEN [w EXCEPT !.status = "draft"] ELSE w : w \in @},
   !.courses    = {[c EXCEPT !.status = IF c.id = 1 THEN "draft" ELSE "published"] : c \in @},
   !.questions  = (@ \ {[id |-> 1, lesson |-> 1]}) \cup {[id |-> 5, lesson |-> 1]},
   !.options    = {o \in @ : o.question # 1} \cup {Option(5, 5, 1, TRUE), Option(6, 2, 2, TRUE)}]

Bits == 16
Chapters(l) == {[op |-> "egwChapter", edition |-> e, n |-> n, parallel |-> l] : e \in {1, 2, 9}, n \in {1, 2}}
Weeks == {[op |-> "week", lang |-> sw, hasDate |-> FALSE, date |-> 0, now |-> h] : h \in {0, 20, 21, 164, 165, 333, 400}}
         \cup {[op |-> "week", lang |-> sw, hasDate |-> TRUE, date |-> d, now |-> 0] : d \in {6, 7, 8, 14}}
         \cup {[op |-> "week", lang |-> NoLang, hasDate |-> FALSE, date |-> 0, now |-> 0]}
Hymns == {[op |-> "hymns", code |-> c, q |-> q] : c \in {2, 4},
            q \in {[t |-> "all"], [t |-> "number", n |-> 2], [t |-> "number", n |-> 2 + Bits], [t |-> "title", like |-> {"t2"}]}}
         \cup {[op |-> "hymn", code |-> c, number |-> n] : c \in {1, 2, 4}, n \in {1, 2, 2 + Bits}}
Lists == [op : {"egwBooks", "beliefs", "courses"}, lang : {sw, NoLang}]
         \cup {[op |-> "hymnals"]} \cup [op : {"belief"}, lang : {sw, NoLang}, n : {0, 1, 28, 29}]
Items == {[op |-> "feedItem", id |-> i, now |-> h] : i \in {1, 2}, h \in {4, 5}}
Lessons == {[op |-> "lesson", course |-> c, n |-> 1] : c \in {1, 2}}
Quiz(course, q, o) == [op |-> "answer", course |-> course, n |-> 1, question |-> q, option |-> o]
Mixed == {Quiz(1, 1, 2), Quiz(1, 2, 3), Quiz(2, 3, 4), Quiz(1, 3, 4), Quiz(1, 2, 6)}

Reading == [asks |-> Chapters(en) \cup Chapters(sw) \cup Chapters(NoLang) \cup Weeks \cup Hymns \cup Lists \cup Items \cup Lessons \cup Mixed,
            callers |-> {reader}, pushes |-> FALSE, versions |-> {Before, After}]
Answering1 == [asks |-> {Quiz(1, 1, 1), Quiz(1, 1, 2)},
               callers |-> {c1, c2}, pushes |-> TRUE, versions |-> {Before}]
Answering2 == [asks |-> {Quiz(1, 1, 1), Quiz(1, 1 + Bits, 2 + Bits)},
               callers |-> {c1, c2}, pushes |-> FALSE, versions |-> {Before}]

SomeWorkloads == {Reading, Answering1, Answering2}
Symmetry      == Permutations({c1, c2}) \cup Permutations(AnswerIds)
SomeDatabases == {Before, After}
=============================================================================
