------------------------------ MODULE MCSearch ------------------------------
(***************************************************************************)
(* A small instance of Search: a book of three verses in two translations,   *)
(* archives that differ in a verse, and every short file after a beginning.  *)
(***************************************************************************)
EXTENDS Search

CONSTANTS neno, suv, sw, en

JHN  == "JHN"
Begin(b) == <<Id(b), NewLine, Chapter(1), NewLine>>
Line(n, text) == <<Verse(n)>> \o [i \in DOMAIN text |-> Word(text[i])] \o <<NewLine>>

Old  == <<Begin(JHN) \o Line(1, <<"a", "b", "d", "c">>) \o Line(2, <<"b">>)>>
New  == <<Begin(JHN) \o Line(1, <<"d", "a", "b">>) \o Line(3, <<"c">>), Begin("FRT") \o Line(1, <<"a">>)>>
Preface == <<Begin("FRT") \o Line(1, <<"a">>)>>      \* no book that we know: an import without verses

Command(c, l, a, dry) == [code |-> c, lang |-> l, archive |-> a, dryRun |-> dry]
Commands == {Command(neno, sw, Old, FALSE), Command(neno, sw, New, FALSE), Command(suv, sw, New, FALSE)}
Emptying == {Command(neno, sw, Old, FALSE), Command(neno, sw, Preface, FALSE)}

Tokens == {Word("a"), Word(Markup), Verse(1), Verse(2), Verse(BadNumber), Chapter(2), Id("GEN"), Id(NoBook),
           Heading, Style, NoteOpen("f"), NoteOpen("x"), NoteClose("f"), NoteClose("x"), NewLine}
Endings == {<<x, y, z, Word("c")>> : x, y, z \in Tokens}
Notes   == {<<x, y, z, NoteClose("f"), Word("c")>> : x, y, z \in Tokens}
Files   == {Begin(JHN) \o Line(1, <<"b">>) \o e : e \in Endings \cup Notes} \cup {e \o Begin(JHN) : e \in Endings}

EachFile   == {[commands |-> {Command(neno, sw, <<f>>, TRUE)}, imports |-> 1] : f \in Files}
AllShelves == EachFile \cup {[commands |-> Commands, imports |-> 3], [commands |-> Emptying, imports |-> 2]}

(* The files of EachFile are only parsed: no request reads meanwhile. *)
ParseOnly == (\E k \in shelf : k.dryRun) => pc = "idle"

Names == {[book |-> JHN, lang |-> sw, name |-> "Yohana", abbr |-> "Yn"],
          [book |-> JHN, lang |-> en, name |-> "John", abbr |-> "Jn"],
          [book |-> "GEN", lang |-> en, name |-> "Genesis", abbr |-> "Gn"]}

Query(q, ref, scope) == [op |-> "search", q |-> q, lang |-> sw, scope |-> scope, ref |-> ref]
Queries == {Query(<<>>, NoRef, AllScopes), [Query(<<"a">>, NoRef, AllScopes) EXCEPT !.lang = NoLang],
            Query(<<"a", "b">>, [name |-> "Luka", chapter |-> 1, verse |-> 1], AllScopes),
            Query(<<"1">>, NoRef, "hymns"),
            Query(<<"b">>, [name |-> "Jn", chapter |-> 1, verse |-> 0], "bible"),
            Query(<<"c">>, [name |-> "Yohana", chapter |-> 1, verse |-> 3], "bible")}

SomeParagraphs == {[ref |-> "SC 9.1", lang |-> sw, text |-> <<"a^", "b", "c", "a", "b">>]}
SomeBeliefs    == {[ref |-> "8", lang |-> sw, status |-> "published", title |-> <<"a">>, text |-> <<"c", "d", "c", "a^", "b">>],
                   [ref |-> "9", lang |-> sw, status |-> "draft", title |-> <<"a", "b">>, text |-> <<"a">>]}
SomeHymns      == {[ref |-> "NZK/1", lang |-> sw, number |-> "1", title |-> <<"d">>, category |-> <<"d", "a", "b", "d">>],
                   [ref |-> "NZK/2", lang |-> sw, number |-> "2", title |-> <<"1", "a", "b">>, category |-> <<"d", "a", "b", "d">>]}
SomeVideos     == {[ref |-> "f1", lang |-> sw, status |-> "published", visible |-> TRUE, media |-> "video",
                    kind |-> "sermon", text |-> <<"d">>, kicker |-> <<"a", "b">>, label |-> <<>>]}
Accents        == [w \in {"a^"} |-> "a"]
Alike          == {<<<<"a">>, <<"a", "b">>>>}

Symmetry == Permutations(Jobs)
=============================================================================
