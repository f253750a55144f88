-------------------------------- MODULE Usfm --------------------------------
(***************************************************************************)
(* internal/ingest/usfm/usfm.go: what Parse makes of a USFM file. A file is *)
(* a sequence of tokens: markers, words and line breaks. A marker counts as *)
(* one of a few classes, since the code treats all markers of a class alike: *)
(*                                                                         *)
(*   id     \id and its book code        head   a marker of skipLine        *)
(*   c      \c and its number            v      \v and its number           *)
(*   open, close   the ends of a note or another span that noteRe removes,   *)
(*          with its kind (f, x, ...)                                       *)
(*   other  any marker that only sets off or styles words                   *)
(*                                                                         *)
(* White space, the word attributes of \w and "¶" are left out, and so are  *)
(* the closing markers of styles, which closeRe takes away, and the letters   *)
(* of words. The number of a bridged verse ("3-4") is its first.              *)
(***************************************************************************)
EXTENDS Integers, Sequences, FiniteSets, SequencesExt

NoBook   == "no book"       \* the initial value of Parse's variable book; of an empty \id
BadNumber == -1             \* what stands after a \c or \v is not a number
Markup   == "markup"        \* a word with a backslash or a bar that no pattern of Parse takes away

Id(b)      == [t |-> "id", n |-> 0, s |-> b]
Chapter(n) == [t |-> "c", n |-> n, s |-> ""]
Verse(n)   == [t |-> "v", n |-> n, s |-> ""]
Word(s)    == [t |-> "w", n |-> 0, s |-> s]
Mark(t)    == [t |-> t, n |-> 0, s |-> ""]
Heading    == Mark("head")
Style      == Mark("other")
NoteOpen(kind)  == [Mark("open") EXCEPT !.s = kind]
NoteClose(kind) == [Mark("close") EXCEPT !.s = kind]
NewLine    == Mark("nl")

Token == [t : STRING, n : Nat \cup {BadNumber}, s : STRING]

(***************************************************************************)
(* noteRe and closeRe: a span goes from an opening marker to the first      *)
(* closing one, of whatever kind, with its line breaks and its further      *)
(* openings. An opening that nothing closes stays, with its words.          *)
(***************************************************************************)
InNoteOneLine(src, i) ==    \* mutant: noteRe without (?s), so that its dot stops at a line break
  \E j \in 1 .. i :
    /\ src[j].t = "open"
    /\ \A m \in j .. i - 1 : src[m].t # "close"
    /\ \E k \in i .. Len(src) : src[k].t = "close" /\ \A m \in j .. k : src[m].t # "nl"
InNote(src, i) ==
  \E j \in 1 .. i :
    /\ src[j].t = "open"
    /\ \A m \in j .. i - 1 : src[m].t # "close"
    /\ \E k \in i .. Len(src) : src[k].t = "close"
Stays(src, i) == src[i].t # "close" /\ ~InNote(src, i)

(***************************************************************************)
(* Parse's variables: book, chapter, out, and whether cur is not nil; first  *)
(* while nothing of the line was read, skip until its end.                  *)
(***************************************************************************)
Start == [book |-> NoBook, chapter |-> 0, out |-> <<>>, cur |-> FALSE,
          first |-> TRUE, skip |-> FALSE, failed |-> FALSE]

Failed(p) == [p EXCEPT !.failed = TRUE]
Write(p, s) == IF p.cur THEN [p EXCEPT !.out[Len(p.out)].text = Append(@, s)] ELSE p

ReadId(p, k) ==       \* not at the start of a line it is a marker like others, and its code is text
  IF ~p.first THEN Write(p, k.s)
  ELSE IF k.s = NoBook THEN Failed(p)
  ELSE [p EXCEPT !.book = k.s, !.skip = TRUE]
ReadHeading(p) == [p EXCEPT !.skip = p.first]
ReadChapter(p, k) ==
  IF k.n = BadNumber THEN Failed(p)
  ELSE [p EXCEPT !.chapter = k.n, !.cur = FALSE]
ReadVerse(p, k) ==
  IF p.book = NoBook \/ p.chapter = 0 \/ k.n = BadNumber THEN Failed(p)
  ELSE [p EXCEPT !.cur = TRUE,
                 !.out = Append(@, [book |-> p.book, chapter |-> p.chapter, verse |-> k.n, text |-> <<>>])]

Read(p, k) ==
  LET q == CASE k.t = "id"   -> ReadId(p, k)
             [] k.t = "head" -> ReadHeading(p)
             [] k.t = "c"    -> ReadChapter(p, k)
             [] k.t = "v"    -> ReadVerse(p, k)
             [] k.t = "w"    -> Write(p, k.s)
             [] OTHER        -> p
  IN  IF p.failed THEN p
      ELSE IF k.t = "nl" THEN [p EXCEPT !.first = TRUE, !.skip = FALSE]
      ELSE IF p.skip THEN p
      ELSE [q EXCEPT !.first = FALSE]

(* Reads what stays of the file from its beginning to its end. *)
Parse(src) ==
  LET after[i \in 0 .. Len(src)] ==
        IF i = 0 THEN Start
        ELSE IF Stays(src, i) THEN Read(after[i - 1], src[i])
        ELSE after[i - 1]
  IN  after[Len(src)]

(***************************************************************************)
(* What a file says, from the comments on what is dropped (usfm.go:3-6, 25,  *)
(* 38) and not from the patterns and the loop: the words between a verse's   *)
(* marker and the next \v or \c, except those of notes, each of which ends    *)
(* at the closing marker of its own kind, and those from a heading, wherever  *)
(* it stands, to the end of its line.                                       *)
(***************************************************************************)
InOrder(S) == [k \in 1 .. Cardinality(S) |-> CHOOSE i \in S : Cardinality({j \in S : j <= i}) = k]
Ends(src, a, b) == src[b].t = "close" /\ src[b].s = src[a].s
NoteOf(src, a, i) ==     \* the note that opens at a goes on at i
  /\ src[a].t = "open"
  /\ \A m \in a .. i - 1 : ~Ends(src, a, m)
  /\ \E b \in i .. Len(src) : Ends(src, a, b)

Reference(src) ==
  LET plain == {i \in 1 .. Len(src) : src[i].t # "close" /\ ~\E a \in 1 .. i : NoteOf(src, a, i)}
      Of(T) == {i \in plain : src[i].t \in T}
      OnLineOf(h, i) == h <= i /\ \A m \in plain : h <= m /\ m < i => src[m].t # "nl"
      read == {i \in plain : ~\E h \in Of({"id", "head"}) : OnLineOf(h, i)}
      LatestOf(S, i) == src[Max({j \in S : j < i})]
      Next(i) == {j \in read \cap Of({"c", "v"}) : i < j} \cup {Len(src) + 1}
      WordsOf(i) == {j \in read \cap Of({"w"}) : i < j /\ j < Min(Next(i))}
      marks == InOrder(read \cap Of({"v"}))
  IN  [m \in 1 .. Len(marks) |->
        LET i == marks[m]
            words == InOrder(WordsOf(i))
        IN  [book    |-> LatestOf(Of({"id"}), i).s,
             chapter |-> LatestOf(read \cap Of({"c"}), i).n,
             verse   |-> src[i].n,
             text    |-> [n \in 1 .. Len(words) |-> src[words[n]].s]]]

(***************************************************************************)
(* The files of which Parse is to return that: no note is left open or ends   *)
(* inside another, and headings and \id begin a line. Of other files Parse    *)
(* keeps words of notes and headings, as noteRe does not match per kind       *)
(* (usfm.go:27) and skipLine is asked at the start of a line (usfm.go:93).    *)
(***************************************************************************)
WellFormed(src) ==
  \A i \in 1 .. Len(src) :
    /\ src[i].t = "open" =>
         \E b \in i .. Len(src) : Ends(src, i, b) /\ \A m \in i .. b - 1 : src[m].t # "close"
    /\ src[i].t \in {"id", "head"} => i = 1 \/ src[i - 1].t = "nl"
=============================================================================
