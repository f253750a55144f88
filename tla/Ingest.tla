------------------------------- MODULE Ingest -------------------------------
(***************************************************************************)
(* cmd/ingest/main.go: `ingest bible` parses an archive of USFM files and   *)
(* replaces the verses of a translation in one transaction. Imports may     *)
(* overlap, fail at every statement and be killed. PostgreSQL runs them at  *)
(* READ COMMITTED: a statement sees what was committed when it began, and   *)
(* an upsert waits for the transaction that has written its key.            *)
(***************************************************************************)
EXTENDS Usfm

CONSTANTS
  Jobs,        \* processes that run the command
  Codes,       \* codes of translations, which also stand for their ids
  Langs,
  KnownBooks,  \* bible_books, which nothing changes
  Shelves,     \* what there is to import: commands [code, lang, archive, dryRun], and how many are given
  NoRow        \* stands for a row that is not there

Archives == {k.archive : k \in UNION {s.commands : s \in Shelves}}

ASSUME IngestAssumption ==
  /\ \A s \in Shelves :
       /\ s.imports \in Nat
       /\ \A k \in s.commands : k.code \in Codes /\ k.lang \in Langs /\ k.archive \in Seq(Seq(Token))
  /\ NoRow \notin [lang : Langs, source : [code : Codes, sha256 : Archives], version : Nat]

VARIABLES
  shelf,      \* the commands that may be given
  left,       \* how many more are given
  sources,    \* content_sources: an archive stands for its digest
  trans,      \* bible_translations, by code
  verses,     \* the rows of verses
  job         \* what each process does

ingestVars == <<shelf, left, sources, trans, verses, job>>

Source      == [code : Codes, sha256 : Archives]
Translation == [lang : Langs, source : Source, version : Nat]

Idle == [phase |-> "idle"]

(* Phases of the transaction, named for the statement that is next. *)
InTx == {"source", "translation", "delete", "copy", "commit"}

IngestInit ==
  /\ \E s \in Shelves : shelf = s.commands /\ left = s.imports
  /\ sources = {} /\ verses = {}
  /\ trans = [c \in Codes |-> NoRow]
  /\ job = [j \in Jobs |-> Idle]

-----------------------------------------------------------------------------
(* parseZip: the verses of the files in the order of their names, or nothing *)
(* when Parse refuses one of them.                                          *)
Parsed(archive)  == [f \in DOMAIN archive |-> Parse(archive[f])]
Refused(archive) == archive = <<>> \/ \E f \in DOMAIN archive : Parsed(archive)[f].failed
AllVerses(archive) == FlattenSeq([f \in DOMAIN archive |-> Parsed(archive)[f].out])

(* The first verse with text of each reference, of books that we know. *)
RefOf(v) == <<v.book, v.chapter, v.verse>>
IsKept(vs, i) ==
  /\ vs[i].book \in KnownBooks
  /\ vs[i].text # <<>>
  /\ \A k \in 1 .. i - 1 : RefOf(vs[k]) = RefOf(vs[i]) => vs[k].text = <<>>
KeptOf(vs) == {vs[i] : i \in {k \in DOMAIN vs : IsKept(vs, k)}}
Kept == [a \in Archives |-> KeptOf(AllVerses(a))]

HasMarkup(vs) == \E v \in vs : Markup \in Range(v.text)

Passes(archive) == ~Refused(archive) /\ ~HasMarkup(Kept[archive])

(* Everything before the transaction is local to the process. With --dry-run *)
(* it ends here, and shows verses.                                           *)
Prepare(j) ==
  /\ job[j].phase = "idle"
  /\ left > 0 /\ left' = left - 1
  /\ \E k \in shelf :
       job' = [job EXCEPT ![j] =
            IF Passes(k.archive) /\ ~k.dryRun
            THEN [phase |-> "source", code |-> k.code, lang |-> k.lang, archive |-> k.archive,
                  kept |-> Kept[k.archive], row |-> NoRow, deleted |-> {}]
            ELSE IF Passes(k.archive) THEN [phase |-> "shown", archive |-> k.archive, kept |-> Kept[k.archive]]
            ELSE [phase |-> "failed"]]
  /\ UNCHANGED <<shelf, sources, trans, verses>>

Running(j) == job[j].phase \in InTx
Others(j)  == {k \in Jobs \ {j} : Running(k)}
SourceOf(j) == [code |-> job[j].code, sha256 |-> job[j].archive]

(* ON CONFLICT (kind, ref, sha256): waits for a transaction that has written  *)
(* the key. The row of an archive that was imported before is kept.          *)
HoldsSource(j) == job[j].phase \in InTx \ {"source"}
UpsertSource(j) ==
  /\ job[j].phase = "source"
  /\ \A k \in Others(j) : HoldsSource(k) => SourceOf(k) # SourceOf(j)
  /\ job' = [job EXCEPT ![j].phase = "translation"]
  /\ UNCHANGED <<shelf, left, sources, trans, verses>>

(* ON CONFLICT (code): the row is locked until the transaction ends. *)
HoldsTranslation(j, c) == job[j].phase \in {"delete", "copy", "commit"} /\ job[j].code = c
TranslationFreeAlways(j) == TRUE    \* mutant: no row to lock, as with a table of versions
TranslationFree(j) == \A k \in Others(j) : ~HoldsTranslation(k, job[j].code)
Upserted(j) ==
  [lang |-> job[j].lang, source |-> SourceOf(j),
   version |-> LET old == trans[job[j].code] IN IF old = NoRow THEN 1 ELSE old.version + 1]
UpsertTranslation(j) ==
  /\ job[j].phase = "translation"
  /\ TranslationFree(j)
  /\ job' = [job EXCEPT ![j].phase = "delete", ![j].row = Upserted(j)]
  /\ UNCHANGED <<shelf, left, sources, trans, verses>>

RowsOf(c, vs) == {[code |-> c, verse |-> v] : v \in vs}
TextAt(c, rows) == {r.verse : r \in {s \in rows : s.code = c}}

DeleteVersesAtOnce(j) ==    \* mutant: the statement runs outside the transaction
  /\ job[j].phase = "delete"
  /\ verses' = {r \in verses : r.code # job[j].code}
  /\ job' = [job EXCEPT ![j].phase = "copy"]
  /\ UNCHANGED <<shelf, left, sources, trans>>

DeleteVerses(j) ==
  /\ job[j].phase = "delete"
  /\ job' = [job EXCEPT ![j].phase = "copy", ![j].deleted = {r \in verses : r.code = job[j].code}]
  /\ UNCHANGED <<shelf, left, sources, trans, verses>>

(* The primary key (translation_id, osis_ref) refuses a second row. *)
Collides(j) ==
  \E r \in verses \ job[j].deleted, v \in job[j].kept :
    r.code = job[j].code /\ RefOf(r.verse) = RefOf(v)
CopyVerses(j) ==
  /\ job[j].phase = "copy"
  /\ job' = [job EXCEPT ![j] = IF Collides(j) THEN Idle ELSE [@ EXCEPT !.phase = "commit"]]
  /\ UNCHANGED <<shelf, left, sources, trans, verses>>

Commit(j) ==
  /\ job[j].phase = "commit"
  /\ sources' = sources \cup {SourceOf(j)}
  /\ trans' = [trans EXCEPT ![job[j].code] = job[j].row]
  /\ verses' = (verses \ job[j].deleted) \cup RowsOf(job[j].code, job[j].kept)
  /\ job' = [job EXCEPT ![j] = Idle]
  /\ UNCHANGED <<shelf, left>>

(* An error of a statement or the end of the process rolls back; one that    *)
(* has ended may be started again.                                          *)
Exit(j) ==
  /\ job[j].phase # "idle"
  /\ job' = [job EXCEPT ![j] = Idle]
  /\ UNCHANGED <<shelf, left, sources, trans, verses>>

Import(j) ==
  \/ Prepare(j)
  \/ UpsertSource(j)
  \/ UpsertTranslation(j)
  \/ DeleteVerses(j)
  \/ CopyVerses(j)
  \/ Commit(j)
  \/ Exit(j)

IngestNext == \E j \in Jobs : Import(j)

-----------------------------------------------------------------------------
(* What the files of an archive say: every reference of a known book with the *)
(* words of its first verse that has any.                                    *)
FileVerses(archive) == FlattenSeq([f \in DOMAIN archive |-> Reference(archive[f])])
TextIn(archive) ==
  LET vs == FileVerses(archive)
      WithText(r) == {i \in DOMAIN vs : RefOf(vs[i]) = r /\ vs[i].text # <<>>}
      refs == {RefOf(vs[i]) : i \in DOMAIN vs}
  IN  {vs[Min(WithText(r))] : r \in {q \in refs : q[1] \in KnownBooks /\ WithText(q) # {}}}
ReadingText == [a \in Archives |-> TextIn(a)]
WellMade    == {a \in Archives : \A f \in DOMAIN a : WellFormed(a[f])}

(* What an import writes, or a dry run shows, never has markup in it; and of  *)
(* well-formed files it is the reading text: no heading or note gets into a   *)
(* verse, no verse is lost or gets another's words (usfm.go, main.go:95-119). *)
OnlyReadingText ==
  \A j \in Jobs : job[j].phase \in InTx \cup {"shown"} =>
    /\ \A v \in job[j].kept : Markup \notin Range(v.text)
    /\ job[j].archive \in WellMade => job[j].kept = ReadingText[job[j].archive]

(* main.go:134-177 replaces the text of a translation as a whole, and its    *)
(* source is where that text comes from.                                    *)
Texts == INSTANCE TextStore WITH
  TextOf <- LAMBDA a : Kept[a], NoArchive <- NoRow,
  text    <- [c \in Codes |-> TextAt(c, verses)],
  version <- [c \in Codes |-> IF trans[c] = NoRow THEN 0 ELSE trans[c].version],
  source  <- [c \in Codes |-> IF trans[c] = NoRow THEN NoRow ELSE trans[c].source.sha256]
ImplementsTextStore == Texts!Spec
=============================================================================
