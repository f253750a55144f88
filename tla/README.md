# Neno API: TLA+ models, checks and proofs

The Neno API (`src/`) is a Go service over PostgreSQL for a Bible study app: a feed, a library,
search, the signed-in user's marks, answers and reading progress, which are synchronised between
devices, and SQLite packs for offline use, with commands that import Bibles, build packs and deploy a release.
This directory models the service and its commands, checks them with TLC on small instances, and proves the most
important facts with TLAPS for every value of the constants.

Contents: [inventory](#inventory) · [modules](#modules) · [Sync](#sync) · [Likes](#likes) ·
[Packs](#packs) · [Feed](#feed) · [Account](#account) · [Import, reader and search](#import-reader-and-search) ·
[Library](#library) · [Deploy](#deploy) · [runs](#runs) · [what the checks found](#what-the-checks-found) ·
[proofs](#proofs) · [not modelled](#not-modelled-and-why) · [plan](#plan)

## Inventory

| Component | State | Operations | Interacts through | Hard behaviour | Correct when |
|---|---|---|---|---|---|
| **Sync** (`server/user.go:238-433`, `db/queries/sync.sql:24-71`) | `user_marks`, `user_answers`, `user_progress`; a device's rows and cursor | one transaction: upsert three lists, pull three tables, answer with a cursor | one connection per request, READ COMMITTED; rows shared with likes and quiz answers | statements of requests interleave; lost, late and repeated requests; deadlocks; clocks | last write wins; no committed row is hidden from a device; nothing foreign or rolled back is learned; every request ends |
| **Likes** (`server/user.go:20-74`, `sync.sql:1-22`) | like rows of `user_marks`, advisory locks | like, unlike, count | the same rows through sync, which takes no advisory lock | overlapping likes and unlikes, retries after an error | one active like per user; answers are true; calls take effect in order |
| **Quiz answers** (`server/library.go:301-333`) | `user_answers` | update, or insert when there was none | same rows through sync | two first answers race | one answer per question; a later answer replaces an earlier one |
| **Profile and user cache** (`server/auth.go:65-97`, `server/user.go:75-234`) | `users`, an in-process map with a 10 minute TTL | upsert from token; read, merge, write back | every authenticated request | check, unlock, act; read-modify-write; tokens of different age | no handler misses the user; email and role end as the tokens say; a PATCH changes only its fields |
| **Packs** (`packs/build.go`, `cmd/packs`, `db/queries/packs.sql`) | table `packs`, files of `PACKS_DIR` and their temporary names | collect, compare, write, rename, record, prune | reads the imported content; `/v1/packs` and `/packs/{file}` serve the result | builds that overlap, fail or are killed; lost files; imports during a build | versions are numbered and differ; published files are whole and have their digest |
| **Pack files** (`packfiles/handler.go`) | none | serve a file, cached as immutable | the directory of the builder | a rebuilt file behind an immutable URL | a cached copy keeps its digest |
| **Feed** (`server/server.go:84-143`, `server/feed.go`, `content.sql:1-27`) | none; reads `feed_items`; a client's cursor and pages | keyset pages, language fallback, rearrangement | editors write the rows between pages | page boundaries, rows that appear, move or vanish, answers asked for again, midnight between two reads of the clock | no item is skipped or repeated; a page is arranged without changing what is on it |
| **Import** (`cmd/ingest`, `ingest/usfm`) | `content_sources`, `bible_translations`, `verses` | parse an archive of USFM, filter, replace the verses of a translation in one transaction | readers, search and the packs read the text while it runs | files with notes, headings, bridged and empty verses; imports that overlap, fail or are killed | a verse is its reading text; a text changes as a whole and counts its version up |
| **Bible reader** (`server/server.go:171-270`, `content.sql`) | none | a chapter with a parallel text, lists of translations and books, several statements each | imports write the rows between the statements | a text replaced in the middle of a request | a chapter is one import's text; beside a verse stands the same verse |
| **Search** (`server/search.go`, `search.sql`) | none | a typed reference, then one query for each scope, snippets | the same rows | a text replaced between two queries, windows at the ends of a text | the typed verse stands first and once; a snippet shows the match |
| **Library reads** (`server/library.go:28-298`, `library.sql`) and `GET /v1/feed/{id}` | none; the books, beliefs, hymns, lessons, courses and feed items | one to three statements each | editors write the rows between the statements | rows edited in the middle of a request, the day in Nairobi, numbers beyond int32 | what is read is the published content of that day and language |
| **Deployment** (`deploy/deploy.sh`, `neno-api.service`), with `cmd/migrate` and the start of `cmd/api` | `releases/`, the link `current`, `current.tmp`, the unit, the schema, the process | upload, migrate, build packs, switch, restart, check, prune, roll back | ssh to one host; systemd; the database | deploys that overlap, fail or are cut off, a database that is away, releases that do not start | a release finds its migrations; a deploy does what it says; the API comes back |
| Token verification, middleware, generated code, pack file handler | none of their own | pure functions, wiring | every request | | |

The hazards of this code, each with the line where it bites and the property that watches it, are listed
in `PROJECT.json`.

## Modules

| Module | What it is |
|---|---|
| `LwwStore` | abstract: a push of one user's batch is one atomic step, the newest version wins |
| `Sync` | `POST /v1/sync`, the devices that call it and the network between them; implements `LwwStore` |
| `Likes` | `POST`/`DELETE /v1/feed/{id}/like`, and the devices that sync the same rows |
| `Packs` | `cmd/packs build`, with imports, lost files, failures and overlapping builds |
| `Feed` | `GET /v1/feed`: a client pages through the items while editors change them |
| `Account` | what every authenticated request does to the user's row, and `PATCH /v1/me` |
| `TextStore` | abstract: the text of a translation changes only as a whole, with its version and source |
| `Usfm` | `usfm.Parse` as a fold over tokens, and what it should return, defined otherwise |
| `Ingest` | `ingest bible`: `Usfm`, the filter and the transaction; implements `TextStore` |
| `Bible` | `Ingest` with the reader's endpoints |
| `Search` | `Bible` with `GET /v1/search` |
| `Library` | the reads of `library.go`, `GET /v1/feed/{id}`, and quiz answers with the devices that sync them |
| `Deploy` | `deploy.sh` on the server, with migrations, the unit and the process |
| `MCSync`, `MCLikes`, `MCPacks`, `MCFeed`, `MCAccount`, `MCSearch`, `MCLibrary`, `MCDeploy` | values for the constants of the runs |
| `SyncProofs`, `LikesProofs`, `PacksProofs`, `FeedProofs`, `AccountProofs`, `SearchProofs`, `LibraryProofs`, `DeployProofs` | theorems about the components; `SearchProofs` also about `Ingest` and `Bible`, which `Search` extends |

Each specification is one `Next` of named actions; an action is one statement of the database, one file
operation, or one message, since that is what other actors can observe between. `PROJECT.json` maps every
definition to the lines it stands for.

### Sync

| Module | Code |
|---|---|
| `Send`, `Lose`, `Deliver` | the device and the network: a request is sent with the stored cursor; request or response may be lost; a response is merged by id and its cursor stored, in any order |
| `Reject` | the checks of `user.go:287-342`, before anything is written |
| `Begin` | `BEGIN`; `SyncNow` fixes `now()` for the whole transaction |
| `Upsert` | one `INSERT ... ON CONFLICT DO UPDATE ... WHERE`: waits for the row's holder, locks the row even when its `WHERE` fails, clamps the time (`user.go:351`) |
| `PullMarks`, `PullAnswers`, `PullProgress` | three `SELECT`s, each with a snapshot of its own, that see the transaction's own writes |
| `Commit`, `Fail`, `AbortDeadlock` | the end of the transaction; the database aborts one of a cycle of waiters |
| `Tick` | the database's clock; no transaction outlives `MaxTx` |

A row is its owner, its version (`updated_at`) and its `server_updated_at`: payloads differ only by
version, as every property is about which version is where. A retry is one more request with the same batch.

`NoMissedChange` is the property the cursor and `syncOverlap` exist for: a row carries the time its
transaction *started* and appears when it *commits*, so a pull between the two moves the cursor past a row
it never saw. It holds as long as a transaction lives for less than the overlap, and the run
`Sync_LongTx` shows that this is necessary. `MaxTx` is therefore a stated assumption of the model: nothing in
the code enforces it (see below).

### Likes

`Call` to `Count` are the statements of `setLike`. `now()` is fixed by `Begin` and used after
`AdvisoryLock` has waited. `HashText` sends users to advisory locks, perhaps two to one. `Fail` may strike
at any statement, `CountLikes` after the commit included: the caller gets an error for a like that stands.
`Edit` and `Sync` are a device that changes likes offline and then syncs: one atomic step here, because
`Sync` implements `LwwStore`; it waits for rows that an open transaction has written, but not for the
advisory lock. The devices' clocks are right, so nothing found here is due to skewed clocks; their merge lets
the server's row win a tie.

### Packs

A build (`Builders` are processes) goes through the phases

    collect -> publish -> check -> fill -> rename -> unlink -> digest -> record -> prune -> publish ... -> done

which are the statements and file operations of `collect`, `publish`, `write` and `prune` in
`build.go`. `ReadRows` is one of a pack's two statements (verses and books), so an `Import` can commit
between them. A file is an inode with a content that is whole or not: `Open` creates it under the
temporary name after removing what had that name, `Fill` writes it, `Rename` moves *whatever the
temporary name stands for by then*. Two files never have the same bytes (`meta.built_at`), so a digest
names a file and whether it was whole when read. `Fail` is an error return, `Kill` the end of the process,
both from every phase. Deliberately abstract: the rows of a pack are one value per statement, and two builds
that write one SQLite file do not corrupt each other's pages beyond the file's being unfinished (what
SQLite's journals add to that is not modelled).

### Feed

| Module | Code |
|---|---|
| `Open`, `Ask`, `Deliver`, `Lose` | the client: it asks for pages with the `next_cursor` of the last one it received until there is none, and asks again after an error or a lost answer |
| `Query`, `QueryFallback` | `ListFeed`'s query for `limit + 1` rows (`Answers`), and the second one in `en`, one snapshot each |
| `Build` | the cut to `limit`, the cursor of the last row, which carries the language |
| `TakeVerse`, `TakeTodaysSchool`, `Interleave` | `arrangeFeed` (`feed.go:120-155`), one row at a time from `rest` to `out` |
| `Edit`, `Tick` | editors write `status` and `publish_at` directly; time makes scheduled items visible |

Requests only read, so one client stands for all. `SteadyOnce` compares what the client received with `steady`,
the items that the first page's query could see and no editor touched since. Simplifications: an item keeps its
language and kind; a missing `publish_at` is a draft, since the query serves neither; the client repeats its `lang` and
`kinds` (nothing ties a cursor to `kinds`: a client that changes them starts another feed in the middle).
The fallback is modelled as the code has it: for a first page without rows, be it that the language has no
items of the *kinds* asked for, and not when the parameter `cursor` is sent empty, which every other line treats as
no cursor.

### Account

| Module | Code |
|---|---|
| `Arrive` | a request with a token of any state of the user in Keycloak that has not expired; `PATCH /v1/me` or another |
| `CheckCache`, `UpsertUserFromToken`, `StoreEntry` | `ensureUser`: the mutex is held for the first and the last and free in between; the upsert is one statement |
| `GetUser`, `Reject`, `UpdateUserSettings`, `LoadMe` | `UpdateMe`: read, validate and merge, write every field back, read again; no transaction |
| `Age`, `Restart`, `Fail` | the ten minutes of an entry; a restart empties the cache and ends all requests; a statement fails |

One user stands for all: no statement touches two. The profile is some `Fields`, one of them `DisplayName`, which the
upsert fills in when it is null. `chosen`, `outdated` and `lost` are history variables of `PatchesKept`: what the user last chose,
which PATCHes in progress have been overtaken by another's write since they read, and whether one of those wrote.
The premise `~lost` is needed: two PATCHes that overlap do lose a field, as the second writes back what it read before the
first wrote. Likewise a PATCH may put back the null that it read over a display name that a token filled in
meanwhile; the next upsert fills it in again, and the user never chose it.

### Import, reader and search

`Search` extends `Bible`, which extends `Ingest`, which extends `Usfm`: one instance has the imports, the reader and the search.

| Module | Code |
|---|---|
| `Stays`, `Read`, `Parse` | `noteRe.ReplaceAllString`, then line by line: headings and `\id` are only seen at the start of a line, `\c` and `\v` anywhere; an error ends the file |
| `Prepare` | `main.go:63-131`: parse every file, keep the first text of every reference of a known book, refuse markup; a dry run stops here |
| `UpsertSource`, `UpsertTranslation`, `DeleteVerses`, `CopyVerses`, `Commit`, `Exit` | the transaction at READ COMMITTED; the writes of a transaction are seen when it commits, and an upsert waits for the transaction that holds its row |
| `Ask`, `FindTranslation` to `ReadParallel`, `ReadBooks`, `ReadTranslations` | the reader's handlers, one query a step |
| `AskSearch`, `FindBook`, `FindVerse`, `SearchBible` to `SearchFeed`, `ReturnGroups` | the search handler; the order of the hits of a query is any (`Orders`), since ranks are the database's |

A file is a sequence of tokens: a marker is one of the classes the code tells apart, a word is a word. `Reference` says
what a file holds, from the comments of `usfm.go` and not from its patterns, and without reading it from left to right: a verse's
words are those between its marker and the next, except in notes, each of which ends at the closing marker of *its own kind*, and
after a heading, *wherever it stands*, to the end of its line. `OnlyReadingText` compares an import that was prepared with that
for every archive of `WellFormed` files, in which no note is left open or ends inside another and headings and `\id` begin a line;
on others the parser and its comments differ ([finding 9](#what-the-checks-found)). It also says that a text with markup is refused,
by looking for markup in what `Reference` keeps: the refusal of `main.go:112-119` is part of `Prepare`. What the words look
like (white space, `\w` attributes, "¶") is left out. `ImplementsTextStore` is the refinement: `Commit` is `TextStore!Replace`, every
other step stutters. It rests on the row lock of the translation's upsert; the mutant without it mixes two texts.
Requests only read and share nothing, so one reader stands for all. `seen` is a history variable: the texts of each translation
that were committed while the request ran. `ChapterOfOneImport` and the other reader's properties are about those:
a chapter and its parallel text may be of different imports, but each is one import's. They are about chapter numbers that an
int32 holds: `Int32` is the cut of `server.go:183` and `209`, and a request for a larger number is served the chapter of the remainder
([finding 10](#what-the-checks-found)).

The words of a text are strings. The queries compare them without accents where the SQL has `immutable_unaccent` (`Folded`), and with
them in `tsv`; `snippet` looks for the query as it was typed, so a text that was found by its folded accents is shown from its beginning.
Case is folded by all of them and left out. A hymn's category is shown whole. `TypedVerseOnce` compares the first hit with the
verse that the request names: if it stood in the table from the request to the answer (`stood`, a history variable), it is first, and
no later hit repeats it. If imports removed or added it meanwhile, the search may or may not find it.

### Library

| Module | Code |
|---|---|
| `Ask`, `List` | the wrapper; the reads that are one statement |
| `FindEdition` to `ReadParallel`, `FindHymnal` to `ReadStanzas`, `FindWeek`, `ReadDays`, `FindLesson` to `ReadOptions`, `FindItem`, `ReadLinks` | the other handlers, one query a step |
| `FindOption`, `BeginUpdate`, `UpdateQuizAnswer`, `InsertQuizAnswer`, `Commit`, `Fail` | `AnswerQuiz`: the lookup outside, the two statements inside a transaction |
| `Push`, `Edit` | a device writes `user_answers` through sync; an editor changes the content |

Editors work in any order, so `Edit` sets the content to another version of it. `AnswersAreTheContent` compares the
answer to a request during which nothing was edited with the content. For each of the twelve requests `Asked` is the set of rows it
names, by what it says, and `IsContent` what the answer is to be: all of those rows, each once, in the order of the query's
`ORDER BY`, with the rows that belong to them (`InOrder`, `LineByLine`); of a list of hymns those with the smallest numbers, up to `LIMIT 500`
(`HymnLimit`); of weeks that overlap the latest. A 404 must mean that `Asked` is empty. It is about numbers that are int32s
(`NumbersHold`). Texts by which rows are ordered (titles, languages and codes of hymnals) are numbers in the order of the collation.
`OnlyPublished` is for all requests, and says that what is shown was
published at some moment of the request. Quiz answers: `stands` is what an answer that no other overlapped has set, `overlap` the questions to which two
answers overlapped or a device added a row. The premise of `OneAnswer`, a question outside `overlap`, is needed: two first answers that
overlap insert two rows. `LatestAnswerStands` has no such premise, because a later answer sets all rows of the question. `Int32` is the cut of
`library.go:308-310`, with `IntSize` for 2^32; the run asks for numbers beyond it. One user stands for all:
every statement names its user.

### Deploy

A deploy goes through

    ready -> readlink -> migrate -> packs -> unit -> link -> move -> restart -> check -> prune -> healthy
                                                                                \-> link back -> move back -> restart back -> rolled back

which are the commands of `deploy.sh:57-101`. `Exit` is a command that fails under `set -e`, or a connection that is cut. A deploy is a
release of its own with the migrations it has (`SchemaOf`), and starts or not (`Starts`). `Link` and `Move` are two commands
on one name, `current.tmp`, that all deploys share. `Start`, `Retry`, `Crash` are the unit: `systemctl restart` returns when the process was
started, not when it serves; the process needs the database and its binary; `Restart=on-failure` tries again
for ever, as `RestartSec=3` stays below systemd's default limit of five starts in ten seconds. `DbDown` and `DbUp` are outages, `MaxFaults` bounds outages and
crashes. Migrations and the unit file are not rolled back, as in the script; `unit` only records which unit file is installed, since all
releases have the same, and no property is about it. Every command is taken to end (`FairSpec`): `curl` has no `--max-time`
(`deploy.sh:81`), so that a release which accepts a connection and never answers would hold the script, and `migrate` waits for the
database as long as it takes. `EveryDeployEnds` is about releases that start or do not. `overlapped` and `unlinked` are the premises
of `OutcomeIsTrue`; see [below](#what-the-checks-found).

## Runs

| Run | Instance | Properties | Shows | States |
|---|---|---|---|---|
| `Sync_Lww` | 2 users with a device each, 3 requests, 2 mark ids that batches lock in opposite orders; batches that are invalid, too long, or from a clock far ahead | `OnlyCommittedOwnRows`, `LastWriteWins`, `EveryRequestEnds`, `ImplementsLwwStore` | interleaved statements behave like atomic last-write-wins batches, and no request hangs | 426 thousand |
| `Sync_Pull` | 1 user, 2 devices, 3 requests on 1 progress target, 3 clock ticks, overlap 2, transactions of 1 | `SyncInv`, `NoMissedChange` | the cursor hides no row while transactions are younger than the overlap | 2.06 million |
| `Sync_LongTx` | transactions as old as the overlap | `NoMissedChange` violated | see below | |
| `Likes_Race` | 3 calls of one user | `CallsInOrder`, `EveryCallEnds` | calls are atomic and in order, and end | 669 thousand |
| `Likes_Devices` | 2 users, 2 calls, 1 device, 2 edits, 2 ticks | `LikesInv`, `OneActiveLike`, `AnswerIsTrue`, `NeverInflated` | the like state is right with devices writing the same rows | 746 thousand |
| `Likes_Unlike` | 2 calls, 1 device, no edit | `UnlikeReachesDevices` violated | see below | |
| `Packs_Build` | 2 builders, 1 pack, 3 versions, 3 files, 3 imports, 1 lost file | `PacksInv`, `VersionsOK`, `BuildConverges`, `FilesWholeAlone`, `LatestTwoServed` | builds number versions and repair the disk | 2.5 million |
| `Feed_Pages` | 5 items, 4 of them in the fallback language, 3 kinds, pages of 1 and 3, 1 edit, 1 tick, which is midnight | `FeedInv`, `SteadyOnce`, `KindsInterleaved`, `KindsInOrder`, `FeedEnds` | paging neither skips nor repeats, ends, and arranges pages as promised | 193 thousand |
| `Account_Me` | 2 requests at a time, 2 states of the user in Keycloak, 2 fields, bodies that set, clear and err | `AccountInv`, `PatchesKept`, `RoleFollows` | the user's row survives overlapping requests, failures and restarts | 455 thousand |
| `Search_Reader` | every file of 3 tokens and a word, or a note's end and a word, after a verse, and before a book, parsed; 2 jobs, 3 imports of 2 translations, 1 reader, 6 searches, `IntSize` 8 and a chapter beyond it | `OnlyReadingText`, `ChapterOfOneImport`, `ParallelIsSameVerse`, `OfferedCanBeOpened`, `TypedVerseOnce`, `SnippetShowsMatch`, `ImplementsTextStore` | the parser keeps the reading text of well-formed files, imports are atomic, and readers see one of them | 263 thousand |
| `Library_Content` | a database and an edited version of it, 1 reader, all 12 requests; 2 answers at a time and a device, 3 answer ids, 2 questions, `IntSize` 16, `HymnLimit` 2 | `LatestAnswerStands`, `OneAnswer`, `AnswersAreTheContent`, `OnlyPublished` | reads show the published content, each row once and in order, and an answer stands | 251 thousand |
| `Deploy_Rollback` | 2 deploys, 1 of which does not start, onto an empty or a running server; `KEEP` 1, 2 health checks, 2 faults | `SchemaReady`, `OutcomeIsTrue`, `EveryDeployEnds`, `ServiceReturns` | releases find their schema, deploys end and say what is so, the API comes back | 215 thousand |

*Bounds.* Three requests are what the sync hazards need: one that writes, one whose cursor moves past it,
and one that should still receive it; three ticks let a cursor move past the overlap. Two marks suffice
for a deadlock. Three calls give a like, an unlike and a third call that overlaps both or neither. Two
edits make the two active likes that only devices can make. Three versions are the fewest for which pruning
removes one, and a build that dies in the middle, a lost file and another build fit into three files. Pages of
one row over four items need three cursors, and pages of three have something to arrange; ids and `publish_at` are small enough
that items are often level in `publish_at`. Two requests suffice for every race of `Account` that is named above, since each is
about one request between two steps of another. Three tokens, a note's end and a word after a verse have room for a note with a word in it, a note in a note, a heading and a marker that
stands where it should not; longer ones repeat those. Three hymns with `HymnLimit` 2 reach the limit, `IntSize` 8 and 16 numbers beyond it. `KEEP` is 1 and not 5, so that pruning removes releases with two deploys; it is a constant of
the module. A snippet of 3 units and texts of up to 5 reach both ends and the middle. Larger
values add repetitions of these situations; the theorems hold without any bound.

*Symmetry* permutes requests, calls, marks, builders, texts or jobs, only in runs without liveness. *Constraint*: `ParseOnly` keeps
requests away from the runs of `Search_Reader` whose file is only parsed (a dry run), which share no state with them.

*Deadlock.* Requests, calls and deploys are made once, so `Sync`, `Likes_Race` and `Deploy_Rollback` may come to rest: they say
`CHECK_DEADLOCK FALSE`. Waiting for ever is what `EveryRequestEnds` and `EveryCallEnds` exclude.

*Fairness.* `Sync`: weak fairness of each handler's next step (`Server`) and of the fate of a message in
flight (`Network`): a goroutine that can run does, and PostgreSQL aborts one of a cycle of waiters.
Sending, failing and the clock are not fair. `Likes`: weak fairness of each call's next step; a waiter
gets the advisory lock at the latest when no other call is left. `Packs` has no liveness property: a
build either goes on or is gone, and `BuildConverges` says what a finished one leaves. `Feed`: the client goes on
asking and the handler runs on (weak); neither the database nor the network fails a page for ever (strong fairness
of the queries and of `Deliver`, as `Fail` and `Lose` compete with them). `Deploy`: the next command of a script that runs ends, or the
script does (weak); systemd starts and retries the unit (weak); outages end (weak). No deploy need begin. `Ingest`, `Bible`, `Search` and `Library` have safety properties only: their steps
are queries, and an import that is killed is simply gone. `Account`: tokens and cache entries age, the user
goes on using the app (weak), and strong fairness of `CheckCache` and `UpsertUserFromToken`, which failures and restarts
interrupt.

Every property has a mutant, a plausible bug in one definition (a dropped owner test, a pull without the
overlap, an unlock only on success, a prune of every old version...), under which its run fails;
definitions such as `RecentNoOverlap` stand next to the ones they replace.

## What the checks found

1. **A transaction that lives as long as the overlap hides its rows** (`Sync_LongTx`, `user.go:242`).
   The comment says that `syncOverlap` re-sends the rows of transactions that started before the cursor and
   committed after it; it does so only for transactions younger than 30 seconds. No statement or lock
   timeout bounds a transaction that waits for a row lock.
2. **An unlike can fail to reach devices** (`Likes_Unlike`, `user.go:62`). `DeleteLikes` stamps the row with
   the time its transaction began, before it waited for the advisory lock. When a like commits in between, the
   deleted row is *older* than the like; a device that has the like keeps it, by last-write-wins.

Found while modelling, stated as premises of properties rather than runs of their own:

3. **A pack file is not immutable** (`build.go:271`, `packfiles/handler.go:36`). A lost file is rebuilt under the
   same name with another digest, while copies are cached as immutable for a year.
4. **Overlapping builds publish a half-written file** (`build.go:319`). They share the temporary name, so one renames the other's
   unfinished file into place. Its digest may then be recorded, and later builds find the file "unchanged" because it has that
   digest. `FilesWholeAlone` is about builds that do not overlap.
5. **Two first quiz answers insert two rows** (`library.go:323`), although one per user and question is meant
   (`library.go:318`). Later answers set both, so what they say is right.
6. **Overlapping PATCHes lose a field** (`user.go:131`), see [Account](#account).
7. **A deploy whose `ln` fails reports "healthy"** (`deploy.sh:77`). `set -e` does not see a command that fails before `&&`, so
   the old release is restarted, answers the health check, and older releases are pruned. Hence `unlinked = {}` in `OutcomeIsTrue`.
8. **Overlapping deploys may move each other's link** (`deploy.sh:77`). Even then no release meets a schema it lacks
   (`SchemaReady`), because a deploy links its release only after its own migration; but a deploy may report what is not so.
9. **Notes and headings can leave words in a verse** (`usfm.go:27`, `usfm.go:93`). "Matching is per kind", and notes and headings
   "are dropped" (`usfm.go:3-5`, `25-26`); but `noteRe` lets a note end at the first closing marker of *any* kind, so of a note with
   another in it the rest stays, a note that nothing closes stays whole, and `skipLine` is asked only for the first marker of a line.
   `WellFormed` excludes such files from `OnlyReadingText`.
10. **Numbers beyond int32 name other rows** (`server.go:183`, `library.go:308-310`). Chapter 2^32+1 is answered with the text of
    chapter 1, under the number that was asked for. Hence the premises `IsInt32` and `NumbersHold`.

In `snippet` (`search.go:177`) accents count, in the queries they do not: a text that was found without its accents is shown from its
beginning, where the match may not be. No comment promises otherwise.

## Proofs

TLAPS checks every proof to its last leaf.

| Theorem | Says | Under |
|---|---|---|
| `SyncProofs!TypeCorrect` | `Spec => []TypeOK` | `SyncAssumption`, `BatchAssumption` |
| `SyncProofs!NothingMissed` | `MaxTx < Overlap => (Spec => []NoMissedChange)` | the same; the hypothesis is the honest reading of the comment on `syncOverlap` |
| `SyncProofs!OnlyCommittedReceived` | `Spec => []OnlyCommittedOwnRows` | the same |
| `SyncProofs!LastWriteAlwaysWins` | `Spec => []LastWriteWins` | the same |
| `SyncProofs!SyncImplementsLww` | `Spec => ImplementsLwwStore` | the same |
| `SyncProofs!SyncInvariant` | `MaxTx < Overlap => (Spec => []SyncInv)` | the same, and the same hypothesis |
| `LikesProofs!LikesTypeCorrect` | `Spec => []TypeOK` | `LikesAssumption` |
| `LikesProofs!OneLikePerUser` | `Spec => []OneActiveLike` | the same |
| `LikesProofs!LikesInvariant` | `Spec => []LikesInv` | the same |
| `LikesProofs!AnswersAreTrue` | `Spec => []AnswerIsTrue` | the same |
| `LikesProofs!CallsTakeEffectInOrder` | `Spec => []CallsInOrder` | the same |
| `LikesProofs!CountNotInflated` | `Spec => []NeverInflated` | the same |
| `PacksProofs!PacksTypeCorrect` | `Spec => []TypeOK` | `PacksAssumption`, `NoPackAssumption` |
| `PacksProofs!VersionsNumbered` | `Spec => []VersionsOK` | the same |
| `PacksProofs!PacksInvariant` | `Spec => []PacksInv` | the same |
| `PacksProofs!PublishedWhole` | `Spec => []FilesWholeAlone` | the same |
| `PacksProofs!ManifestServed` | `Spec => []LatestTwoServed` | the same |
| `PacksProofs!BuildsConverge` | `Spec => []BuildConverges` | the same |
| `FeedProofs!FeedInvariant` | `Spec => [](TypeOK /\ FeedInv)` | `FeedAssumption` |
| `FeedProofs!EachSteadyItemOnce` | `Spec => []SteadyOnce` | the same |
| `FeedProofs!KindsAlternate` | `Spec => []KindsInterleaved` | the same |
| `FeedProofs!EachKindInOrder` | `Spec => []KindsInOrder` | the same |
| `AccountProofs!AccountTypeCorrect` | `Spec => []TypeOK` | `AccountAssumption` |
| `AccountProofs!NoUserMissing` | `Spec => []AccountInv` | the same |
| `AccountProofs!ChoicesKept` | `Spec => []PatchesKept` | the same |
| `DeployProofs!DeployTypeCorrect` | `Spec => []TypeOK` | `DeployAssumption` |
| `SearchProofs!ImportsReplaceTexts` | `Spec => ImplementsTextStore` | `IngestAssumption` |
| `SearchProofs!OnlyTextIsKept` | `Spec => []OnlyReadingText` | `IngestAssumption`, `SearchAssumption` |
| `SearchProofs!ChapterIsOneImports` | `Spec => []ChapterOfOneImport` | `IngestAssumption`, `ReaderAssumption`, `SearchAssumption` |
| `SearchProofs!ParallelVersesMatch` | `Spec => []ParallelIsSameVerse` | the same |
| `SearchProofs!OffersCanBeOpened` | `Spec => []OfferedCanBeOpened` | the same |
| `SearchProofs!TypedVerseStandsOnce` | `Spec => []TypedVerseOnce` | the same |
| `SearchProofs!SnippetsShowMatch` | `Spec => []SnippetShowsMatch` | the same |
| `LibraryProofs!AnswersStand` | `Spec => []LatestAnswerStands` | `LibraryAssumption` |
| `LibraryProofs!OneAnswerEach` | `Spec => []OneAnswer` | the same |
| `LibraryProofs!NoDraftIsShown` | `Spec => []OnlyPublished` | `LibraryAssumption`, `ContentAssumption` |
| `LibraryProofs!AnswersAreContent` | `Spec => []AnswersAreTheContent` | the same |
| `DeployProofs!MigrationsFirst` | `Spec => []SchemaReady` | `DeployAssumption` |
| `DeployProofs!OutcomeTold` | `Spec => []OutcomeIsTrue` | the same |

The assumptions are about constants only: times are numbers, the "no row" values are not rows, ids are not
progress keys, users are finitely many (`Likes` counts them), no two sources share a slug (the codes they are made of are
`UNIQUE` in `00001_init.sql`), a batch lists marks, then answers, then progress (the body has three lists), an archive is a finite sequence of
finite files, the words that are searched are sequences, the rows that a query may list are finitely many, ids and
places (`ord`) are integers, and so are chapters, and `IntSize` is even, as 2^32 is.

*Sync.* No property is inductive, because what a request will do depends on what it is halfway through. `SyncInv` says what
is true of one: `TimesOK` (cursors and transactions lie in the past), `LocksOK` (an uncommitted row is
locked by its writer and supersedes the committed one), `PullsOK` (a row that the device lacks is within the
request's window, or, once its table was read, was read or will be within the window of the cursor that the
request returns: this is where `MaxTx < Overlap` is used), `ReadsOK` (what was read is committed when the
response is) and `PushesOK` (every handled item is covered by a row at least as new). Refinement: `Commit` is
`LwwStore!Push` with the versions of the request's batch, every other step stutters.

*Likes.* `LikesInv` says that a call between the test for an active like and its commit holds its user's
lock (`LocksOK`), writes only its user's rows, at most one of them new (`WritesOK`), and, if it is about to insert,
that no other active like of the API exists (`InsertsOK`). Two such calls of a user are the same call,
whoever else shares the lock. What calls leave and answer needs more (`InvT`): a row keeps its owner and has one writer
(`OwnersOK`); a call about to commit which nothing has disturbed will leave its user's like as it was asked, and has
left it so when it counts (`EffectOK`); `before` holds only calls that are over (`BeforeOK`), so that the call which committed last
is the one `CallsInOrder` asks for (`OrderOK`); and whoever was counted owns a row, as rows stay (`CountedOK`).

*Packs.* `PacksInv` says of each build that the row it once read is still in the table with that version and
content, which no other build's insert or rewrite changes. With `UNIQUE (slug, version)` this gives the
numbering and the difference between neighbours, however many builds race. The rest holds of builds that run one at a time,
by `AloneInv`: every published file is finished, every row names a file with its content, and unless a file is lost the latest two
are served (`SlugOK`); a build works after the latest row, under a temporary name and on a file that are its own, and writes a
version that is announced already only if its file was lost (`WorkOK`: else `Rename` would take a file from under its row);
and one during which nothing else happened has collected what the sources hold, and left the packs behind it current
(`QuietOK`). Slugs must differ: a pack published twice by a build would be judged by rows collected for the other source.

*Feed.* `FeedInv` says where the client is: of the steady items it has those down to its cursor (`ShownToCursor`), and
with the page being built those down to `next` (`PageToNext`); steady items still match the request in the cursor's language
(`SteadyVisible`), and rows move from `rest` to `out` without loss (`PageOnce`). The arrangement needs `AnchorsOK`
(what comes first is a verse and then a Sabbath School item) and `RestInOrder` (rows are newest first, and none is
from a later day than "today", because the clock does not go back between the query and `arrangeFeed`).

*Account.* `AccountInv` says that nobody knows a user without a row (`KnownHasRow`: the entry is stored after the upsert), and
that a PATCH which none has overtaken has read what the user chose (`ReadsKept`), so that what it writes back is that.

*Import.* `IngestInv` says that of the transactions past their upsert at most one is of a translation (`AloneOK`: the row lock of
the upsert), so that what each has read is still there when it commits (`TxOK`: the row it upserted, the verses it will
delete), and that what it is about to copy is its archive's text. Hence `Commit` replaces a text as a whole, and every text a
reader can see at all is empty or one archive's (`PossibleTexts`): this uses that `Parse` has a value for every file, which is
shown by folding it (`FoldExists`).

*Parser.* `ParseReturns` gives what `Parse`, which reads tokens from left to right, returns for every file that is not refused:
the verses of `Returned`, a definition over the places of the whole file that removes what the code's patterns remove. Its invariant
`StateIs` gives each variable of the parser after place `i` in terms of
the places up to `i`: the line that is open there and whether its first marker skips it (`LineIs`), the latest book, chapter and verse
marker that were read (`PlaceIs`), the verses so far with their words so far (`OutAt`), and that each of them has a book and a chapter
(`Placed`). A step adds the greatest place to such a set or none, so a sequence in order (`InOrder`) grows at its end or not at
all (`ArrangedAdd`, `ArrangedLast`). Induction over places is an argument about the least place where the invariant fails (`UpTo`),
as the library's induction theorems are out of reach. `ReferenceIs` says that in a well-formed file `Reference`, which goes by
the kinds of notes and by headings wherever they stand, is the same: what the patterns remove is the notes (`NotesAreRemoved`),
and headings begin their lines (`HeadingsBegin`, `LinesAreRead`). The two give `ParseIsReference`, and `FirstIsKept` does
the filter of the import.

*Reader and search.* `ReaderInv` says of every request what of a chapter it has, and that `seen` holds every text that was committed
since it came: each statement reads a text in `seen` with the chapter cut to an int32 (`Int32Same`: what it is, for a number that holds),
and `ByVerse` puts its verses in the one order there is (`Sorted`: verse numbers of a chapter differ). `SearchInv` says of the groups collected so far what `TypedVerseOnce` and `SnippetShowsMatch`
say of the answer, and `FirstOK` that a typed verse which has stood since the request came was found, and is the first
hit of the Bible's group once that is made (what stands at the end of a step stood before it: `StillStood`); `HitFits` bounds `Snippet` for a text of any length and a match at any place, the ends included.

*Library.* `CallsInv` says which statements each kind of request goes through, as calls are records of one shape. `AnswersInv`
says that an open answer has seen only rows of its question (`SawOK`), and that one which nothing has disturbed is the only answer
to its question and has seen all rows there are (`AloneOK`), so that it sets all of them, or inserts the only one (`OneRow`).
`ContentInv` says that what a request has found was published in a content that there was since it came; that the
lists with `ORDER BY` exist and are of the rows selected is `InOrderExists`, and `LevelOrderExists` where rows may stand level.
`AnswersAreTheContent` needs `ExactInv`: while a request has seen one content only, and its numbers hold in an int32 (`Still`),
what it has found is what its queries find there (`Finds`), and its answer is right (`IsExact`); a request in progress at an edit
has seen two. There is a lemma for each of the twelve answers: `BooksRead`, `CoursesRead`, `BeliefsRead`, `HymnalsRead` and `HymnsRead`
for the lists (`LimitedIs` for what the limit leaves), `ChapterRead`, `WeekRead`, `BeliefRead`, `HymnRead`, `ItemRead`, `LessonRead` and
`VerdictRead` for the rest. That nothing is found only where there is nothing is
`NoChapter`, `NoHymnal`, `HymnFound`, `WeekFound`, `LessonFound`, `OptionFound` and `ItemFound`; `RefusalIsRight` is about
what is refused before any query. They rest on `ContentAssumption`, which is what
`00001_init.sql:52-127` makes the tables keep: ids, one edition of a book in a language, codes of hymnals, numbers in a hymnal and in a course are keys;
paragraphs have an edition; texts and languages are not null; beliefs are numbered from 1 to 28; orders, days and weeks are numbers.
Titles and codes, which lists are ordered by, are numbers in the order of the collation. The order of paragraphs, links and options is not a key, and rows may share it.

*Deploy.* `SchemaReady` is not inductive: a deploy links its release later than it migrates, and links back what it read
before. `ReadyInv` adds that a deploy past its migration has it in the schema, and that whatever it read, linked or runs has too; it is
kept because the schema never goes back. `OutcomeIsTrue` follows from `Orderly => Tidy`: while deploys have not overlapped and
no `ln` has failed, at most one is active and its release is the newest on disk, `current` and `current.tmp` are where its
last command has put them, and what it may go back to has not been pruned.

*Only model-checked*: the liveness properties, which are out of the prover's reach. Every invariant and action property of the
passing runs is the property of a theorem.

## Not modelled, and why

- *Token verification* (`auth.go`) is the JWT library's; what is left is a pure function of the token. Tokens are the input of `Account`.
- *Middleware, CORS, timeouts, logging* are `net/http` and chi. `cmd/api` is in `Deploy` as far as it starts, serves, stops and crashes.
- *The pack file handler*: `Packs` has what it serves, the file under the published name; the pattern of names and the headers are left out.
- *Migrations*: `up` is a command of `Deploy`; `down`, `redo` and `reset` are run by hand and no procedure describes when. What the tables enforce
  (keys, defaults) is in the modules that use them.
- *The deploy script's local half* (building, the one-time setup, `--env`): it changes nothing that the server's half reads later except
  the directory of the release, which `Upload` adds.
- *Generated code* (`internal/api`, `internal/store`): the queries are modelled where they are called and mapped there; decoding of
  requests and the encoding of answers only copy.
- *PostgreSQL* is modelled as far as the code relies on it: READ COMMITTED statements, row locks, unique keys, `now()`, advisory locks,
  deadlock detection. Ranks of search results are any order; trigram similarity is a constant relation.

## Plan

Done, in this order because user data comes first, then what is published to every client, then what every
request passes, then what writes and reads the texts, and what puts a release in place: `LwwStore`, `Sync`, `Packs`, `Likes`, `Feed`, `Account`,
`Usfm`, `TextStore`, `Ingest`, `Bible`, `Search`, `Library`, `Deploy`, and the proofs about them.
What the runs check besides liveness is proved.
