-------------------------------- MODULE Packs --------------------------------
(***************************************************************************)
(* The offline packs (internal/packs/build.go, db/queries/packs.sql): a    *)
(* build collects the source rows of every pack, one statement at a time,  *)
(* and then publishes pack after pack. It compares the content with the    *)
(* latest row of the table packs, writes a SQLite file under a temporary   *)
(* name, renames it to <slug>-v<version>.sqlite, records its digest in the *)
(* row that GET /v1/packs lists, and removes the versions nobody needs.    *)
(*                                                                         *)
(* Nothing keeps two builds apart (deploy.sh runs one, an operator may run *)
(* another), a build may fail or be killed at any step, an import may      *)
(* commit between two statements of a build, and files may be lost.        *)
(***************************************************************************)
EXTENDS Integers, Sequences, FiniteSets

CONSTANTS
  Builders,                 \* runs of cmd/packs
  Order,                    \* the slugs, in the order collect visits them
  Texts,                    \* contents a source may have
  NoText,                   \* a source without rows
  MaxVersion, MaxFile,      \* bounds of a run: versions of a pack, files ever written
  MaxImport, MaxLoss,       \* and imports and lost files
  NoPack, NoFile

Slugs    == {Order[i] : i \in DOMAIN Order}
Versions == 1 .. MaxVersion
Files    == 1 .. MaxFile    \* inodes; two of them never have the same bytes (built_at)

ASSUME PacksAssumption ==
  /\ Order \in Seq(Slugs) /\ Order # <<>>
  /\ \A i, j \in DOMAIN Order : Order[i] = Order[j] => i = j    \* codes are unique (00001_init.sql)
  /\ MaxVersion \in Nat /\ MaxFile \in Nat /\ MaxImport \in Nat /\ MaxLoss \in Nat
  /\ NoText \notin Texts
  /\ NoFile \notin Files

VARIABLES
  source,    \* the rows a pack is built from
  packs,     \* the table packs: version, content hash, digest of the file
  dir,       \* the files under their published names
  tmp,       \* the files under their temporary names
  content,   \* what the writer of a file puts in it
  full,      \* the files that were written to the end
  phase,     \* where a build is
  want,      \* the slugs it builds
  pos,       \* its next statement, then its next slug
  spec,      \* the rows it collected
  latest,    \* the row LatestPack returned
  ino,       \* the file it writes
  sum,       \* the digest it took
  imports, losses,  \* what happened to the sources and the disk so far
  quiet,     \* builds during which nothing else happened
  overlapped \* whether two builds ever ran at the same time

buildVars == <<phase, want, pos, spec, latest, ino, sum>>
fileVars  == <<dir, tmp, content, full>>
envVars   == <<source, imports, losses, quiet, overlapped>>
vars      == <<source, packs, dir, tmp, content, full, phase, want, pos, spec, latest, ino, sum,
               imports, losses, quiet, overlapped>>

Text   == Texts \cup {NoText}
Hash   == Text \X Text      \* a pack's rows come from two statements: verses and books
Digest == [file : Files, full : BOOLEAN]
Pack   == [version : Versions, hash : Hash, sha : Digest]
Phases == {"idle", "collect", "publish", "check", "rewrite", "new", "fill", "rename", "unlink",
           "digest", "record", "prune", "done"}

ASSUME NoPackAssumption == NoPack \notin Pack

NoHash   == <<NoText, NoText>>
NoDigest == [file |-> 0, full |-> FALSE]

TypeOK ==
  /\ source \in [Slugs -> Text]
  /\ packs \in [Slugs -> SUBSET Pack]
  /\ dir \in [Slugs -> [Versions -> Files \cup {NoFile}]]
  /\ tmp \in [Slugs -> [Versions -> Files \cup {NoFile}]]
  /\ content \in [Files -> Hash]
  /\ full \in SUBSET Files
  /\ phase \in [Builders -> Phases]
  /\ want \in [Builders -> SUBSET Slugs]
  /\ pos \in [Builders -> Nat \ {0}]
  /\ spec \in [Builders -> [Slugs -> Hash]]
  /\ latest \in [Builders -> Pack \cup {NoPack}]
  /\ ino \in [Builders -> Files \cup {NoFile}]
  /\ sum \in [Builders -> Digest \cup {NoDigest}]
  /\ imports \in Nat /\ losses \in Nat
  /\ quiet \in SUBSET Builders /\ overlapped \in BOOLEAN

Init ==
  /\ source = [s \in Slugs |-> NoText]
  /\ packs = [s \in Slugs |-> {}]
  /\ dir = [s \in Slugs |-> [v \in Versions |-> NoFile]]
  /\ tmp = dir
  /\ content = [i \in Files |-> NoHash]
  /\ full = {}
  /\ phase = [b \in Builders |-> "idle"]
  /\ want = [b \in Builders |-> {}]
  /\ pos = [b \in Builders |-> 1]
  /\ spec = [b \in Builders |-> [s \in Slugs |-> NoHash]]
  /\ latest = [b \in Builders |-> NoPack]
  /\ ino = [b \in Builders |-> NoFile]
  /\ sum = [b \in Builders |-> NoDigest]
  /\ imports = 0 /\ losses = 0
  /\ quiet = {} /\ overlapped = FALSE

-----------------------------------------------------------------------------
(* What a build computes. *)

Goto(b, p) == phase' = [phase EXCEPT ![b] = p]
Busy(b)    == phase[b] \notin {"idle", "done"}

SlugOf(b)   == Order[pos[b]]
SpecOf(b)   == spec[b][SlugOf(b)]
HasSpec(b)  == SpecOf(b) # NoHash

\* The content is that of the latest version: its file is kept, or written again.
Unchanged(b) == latest[b] # NoPack /\ latest[b].hash = SpecOf(b)
VersionOf(b) == IF latest[b] = NoPack THEN 1
                ELSE IF Unchanged(b) THEN latest[b].version ELSE latest[b].version + 1

FileAt(b) == dir[SlugOf(b)][VersionOf(b)]
TmpAt(b)  == tmp[SlugOf(b)][VersionOf(b)]
Sha(i)    == [file |-> i, full |-> i \in full]

WithoutTmp(b) == [tmp EXCEPT ![SlugOf(b)][VersionOf(b)] = NoFile]

\* SELECT ... ORDER BY version DESC LIMIT 1.
IsLatest(s, p) == p \in packs[s] /\ \A q \in packs[s] : q.version =< p.version

-----------------------------------------------------------------------------
(* The world around a build. *)

\* cmd/ingest replaces the rows of a source in one transaction.
Import(s, t) ==
  /\ imports < MaxImport
  /\ source' = [source EXCEPT ![s] = t]
  /\ imports' = imports + 1
  /\ quiet' = {}
  /\ UNCHANGED <<packs, fileVars, buildVars, losses, overlapped>>

\* A published file disappears (new host, disk loss).
LoseFile(s, v) ==
  /\ losses < MaxLoss
  /\ dir[s][v] # NoFile
  /\ dir' = [dir EXCEPT ![s][v] = NoFile]
  /\ losses' = losses + 1
  /\ quiet' = {}
  /\ UNCHANGED <<source, packs, tmp, content, full, buildVars, imports, overlapped>>

-----------------------------------------------------------------------------
(* Build: collect, then publish. *)

\* Every pack, or the one that --only names.
Start(b, slugs) ==
  /\ ~Busy(b)
  /\ slugs = Slugs \/ \E s \in Slugs : slugs = {s}
  /\ Goto(b, "collect")
  /\ want' = [want EXCEPT ![b] = slugs]
  /\ LET alone == \A c \in Builders : ~Busy(c)
     IN  /\ quiet' = IF alone THEN {b} ELSE {}
         /\ overlapped' = (overlapped \/ ~alone)
  /\ UNCHANGED <<source, packs, fileVars, pos, spec, latest, ino, sum, imports, losses>>

\* The two statements of a pack, each with a snapshot of its own; a source
\* without rows never becomes a pack.
ReadRows(b) ==
  LET s     == Order[(pos[b] + 1) \div 2]
      first == pos[b] % 2 = 1
      last  == pos[b] = 2 * Len(Order)
  IN  /\ phase[b] = "collect"
      /\ spec' = IF s \notin want[b] THEN spec
                 ELSE IF first THEN [spec EXCEPT ![b][s] = <<source[s], NoText>>]
                 ELSE IF spec[b][s][1] # NoText THEN [spec EXCEPT ![b][s] = <<@[1], source[s]>>]
                 ELSE spec
      /\ pos' = [pos EXCEPT ![b] = IF last THEN 1 ELSE @ + 1]
      /\ Goto(b, IF last THEN "publish" ELSE "collect")
      /\ UNCHANGED <<packs, fileVars, want, latest, ino, sum, envVars>>

\* publish returns, and its variables are gone.
Return(b) ==
  /\ latest' = [latest EXCEPT ![b] = NoPack]
  /\ ino' = [ino EXCEPT ![b] = NoFile]
  /\ sum' = [sum EXCEPT ![b] = NoDigest]

NextSlug(b) ==
  /\ pos' = [pos EXCEPT ![b] = @ + 1]
  /\ Goto(b, "publish")
  /\ Return(b)

\* The build returns, or its process is gone.
End(b, p) ==
  /\ pos' = [pos EXCEPT ![b] = 1]
  /\ spec' = [spec EXCEPT ![b] = [s \in Slugs |-> NoHash]]
  /\ Goto(b, p)
  /\ Return(b)

Skip(b) ==
  /\ phase[b] = "publish" /\ pos[b] =< Len(Order) /\ ~HasSpec(b)
  /\ NextSlug(b)
  /\ UNCHANGED <<packs, fileVars, want, spec, envVars>>

Finish(b) ==
  /\ phase[b] = "publish" /\ pos[b] > Len(Order)
  /\ End(b, "done")
  /\ UNCHANGED <<packs, fileVars, want, envVars>>

-----------------------------------------------------------------------------
(* publish *)

LatestPack(b) ==
  /\ phase[b] = "publish" /\ pos[b] =< Len(Order) /\ HasSpec(b)
  /\ \/ packs[SlugOf(b)] = {} /\ latest' = [latest EXCEPT ![b] = NoPack]
     \/ \E p \in packs[SlugOf(b)] : IsLatest(SlugOf(b), p) /\ latest' = [latest EXCEPT ![b] = p]
  /\ Goto(b, "check")
  /\ UNCHANGED <<packs, fileVars, want, pos, spec, ino, sum, envVars>>

\* The file is there and has the recorded digest.
IntactIfThere(b) == FileAt(b) # NoFile
Intact(b) == FileAt(b) # NoFile /\ Sha(FileAt(b)) = latest[b].sha

\* "unchanged".
Keep(b) ==
  /\ phase[b] = "check" /\ Unchanged(b) /\ Intact(b)
  /\ NextSlug(b)
  /\ UNCHANGED <<packs, fileVars, want, spec, envVars>>

\* os.Remove(tmp) and sql.Open: a file of its own under the shared temporary name.
Open(b) ==
  /\ phase[b] = "check" /\ ~(Unchanged(b) /\ Intact(b))
  /\ VersionOf(b) =< MaxVersion
  /\ \E i \in Files :
       /\ content[i] = NoHash /\ \A j \in Files : j < i => content[j] # NoHash
       /\ tmp' = [tmp EXCEPT ![SlugOf(b)][VersionOf(b)] = i]
       /\ content' = [content EXCEPT ![i] = SpecOf(b)]
       /\ ino' = [ino EXCEPT ![b] = i]
  /\ Goto(b, "fill")
  /\ UNCHANGED <<packs, dir, full, want, pos, spec, latest, sum, envVars>>

Fill(b) ==
  /\ phase[b] = "fill"
  /\ full' = full \cup {ino[b]}
  /\ Goto(b, "rename")
  /\ UNCHANGED <<packs, dir, tmp, content, want, pos, spec, latest, ino, sum, envVars>>

\* The file under the temporary name is there, and this build is done with its own.
RenamesEarly(b) == phase[b] = "fill" /\ TmpAt(b) # NoFile
Renames(b) == phase[b] = "rename" /\ TmpAt(b) # NoFile

\* os.Rename(tmp, path) moves whatever file the name tmp has by now.
Rename(b) ==
  /\ Renames(b)
  /\ dir' = [dir EXCEPT ![SlugOf(b)][VersionOf(b)] = TmpAt(b)]
  /\ tmp' = WithoutTmp(b)
  /\ Goto(b, "unlink")
  /\ UNCHANGED <<packs, content, full, want, pos, spec, latest, ino, sum, envVars>>

\* The deferred os.Remove(tmp) of write, and then fileDigest.
AfterWriteRecord == "record"
AfterWrite == "digest"

Unlink(b) ==
  /\ phase[b] = "unlink"
  /\ tmp' = WithoutTmp(b)
  /\ Goto(b, AfterWrite)
  /\ UNCHANGED <<packs, dir, content, full, want, pos, spec, latest, ino, sum, envVars>>

FileDigest(b) ==
  /\ phase[b] = "digest"
  /\ FileAt(b) # NoFile
  /\ sum' = [sum EXCEPT ![b] = Sha(FileAt(b))]
  /\ Goto(b, "record")
  /\ UNCHANGED <<packs, fileVars, want, pos, spec, latest, ino, envVars>>

\* UNIQUE (slug, version): a second InsertPack of a version fails.
InsertTwice(b) == phase[b] = "record" /\ ~Unchanged(b)
Inserts(b) ==
  /\ phase[b] = "record" /\ ~Unchanged(b)
  /\ \A p \in packs[SlugOf(b)] : p.version # VersionOf(b)

InsertPack(b) ==
  /\ Inserts(b)
  /\ packs' = [packs EXCEPT ![SlugOf(b)] =
                 @ \cup {[version |-> VersionOf(b), hash |-> SpecOf(b), sha |-> sum[b]]}]
  /\ Goto(b, "prune")
  /\ UNCHANGED <<fileVars, want, pos, spec, latest, ino, sum, envVars>>

\* "rewritten": the row keeps its version and gets the digest of the new file.
UpdatePackFile(b) ==
  /\ phase[b] = "record" /\ Unchanged(b)
  /\ packs' = [packs EXCEPT ![SlugOf(b)] =
                 {IF p.version = latest[b].version THEN [p EXCEPT !.sha = sum[b]] ELSE p : p \in @}]
  /\ NextSlug(b)
  /\ UNCHANGED <<fileVars, want, spec, envVars>>

\* The latest two versions stay on disk.
PrunedAll(version)  == {v \in Versions : v < version}
Pruned(version) == {v \in Versions : v =< version - 2}

Prune(b) ==
  /\ phase[b] = "prune"
  /\ dir' = [dir EXCEPT ![SlugOf(b)] =
               [v \in Versions |-> IF v \in Pruned(VersionOf(b)) THEN NoFile ELSE @[v]]]
  /\ NextSlug(b)
  /\ UNCHANGED <<packs, tmp, content, full, want, spec, envVars>>

\* An error ends the build, and with it the packs it had not reached; write
\* removes its temporary file. A killed build leaves it.
Fail(b) ==
  /\ Busy(b)
  /\ End(b, "idle")
  /\ tmp' = IF phase[b] \in {"fill", "rename", "unlink"} THEN WithoutTmp(b) ELSE tmp
  /\ UNCHANGED <<packs, dir, content, full, want, envVars>>

Kill(b) ==
  /\ Busy(b)
  /\ End(b, "idle")
  /\ UNCHANGED <<packs, fileVars, want, envVars>>

Build(b) ==
  \/ ReadRows(b) \/ Skip(b) \/ Finish(b) \/ LatestPack(b) \/ Keep(b) \/ Open(b) \/ Fill(b)
  \/ Rename(b) \/ Unlink(b) \/ FileDigest(b) \/ InsertPack(b) \/ UpdatePackFile(b) \/ Prune(b)

Next ==
  \/ \E s \in Slugs, t \in Texts : Import(s, t)
  \/ \E s \in Slugs, v \in Versions : LoseFile(s, v)
  \/ \E b \in Builders :
       \/ \E slugs \in SUBSET Slugs : Start(b, slugs)
       \/ Build(b) \/ Fail(b) \/ Kill(b)

Spec == Init /\ [][Next]_vars

-----------------------------------------------------------------------------
(* Properties. *)

\* The versions of a pack are numbered without gaps or doubles, and a new
\* version has another content than the one before it, however many builds
\* race from the same LatestPack row (build.go:255-300, UNIQUE (slug, version)).
VersionsOK ==
  \A s \in Slugs : \A p, q \in packs[s] :
    /\ p.version = q.version => p = q
    /\ p.version > 1 => \E o \in packs[s] : o.version = p.version - 1 /\ o.hash # p.hash

\* A build that nothing disturbed leaves every pack it was asked for current:
\* the latest row describes the source, and its file is there and has its
\* digest, whatever earlier builds died of and whichever files were lost
\* (build.go:262-279).
BuildConverges ==
  ~overlapped => \A b \in quiet : phase[b] = "done" =>
    \A s \in want[b] : source[s] # NoText =>
      \E p \in packs[s] :
        /\ IsLatest(s, p)
        /\ p.hash = <<source[s], source[s]>>
        /\ dir[s][p.version] # NoFile
        /\ Sha(dir[s][p.version]) = p.sha
        /\ content[dir[s][p.version]] = p.hash

\* A file under a published name is whole: it was built under a temporary name
\* and renamed (build.go:317), as long as builds run one at a time. Builds that
\* overlap share the temporary name and may publish each other's half of a file.
FilesWholeAlone ==
  ~overlapped => \A s \in Slugs, v \in Versions : dir[s][v] # NoFile => dir[s][v] \in full

\* A client that read the manifest can finish its download: the files of the
\* latest two rows are on disk with the digest their rows announce, at every
\* step of a build and after a build that died (build.go:302-315).
LatestTwoServed ==
  ~overlapped /\ losses = 0 =>
    \A s \in Slugs : \A p, q \in packs[s] :
      IsLatest(s, q) /\ p.version >= q.version - 1 =>
        dir[s][p.version] # NoFile /\ Sha(dir[s][p.version]) = p.sha

-----------------------------------------------------------------------------
(* The inductive invariant behind VersionsOK. *)

Writing    == {"fill", "rename", "unlink", "digest", "record", "prune"}
Publishing == {"check"} \cup Writing

\* A build works on a slug of the list, from a row that was read earlier but is
\* still in the table with that version and content.
BuildOK(b) ==
  /\ ~Busy(b) => pos[b] = 1
  /\ phase[b] = "collect" => pos[b] =< 2 * Len(Order)
  /\ phase[b] \in Publishing =>
       /\ pos[b] =< Len(Order)
       /\ latest[b] # NoPack => \E p \in packs[SlugOf(b)] :
            p.version = latest[b].version /\ p.hash = latest[b].hash
  /\ phase[b] \in Writing => VersionOf(b) \in Versions
  /\ phase[b] = "fill" => ino[b] \in Files
  /\ phase[b] = "record" => sum[b] \in Digest

PacksInv == \A b \in Builders : BuildOK(b)
=============================================================================
