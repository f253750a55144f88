----------------------------- MODULE PacksProofs -----------------------------
(***************************************************************************)
(* Proofs about Packs, for any builders, packs and contents, and any       *)
(* bounds: however builds overlap, fail and restart.                       *)
(***************************************************************************)
EXTENDS Packs, TLAPS

BuildInv == TypeOK /\ PacksInv

\* The variables of build b keep their values.
Rests(b) ==
  /\ phase'[b] = phase[b] /\ pos'[b] = pos[b] /\ spec'[b] = spec[b]
  /\ latest'[b] = latest[b] /\ ino'[b] = ino[b] /\ sum'[b] = sum[b]

\* No row goes away or changes its version or content.
RowsStay ==
  \A s \in Slugs : \A p \in packs[s] :
    \E q \in packs'[s] : q.version = p.version /\ q.hash = p.hash

LEMMA ListLength == Len(Order) \in Nat \ {0}
BY PacksAssumption

LEMMA SlugType ==
  ASSUME NEW i \in 1 .. Len(Order)
  PROVE  Order[i] \in Slugs
BY PacksAssumption DEF Slugs

LEMMA HashType == NoHash \in Hash /\ \A t, u \in Text : <<t, u>> \in Hash
BY DEF NoHash, Hash, Text

LEMMA ShaType == ASSUME NEW i \in Files PROVE Sha(i) \in Digest
BY DEF Sha, Digest

\* What a build that publishes works on.
LEMMA PublishTypes ==
  ASSUME TypeOK, NEW b \in Builders, pos[b] =< Len(Order)
  PROVE  /\ SlugOf(b) \in Slugs
         /\ SpecOf(b) \in Hash
         /\ latest[b] # NoPack => latest[b] \in Pack
         /\ VersionOf(b) \in Nat \ {0}
<1>1. pos[b] \in 1 .. Len(Order)
  BY ListLength DEF TypeOK
<1>2. SlugOf(b) \in Slugs
  BY <1>1, SlugType DEF SlugOf
<1>3. SpecOf(b) \in Hash
  BY <1>2 DEF SpecOf, TypeOK
<1>4. latest[b] # NoPack => latest[b] \in Pack
  BY DEF TypeOK
<1>5. VersionOf(b) \in Nat \ {0}
  BY <1>4 DEF VersionOf, Pack, Versions
<1> QED BY <1>2, <1>3, <1>4, <1>5

\* A build that rests is not disturbed by a step that keeps the rows.
LEMMA RestingOK ==
  ASSUME BuildInv, RowsStay, NEW b \in Builders, Rests(b)
  PROVE  BuildOK(b)'
<1>1. BuildOK(b)
  BY DEF BuildInv, PacksInv
<1>2. SlugOf(b)' = SlugOf(b) /\ SpecOf(b)' = SpecOf(b) /\ VersionOf(b)' = VersionOf(b)
  BY DEF Rests, SlugOf, SpecOf, VersionOf, Unchanged
<1>3. ASSUME phase[b] \in Publishing, latest[b] # NoPack
      PROVE  \E p \in packs'[SlugOf(b)] : p.version = latest[b].version /\ p.hash = latest[b].hash
  <2>1. SlugOf(b) \in Slugs
    BY <1>1, <1>3, PublishTypes DEF BuildInv, BuildOK
  <2>2. PICK p \in packs[SlugOf(b)] : p.version = latest[b].version /\ p.hash = latest[b].hash
    BY <1>1, <1>3 DEF BuildOK
  <2> QED BY <2>1, <2>2 DEF RowsStay
<1> QED BY <1>1, <1>2, <1>3 DEF BuildOK, Busy, Rests

LEMMA InitInv == Init => BuildInv
<1> SUFFICES ASSUME Init PROVE BuildInv
  OBVIOUS
<1>1. spec \in [Builders -> [Slugs -> Hash]] /\ content \in [Files -> Hash]
  BY HashType DEF Init
<1>2. dir \in [Slugs -> [Versions -> Files \cup {NoFile}]] /\ tmp = dir
  BY DEF Init
<1>3. source \in [Slugs -> Text] /\ packs \in [Slugs -> SUBSET Pack]
  BY DEF Init, Text
<1>4. phase \in [Builders -> Phases] /\ pos \in [Builders -> Nat \ {0}]
  BY DEF Init, Phases
<1>5. want \in [Builders -> SUBSET Slugs] /\ quiet \in SUBSET Builders /\ full \in SUBSET Files
  BY DEF Init
<1>6. /\ latest \in [Builders -> Pack \cup {NoPack}]
      /\ ino \in [Builders -> Files \cup {NoFile}]
      /\ sum \in [Builders -> Digest \cup {NoDigest}]
  BY DEF Init
<1>7. imports \in Nat /\ losses \in Nat
  BY DEF Init
<1>8. overlapped \in BOOLEAN
  BY DEF Init
<1>9. TypeOK
  BY <1>1, <1>2, <1>3, <1>4, <1>5, <1>6, <1>7, <1>8 DEF TypeOK
<1>10. PacksInv
  BY DEF Init, PacksInv, BuildOK, Busy, Publishing, Writing
<1> QED BY <1>9, <1>10 DEF BuildInv

-----------------------------------------------------------------------------
(* Types. *)

\* The variables of the environment and of the disk have their types.
EnvOK ==
  /\ source \in [Slugs -> Text] /\ imports \in Nat /\ losses \in Nat
  /\ quiet \in SUBSET Builders /\ overlapped \in BOOLEAN
DiskOK ==
  /\ dir \in [Slugs -> [Versions -> Files \cup {NoFile}]]
  /\ tmp \in [Slugs -> [Versions -> Files \cup {NoFile}]]
  /\ content \in [Files -> Hash]
  /\ full \in SUBSET Files
LocalsOK ==
  /\ phase \in [Builders -> Phases]
  /\ want \in [Builders -> SUBSET Slugs]
  /\ pos \in [Builders -> Nat \ {0}]
  /\ spec \in [Builders -> [Slugs -> Hash]]
  /\ latest \in [Builders -> Pack \cup {NoPack}]
  /\ ino \in [Builders -> Files \cup {NoFile}]
  /\ sum \in [Builders -> Digest \cup {NoDigest}]
RowsOK == packs \in [Slugs -> SUBSET Pack]

LEMMA TypeParts == TypeOK <=> EnvOK /\ DiskOK /\ LocalsOK /\ RowsOK
BY DEF TypeOK, EnvOK, DiskOK, LocalsOK, RowsOK

LEMMA LocalsStep ==
  ASSUME BuildInv, NEW b \in Builders, Build(b) \/ Fail(b) \/ Kill(b)
  PROVE  LocalsOK'
<1> USE TypeParts DEF BuildInv, LocalsOK
<1> USE DEF Goto, Phases
<1>0. BuildOK(b)
  BY DEF PacksInv
<1>1. CASE ReadRows(b)
  <2> DEFINE s == Order[(pos[b] + 1) \div 2]
  <2>1. pos[b] \in 1 .. 2 * Len(Order)
    BY <1>0, <1>1, ListLength DEF ReadRows, BuildOK
  <2>2. (pos[b] + 1) \div 2 \in 1 .. Len(Order)
    BY <2>1, ListLength
  <2>3. s \in Slugs
    BY <2>2, SlugType
  <2>4. source[s] \in Text /\ NoText \in Text
    BY <2>3 DEF EnvOK, Text
  <2>5. <<source[s], NoText>> \in Hash
    BY <2>4, HashType
  <2>6. <<spec[b][s][1], source[s]>> \in Hash
    BY <2>3, <2>4, HashType DEF Hash
  <2>7. spec' \in [Builders -> [Slugs -> Hash]]
    BY <1>1, <2>3, <2>5, <2>6 DEF ReadRows
  <2> QED BY <1>1, <2>1, <2>7 DEF ReadRows
<1>2. CASE Skip(b) \/ Keep(b) \/ UpdatePackFile(b) \/ Prune(b)
  <2>1. NextSlug(b) /\ want' = want /\ spec' = spec
    BY <1>2 DEF Skip, Keep, UpdatePackFile, Prune
  <2> QED BY <2>1 DEF NextSlug, Return
<1>3. CASE Finish(b) \/ Fail(b) \/ Kill(b)
  <2>1. PICK p \in {"idle", "done"} : End(b, p) /\ want' = want
    BY <1>3 DEF Finish, Fail, Kill
  <2>2. [t \in Slugs |-> NoHash] \in [Slugs -> Hash]
    BY HashType
  <2> QED BY <2>1, <2>2 DEF End, Return
<1>4. CASE LatestPack(b)
  <2>1. SlugOf(b) \in Slugs
    BY <1>4, PublishTypes DEF LatestPack
  <2>2. packs[SlugOf(b)] \subseteq Pack
    BY <2>1 DEF RowsOK
  <2>3. latest' \in [Builders -> Pack \cup {NoPack}]
    BY <1>4, <2>2 DEF LatestPack
  <2>4. phase' \in [Builders -> Phases]
    BY <1>4 DEF LatestPack
  <2> QED BY <1>4, <2>3, <2>4 DEF LatestPack
<1>5. CASE Open(b)
  BY <1>5 DEF Open
<1>6. CASE Fill(b) \/ Rename(b) \/ Unlink(b) \/ InsertPack(b)
  BY <1>6 DEF Fill, Rename, Unlink, InsertPack, AfterWrite
<1>7. CASE FileDigest(b)
  <2>1. SlugOf(b) \in Slugs /\ VersionOf(b) \in Versions
    BY <1>0, <1>7, PublishTypes DEF FileDigest, BuildOK, Publishing, Writing
  <2>2. FileAt(b) \in Files
    BY <1>7, <2>1 DEF FileDigest, FileAt, DiskOK
  <2> QED BY <1>7, <2>2, ShaType DEF FileDigest
<1> QED BY <1>1, <1>2, <1>3, <1>4, <1>5, <1>6, <1>7 DEF Build

LEMMA DiskStep ==
  ASSUME BuildInv, NEW b \in Builders, Build(b) \/ Fail(b) \/ Kill(b)
  PROVE  DiskOK'
<1> USE TypeParts DEF BuildInv, DiskOK
<1>0. BuildOK(b)
  BY DEF PacksInv
<1>1. WithoutTmp(b) \in [Slugs -> [Versions -> Files \cup {NoFile}]]
  BY DEF WithoutTmp
<1>2. CASE Open(b)
  <2>1. SpecOf(b) \in Hash
    BY <1>0, <1>2, PublishTypes DEF Open, BuildOK, Publishing
  <2>2. PICK i \in Files : /\ tmp' = [tmp EXCEPT ![SlugOf(b)][VersionOf(b)] = i]
                           /\ content' = [content EXCEPT ![i] = SpecOf(b)]
    BY <1>2 DEF Open
  <2>3. tmp' \in [Slugs -> [Versions -> Files \cup {NoFile}]]
    BY <2>2
  <2>4. content' \in [Files -> Hash]
    BY <2>1, <2>2
  <2> QED BY <1>2, <2>3, <2>4 DEF Open
<1>3. CASE Fill(b)
  BY <1>0, <1>3 DEF Fill, BuildOK
<1>4. CASE Rename(b)
  <2>1. SlugOf(b) \in Slugs /\ VersionOf(b) \in Versions
    BY <1>0, <1>4, PublishTypes DEF Rename, Renames, BuildOK, Publishing, Writing
  <2>2. TmpAt(b) \in Files
    BY <1>4, <2>1 DEF Rename, Renames, TmpAt
  <2> QED BY <1>1, <1>4, <2>2 DEF Rename
<1>5. CASE Unlink(b)
  BY <1>1, <1>5 DEF Unlink
<1>6. CASE Fail(b)
  BY <1>1, <1>6 DEF Fail
<1>7. CASE Prune(b)
  <2>1. SlugOf(b) \in Slugs
    BY <1>0, <1>7, PublishTypes DEF Prune, BuildOK, Publishing, Writing
  <2>2. [v \in Versions |-> IF v \in Pruned(VersionOf(b)) THEN NoFile ELSE dir[SlugOf(b)][v]]
          \in [Versions -> Files \cup {NoFile}]
    BY <2>1
  <2>3. dir' = [dir EXCEPT ![SlugOf(b)] =
          [v \in Versions |-> IF v \in Pruned(VersionOf(b)) THEN NoFile ELSE dir[SlugOf(b)][v]]]
    BY <1>7, <2>1 DEF Prune
  <2> QED BY <1>7, <2>2, <2>3 DEF Prune
<1>8. CASE UNCHANGED fileVars
  BY <1>8 DEF fileVars
<1> QED
  BY <1>2, <1>3, <1>4, <1>5, <1>6, <1>7, <1>8
  DEF Build, ReadRows, Skip, Finish, LatestPack, Keep, FileDigest, InsertPack, UpdatePackFile, Kill

LEMMA RowsStep ==
  ASSUME BuildInv, NEW b \in Builders, Build(b) \/ Fail(b) \/ Kill(b)
  PROVE  RowsOK' /\ RowsStay
<1> USE TypeParts DEF BuildInv, RowsOK
<1>0. BuildOK(b)
  BY DEF PacksInv
<1>1. CASE InsertPack(b) \/ UpdatePackFile(b)
  <2> DEFINE s == SlugOf(b)
             row == [version |-> VersionOf(b), hash |-> SpecOf(b), sha |-> sum[b]]
             rewritten(p) == IF p.version = latest[b].version THEN [p EXCEPT !.sha = sum[b]] ELSE p
  <2>1. /\ s \in Slugs
        /\ SpecOf(b) \in Hash
        /\ VersionOf(b) \in Versions
        /\ sum[b] \in Digest
    BY <1>0, <1>1, PublishTypes
    DEF InsertPack, Inserts, UpdatePackFile, BuildOK, Publishing, Writing
  <2>2. packs[s] \subseteq Pack
    BY <2>1
  <2>3. CASE InsertPack(b)
    <3>1. packs' = [packs EXCEPT ![s] = packs[s] \cup {row}]
      BY <2>3 DEF InsertPack
    <3>2. row \in Pack
      BY <2>1 DEF Pack
    <3>3. packs' \in [Slugs -> SUBSET Pack]
      BY <2>1, <2>2, <3>1, <3>2
    <3>4. \A t \in Slugs : packs[t] \subseteq packs'[t]
      BY <2>1, <3>1
    <3> QED BY <3>3, <3>4 DEF RowsStay
  <2>4. CASE UpdatePackFile(b)
    <3>1. packs' = [packs EXCEPT ![s] = {rewritten(p) : p \in packs[s]}]
      BY <2>4 DEF UpdatePackFile
    <3>2. ASSUME NEW p \in packs[s]
          PROVE  rewritten(p) \in Pack /\ rewritten(p).version = p.version
                 /\ rewritten(p).hash = p.hash
      BY <2>1, <2>2 DEF Pack
    <3>3. {rewritten(p) : p \in packs[s]} \subseteq Pack
      BY <3>2
    <3>4. packs' \in [Slugs -> SUBSET Pack]
      BY <2>1, <3>1, <3>3
    <3>5. ASSUME NEW t \in Slugs, NEW p \in packs[t]
          PROVE  \E q \in packs'[t] : q.version = p.version /\ q.hash = p.hash
      <4>1. CASE t = s
        <5>1. packs'[t] = {rewritten(q) : q \in packs[s]}
          BY <2>1, <3>1, <4>1
        <5> HIDE DEF rewritten
        <5>2. rewritten(p) \in packs'[t]
          BY <4>1, <5>1
        <5> QED BY <3>2, <4>1, <5>2
      <4>2. CASE t # s
        BY <2>1, <3>1, <4>2
      <4> QED BY <4>1, <4>2
    <3> QED BY <3>4, <3>5 DEF RowsStay
  <2> QED BY <1>1, <2>3, <2>4
<1>2. CASE UNCHANGED packs
  BY <1>2 DEF RowsStay
<1> QED
  BY <1>1, <1>2
  DEF Build, ReadRows, Skip, Finish, LatestPack, Keep, Open, Fill, Rename, Unlink, FileDigest,
      Prune, Fail, Kill

\* The other builds rest while one takes a step, and the world stays as it is.
LEMMA OthersRest ==
  ASSUME BuildInv, NEW b \in Builders, Build(b) \/ Fail(b) \/ Kill(b)
  PROVE  EnvOK' /\ \A c \in Builders \ {b} : Rests(c)
<1> USE TypeParts DEF BuildInv
<1>1. UNCHANGED envVars
  BY DEF Build, ReadRows, Skip, Finish, LatestPack, Keep, Open, Fill, Rename, Unlink, FileDigest,
         InsertPack, UpdatePackFile, Prune, Fail, Kill
<1>2. EnvOK'
  BY <1>1 DEF EnvOK, envVars
<1>3. ASSUME NEW c \in Builders \ {b} PROVE Rests(c)
  <2> USE DEF Rests, LocalsOK, Goto
  <2>1. CASE ReadRows(b) \/ LatestPack(b) \/ Open(b) \/ Fill(b) \/ Rename(b) \/ Unlink(b)
             \/ FileDigest(b) \/ InsertPack(b)
    BY <2>1 DEF ReadRows, LatestPack, Open, Fill, Rename, Unlink, FileDigest, InsertPack
  <2>2. CASE Skip(b) \/ Keep(b) \/ UpdatePackFile(b) \/ Prune(b)
    <3>1. NextSlug(b) /\ want' = want /\ spec' = spec
      BY <2>2 DEF Skip, Keep, UpdatePackFile, Prune
    <3> QED BY <3>1 DEF NextSlug, Return
  <2>3. CASE Finish(b) \/ Fail(b) \/ Kill(b)
    <3>1. PICK p \in {"idle", "done"} : End(b, p)
      BY <2>3 DEF Finish, Fail, Kill
    <3> QED BY <3>1 DEF End, Return
  <2> QED BY <2>1, <2>2, <2>3 DEF Build
<1> QED BY <1>2, <1>3

-----------------------------------------------------------------------------
(* The invariant. *)

\* A step of a build keeps what is true of that build.
LEMMA OwnStep ==
  ASSUME BuildInv, NEW b \in Builders, Build(b) \/ Fail(b) \/ Kill(b)
  PROVE  BuildOK(b)'
<1> USE TypeParts DEF BuildInv, Goto
<1>0. BuildOK(b)
  BY DEF PacksInv
<1>1. ASSUME \/ phase'[b] = "publish"
             \/ phase'[b] \in {"idle", "done"} /\ pos'[b] = 1
      PROVE  BuildOK(b)'
  BY <1>1 DEF BuildOK, Busy, Publishing, Writing
\* The slug, its rows and the version it works on are those of before.
<1>2. ASSUME phase[b] \in Publishing, pos' = pos, spec' = spec, latest' = latest
      PROVE  /\ pos'[b] =< Len(Order)
             /\ VersionOf(b)' = VersionOf(b)
             /\ latest'[b] # NoPack => \E p \in packs'[SlugOf(b)'] :
                  p.version = latest'[b].version /\ p.hash = latest'[b].hash
  <2>1. SlugOf(b)' = SlugOf(b) /\ VersionOf(b)' = VersionOf(b)
    BY <1>2 DEF SlugOf, VersionOf, Unchanged, SpecOf
  <2>2. SlugOf(b) \in Slugs
    BY <1>0, <1>2, PublishTypes DEF BuildOK
  <2>3. RowsStay
    BY RowsStep
  <2>4. ASSUME latest[b] # NoPack
        PROVE  \E p \in packs'[SlugOf(b)] : p.version = latest[b].version /\ p.hash = latest[b].hash
    <3>1. PICK p \in packs[SlugOf(b)] : p.version = latest[b].version /\ p.hash = latest[b].hash
      BY <1>0, <1>2, <2>4 DEF BuildOK
    <3> QED BY <2>2, <2>3, <3>1 DEF RowsStay
  <2> QED BY <1>0, <1>2, <2>1, <2>4 DEF BuildOK
<1>3. CASE ReadRows(b)
  <2>1. CASE pos[b] = 2 * Len(Order)
    BY <1>1, <1>3, <2>1 DEF ReadRows, LocalsOK
  <2>2. CASE pos[b] # 2 * Len(Order)
    <3>1. phase'[b] = "collect" /\ pos'[b] = pos[b] + 1
      BY <1>3, <2>2 DEF ReadRows, LocalsOK
    <3>2. pos[b] \in Nat /\ pos[b] =< 2 * Len(Order)
      BY <1>0, <1>3 DEF BuildOK, ReadRows, LocalsOK
    <3> QED BY <2>2, <3>1, <3>2, ListLength DEF BuildOK, Busy, Publishing, Writing
  <2> QED BY <2>1, <2>2
<1>4. CASE Skip(b) \/ Keep(b) \/ UpdatePackFile(b) \/ Prune(b)
  <2>1. NextSlug(b)
    BY <1>4 DEF Skip, Keep, UpdatePackFile, Prune
  <2> QED BY <1>1, <2>1 DEF NextSlug, LocalsOK
<1>5. CASE Finish(b) \/ Fail(b) \/ Kill(b)
  <2>1. PICK p \in {"idle", "done"} : End(b, p)
    BY <1>5 DEF Finish, Fail, Kill
  <2> QED BY <1>1, <2>1 DEF End, LocalsOK
<1>6. CASE LatestPack(b)
  <2>1. /\ phase'[b] = "check" /\ pos' = pos /\ packs' = packs /\ spec' = spec
        /\ pos[b] =< Len(Order)
    BY <1>6 DEF LatestPack, LocalsOK
  <2>2. latest'[b] = NoPack \/ latest'[b] \in packs[SlugOf(b)]
    BY <1>6 DEF LatestPack, LocalsOK
  <2> QED BY <2>1, <2>2 DEF BuildOK, Busy, Publishing, Writing, SlugOf
<1>7. CASE Open(b)
  <2>1. /\ phase[b] = "check" /\ phase'[b] = "fill" /\ ino'[b] \in Files
        /\ VersionOf(b) =< MaxVersion
        /\ pos' = pos /\ spec' = spec /\ latest' = latest
    BY <1>7 DEF Open, LocalsOK
  <2>2. VersionOf(b) \in Versions
    BY <1>0, <2>1, PublishTypes, PacksAssumption DEF BuildOK, Publishing, Versions
  <2> QED BY <1>2, <2>1, <2>2 DEF BuildOK, Busy, Publishing, Writing
<1>8. CASE Fill(b) \/ Rename(b) \/ Unlink(b) \/ FileDigest(b) \/ InsertPack(b)
  <2>1. /\ phase[b] \in Writing /\ phase'[b] \in Writing \ {"fill"}
        /\ pos' = pos /\ spec' = spec /\ latest' = latest
    BY <1>8 DEF Fill, Rename, Renames, Unlink, FileDigest, InsertPack, Inserts, AfterWrite,
                Writing, LocalsOK
  <2>2. phase'[b] = "record" => sum'[b] \in Digest
    <3>1. CASE FileDigest(b)
      <4>1. SlugOf(b) \in Slugs /\ VersionOf(b) \in Versions
        BY <1>0, <2>1, PublishTypes DEF BuildOK, Publishing
      <4>2. FileAt(b) \in Files
        BY <3>1, <4>1 DEF FileDigest, FileAt, DiskOK
      <4> QED BY <3>1, <4>2, ShaType DEF FileDigest, LocalsOK
    <3>2. CASE ~FileDigest(b)
      BY <1>8, <3>2 DEF Fill, Rename, Unlink, InsertPack, AfterWrite, LocalsOK
    <3> QED BY <3>1, <3>2
  <2> QED BY <1>0, <1>2, <2>1, <2>2 DEF BuildOK, Busy, Publishing, Writing
<1> QED BY <1>3, <1>4, <1>5, <1>6, <1>7, <1>8 DEF Build

LEMMA InvStep == BuildInv /\ [Next]_vars => BuildInv'
<1> SUFFICES ASSUME BuildInv, [Next]_vars PROVE BuildInv'
  OBVIOUS
<1> USE TypeParts DEF BuildInv
<1>0. ASSUME EnvOK', DiskOK', LocalsOK', RowsOK' PROVE TypeOK'
  BY <1>0 DEF TypeOK, EnvOK, DiskOK, LocalsOK, RowsOK
\* A step that moves no build and no row.
<1>1. ASSUME UNCHANGED <<packs, buildVars>>
      PROVE  LocalsOK' /\ RowsOK' /\ PacksInv'
  <2>1. RowsStay /\ \A b \in Builders : Rests(b)
    BY <1>1 DEF buildVars, RowsStay, Rests
  <2>2. PacksInv'
    BY <2>1, RestingOK DEF PacksInv
  <2> QED BY <1>1, <2>2 DEF buildVars, LocalsOK, RowsOK
<1>2. ASSUME NEW s \in Slugs, NEW t \in Texts, Import(s, t) PROVE BuildInv'
  <2>1. EnvOK'
    BY <1>2 DEF Import, EnvOK, Text
  <2>2. DiskOK'
    BY <1>2 DEF Import, fileVars, DiskOK
  <2>3. UNCHANGED <<packs, buildVars>>
    BY <1>2 DEF Import
  <2> QED BY <1>0, <1>1, <2>1, <2>2, <2>3
<1>3. ASSUME NEW s \in Slugs, NEW v \in Versions, LoseFile(s, v) PROVE BuildInv'
  <2>1. EnvOK'
    BY <1>3 DEF LoseFile, EnvOK
  <2>2. DiskOK'
    BY <1>3 DEF LoseFile, DiskOK
  <2>3. UNCHANGED <<packs, buildVars>>
    BY <1>3 DEF LoseFile
  <2> QED BY <1>0, <1>1, <2>1, <2>2, <2>3
<1>4. ASSUME NEW b \in Builders, NEW slugs \in SUBSET Slugs, Start(b, slugs) PROVE BuildInv'
  <2>1. EnvOK'
    BY <1>4 DEF Start, EnvOK
  <2>2. DiskOK' /\ RowsOK'
    BY <1>4 DEF Start, fileVars, DiskOK, RowsOK
  <2>3. LocalsOK'
    BY <1>4 DEF Start, Goto, Phases, LocalsOK
  <2>4. RowsStay /\ \A c \in Builders \ {b} : Rests(c)
    BY <1>4 DEF Start, Goto, RowsStay, Rests, LocalsOK
  <2>5. phase'[b] = "collect" /\ pos'[b] = 1
    BY <1>4 DEF Start, Goto, LocalsOK, PacksInv, BuildOK
  <2>6. BuildOK(b)'
    BY <2>5, ListLength DEF BuildOK, Busy, Publishing, Writing
  <2>7. PacksInv'
    BY <2>4, <2>6, RestingOK DEF PacksInv
  <2> QED BY <1>0, <2>1, <2>2, <2>3, <2>7
<1>5. ASSUME NEW b \in Builders, Build(b) \/ Fail(b) \/ Kill(b) PROVE BuildInv'
  <2>1. EnvOK' /\ DiskOK' /\ LocalsOK' /\ RowsOK'
    BY <1>5, OthersRest, DiskStep, LocalsStep, RowsStep
  <2>2. \A c \in Builders : BuildOK(c)'
    BY <1>5, OwnStep, OthersRest, RowsStep, RestingOK
  <2> QED BY <1>0, <2>1, <2>2 DEF PacksInv
<1>6. CASE UNCHANGED vars
  <2>1. UNCHANGED <<packs, buildVars>> /\ EnvOK' /\ DiskOK'
    BY <1>6 DEF vars, buildVars, EnvOK, DiskOK
  <2> QED BY <1>0, <1>1, <2>1
<1> QED BY <1>2, <1>3, <1>4, <1>5, <1>6 DEF Next

\* The variables keep their types.
THEOREM PacksTypeCorrect == Spec => []TypeOK
<1>1. BuildInv => TypeOK
  BY DEF BuildInv
<1> QED BY <1>1, InitInv, InvStep, PTL DEF Spec

\* Only InsertPack adds a row, under a version that the table does not have
\* and after one with other content.
LEMMA VersionsStep ==
  ASSUME BuildInv, VersionsOK, [Next]_vars
  PROVE  VersionsOK'
<1> USE TypeParts DEF BuildInv
<1>1. CASE UNCHANGED packs
  BY <1>1 DEF VersionsOK
<1>2. ASSUME NEW b \in Builders, InsertPack(b) PROVE VersionsOK'
  <2> DEFINE s == SlugOf(b)
             row == [version |-> VersionOf(b), hash |-> SpecOf(b), sha |-> sum[b]]
  <2>0. BuildOK(b)
    BY DEF PacksInv
  <2>1. s \in Slugs /\ VersionOf(b) \in Versions /\ (latest[b] # NoPack => latest[b] \in Pack)
    BY <1>2, <2>0, PublishTypes DEF InsertPack, Inserts, BuildOK, Publishing, Writing
  <2>2. packs[s] \subseteq Pack
    BY <2>1 DEF RowsOK
  <2>3. packs' = [packs EXCEPT ![s] = packs[s] \cup {row}]
    BY <1>2 DEF InsertPack
  <2>4. \A p \in packs[s] : p.version # row.version
    BY <1>2 DEF InsertPack, Inserts
  <2>5. ASSUME row.version > 1
        PROVE  \E o \in packs[s] : o.version = row.version - 1 /\ o.hash # row.hash
    <3>1. latest[b] # NoPack /\ ~Unchanged(b)
      BY <1>2, <2>5 DEF VersionOf, InsertPack, Inserts
    <3>2. PICK o \in packs[s] : o.version = latest[b].version /\ o.hash = latest[b].hash
      BY <1>2, <2>0, <3>1 DEF InsertPack, Inserts, BuildOK, Publishing, Writing
    <3>3. row.version = o.version + 1 /\ o.hash # row.hash
      BY <3>1, <3>2 DEF VersionOf, Unchanged
    <3>4. o.version \in Nat
      BY <2>2 DEF Pack, Versions
    <3> QED BY <3>3, <3>4
  <2>6. ASSUME NEW t \in Slugs, NEW p \in packs'[t], NEW q \in packs'[t]
        PROVE  /\ p.version = q.version => p = q
               /\ p.version > 1 => \E o \in packs'[t] : o.version = p.version - 1 /\ o.hash # p.hash
    <3>1. CASE t # s
      BY <2>1, <2>3, <3>1 DEF VersionsOK, RowsOK
    <3>2. CASE t = s
      <4>1. packs'[t] = packs[s] \cup {row}
        BY <2>1, <2>3, <3>2 DEF RowsOK
      <4> HIDE DEF row
      <4>2. p.version = q.version => p = q
        BY <2>1, <2>4, <4>1 DEF VersionsOK
      <4>3. p.version > 1 => \E o \in packs[s] : o.version = p.version - 1 /\ o.hash # p.hash
        BY <2>1, <2>5, <4>1 DEF VersionsOK
      <4> QED BY <4>1, <4>2, <4>3
    <3> QED BY <3>1, <3>2
  <2> QED BY <2>6 DEF VersionsOK
<1>3. ASSUME NEW b \in Builders, UpdatePackFile(b) PROVE VersionsOK'
  <2> DEFINE s == SlugOf(b)
             rewritten(p) == IF p.version = latest[b].version THEN [p EXCEPT !.sha = sum[b]] ELSE p
  <2>1. s \in Slugs
    BY <1>3, PublishTypes DEF UpdatePackFile, PacksInv, BuildOK, Publishing, Writing
  <2>2. packs[s] \subseteq Pack
    BY <2>1 DEF RowsOK
  <2>3. packs' = [packs EXCEPT ![s] = {rewritten(p) : p \in packs[s]}]
    BY <1>3 DEF UpdatePackFile
  <2>4. ASSUME NEW p \in packs[s]
        PROVE  rewritten(p).version = p.version /\ rewritten(p).hash = p.hash
    BY <2>2 DEF Pack
  <2>5. ASSUME NEW t \in Slugs, NEW p \in packs'[t], NEW q \in packs'[t]
        PROVE  /\ p.version = q.version => p = q
               /\ p.version > 1 => \E o \in packs'[t] : o.version = p.version - 1 /\ o.hash # p.hash
    <3>1. CASE t # s
      BY <2>1, <2>3, <3>1 DEF VersionsOK, RowsOK
    <3>2. CASE t = s
      <4>1. packs'[t] = {rewritten(x) : x \in packs[s]}
        BY <2>1, <2>3, <3>2 DEF RowsOK
      <4> HIDE DEF rewritten
      <4>2. PICK x \in packs[s] : p = rewritten(x)
        BY <4>1
      <4>3. PICK y \in packs[s] : q = rewritten(y)
        BY <4>1
      <4>4. p.version = q.version => p = q
        BY <2>1, <2>4, <4>2, <4>3 DEF VersionsOK
      <4>5. ASSUME p.version > 1
            PROVE  \E o \in packs'[t] : o.version = p.version - 1 /\ o.hash # p.hash
        <5>1. x.version > 1
          BY <2>4, <4>2, <4>5
        <5>2. PICK o \in packs[s] : o.version = x.version - 1 /\ o.hash # x.hash
          BY <2>1, <5>1 DEF VersionsOK
        <5>3. rewritten(o) \in packs'[t]
          BY <4>1
        <5> QED BY <2>4, <4>2, <5>2, <5>3
      <4> QED BY <4>4, <4>5
    <3> QED BY <3>1, <3>2
  <2> QED BY <2>5 DEF VersionsOK
<1> QED
  BY <1>1, <1>2, <1>3
  DEF Next, vars, Import, LoseFile, Start, Build, ReadRows, Skip, Finish, LatestPack, Keep, Open,
      Fill, Rename, Unlink, FileDigest, Prune, Fail, Kill

\* However builds overlap, fail and restart, the versions of a pack are
\* numbered from one without gaps or doubles, and no version repeats the
\* content of the one before it: racing builds of one row cannot both publish.
THEOREM VersionsNumbered == Spec => []VersionsOK
<1>1. Init => BuildInv /\ VersionsOK
  BY InitInv DEF Init, VersionsOK
<1>2. BuildInv /\ VersionsOK /\ [Next]_vars => BuildInv' /\ VersionsOK'
  BY InvStep, VersionsStep
<1> QED BY <1>1, <1>2, PTL DEF Spec

\* The row that a build publishes after was read some steps before, and is still
\* in the table with that version and content, whatever other builds and
\* imports have done since (build.go:147-196).
THEOREM PacksInvariant == Spec => []PacksInv
<1>1. BuildInv => PacksInv
  BY DEF BuildInv
<1> QED BY <1>1, InitInv, InvStep, PTL DEF Spec

-----------------------------------------------------------------------------
(* Builds one at a time: what is published stays good, and a build makes it    *)
(* current. AloneInv is the inductive invariant behind the three theorems at   *)
(* the end.                                                                    *)

\* At most one build runs, and one that has seen nothing else happen runs alone.
Alone ==
  /\ \A b, c \in Builders : Busy(b) /\ Busy(c) => b = c
  /\ \A b \in quiet, c \in Builders : Busy(c) => b = c

\* What is published of a pack, and what its rows announce.
WholeOf(s) == \A v \in Versions : dir[s][v] # NoFile => dir[s][v] \in full
RowOK(p) == p.hash # NoHash /\ content[p.sha.file] = p.hash
RecordedOf(s) == \A p \in packs[s] : RowOK(p)
IsServed(s, p) == dir[s][p.version] # NoFile /\ Sha(dir[s][p.version]) = p.sha
ServedOf(s) == \A p, q \in packs[s] : IsLatest(s, q) /\ p.version >= q.version - 1 => IsServed(s, p)
SlugOK(s) == WholeOf(s) /\ RecordedOf(s) /\ (losses = 0 => ServedOf(s))

\* The latest row describes the source, and its file is there.
Current(s) ==
  \E p \in packs[s] : /\ IsLatest(s, p) /\ IsServed(s, p)
                      /\ p.hash = <<source[s], source[s]>>
                      /\ content[dir[s][p.version]] = p.hash

\* A build that is alone works after the latest row there is, on a file that is its own.
Written == {"unlink", "digest", "record", "prune"}
AfterLatest(b) ==
  IF latest[b] = NoPack THEN packs[SlugOf(b)] = {} ELSE IsLatest(SlugOf(b), latest[b])
Inserted(b) ==
  \E p \in packs[SlugOf(b)] : /\ IsLatest(SlugOf(b), p) /\ p.version = VersionOf(b)
                              /\ p.hash = SpecOf(b) /\ p.sha = Sha(ino[b])
WorkOK(b) ==
  /\ phase[b] \in Publishing => HasSpec(b)
  /\ phase[b] \in Publishing \ {"prune"} => AfterLatest(b)
  /\ phase[b] \in Writing => ino[b] \in Files /\ content[ino[b]] = SpecOf(b)
  /\ phase[b] \in {"fill", "rename"} => TmpAt(b) = ino[b]
  /\ phase[b] \in Writing \ {"fill"} => ino[b] \in full
  /\ phase[b] \in Written => FileAt(b) \in {NoFile, ino[b]}
  /\ phase[b] \in Written /\ (losses = 0 \/ b \in quiet) => FileAt(b) = ino[b]
  /\ phase[b] \in Writing /\ losses = 0 => ~Unchanged(b)
  /\ phase[b] = "record" => sum[b] = Sha(ino[b])
  /\ phase[b] = "prune" => ~Unchanged(b) /\ Inserted(b)

\* What a build during which nothing else happened has collected and published.
Collected(b, i) == spec[b][Order[i]] = <<source[Order[i]], source[Order[i]]>>
CollectOK(b) ==
  \A i \in DOMAIN Order : Order[i] \in want[b] =>
    /\ 2 * i < pos[b] => Collected(b, i)
    /\ 2 * i = pos[b] => spec[b][Order[i]] = <<source[Order[i]], NoText>>
PublishOK(b) ==
  \A i \in DOMAIN Order : Order[i] \in want[b] =>
    /\ Collected(b, i)
    /\ i < pos[b] /\ source[Order[i]] # NoText => Current(Order[i])
QuietOK(b) ==
  /\ phase[b] = "collect" => CollectOK(b)
  /\ phase[b] \in {"publish"} \cup Publishing => PublishOK(b)
  /\ phase[b] = "done" => \A s \in want[b] : source[s] # NoText => Current(s)

AloneOK ==
  /\ Alone
  /\ \A s \in Slugs : SlugOK(s)
  /\ \A b \in Builders : WorkOK(b)
  /\ \A b \in quiet : QuietOK(b)
AloneInv == ~overlapped => AloneOK

\* The step of a build.
Steps(b) == Build(b) \/ Fail(b) \/ Kill(b)

\* What is published of a pack stays: files are only finished, contents only
\* given to files that had none.
FilesKeep ==
  /\ full \subseteq full'
  /\ \A i \in Files : content[i] # NoHash => content'[i] = content[i]
  /\ losses' = losses
Kept(s) == packs'[s] = packs[s] /\ dir'[s] = dir[s] /\ source'[s] = source[s]

LEMMA SlugKept ==
  ASSUME BuildInv, NEW s \in Slugs, SlugOK(s), FilesKeep, packs'[s] = packs[s], dir'[s] = dir[s]
  PROVE  SlugOK(s)' /\ (Current(s) /\ source'[s] = source[s] => Current(s)')
<1> USE TypeParts DEF BuildInv
<1>1. packs[s] \subseteq Pack /\ packs'[s] = packs[s] /\ dir'[s] = dir[s]
  BY DEF RowsOK
<1>2. WholeOf(s) /\ RecordedOf(s) /\ (losses = 0 => ServedOf(s))
  BY DEF SlugOK
<1>3. WholeOf(s)'
  BY <1>1, <1>2 DEF WholeOf, FilesKeep
<1>4. \A p \in packs[s] : p.version \in Versions /\ p.sha.file \in Files
  BY <1>1 DEF Pack, Digest
<1>5. RecordedOf(s)'
  BY <1>1, <1>2, <1>4 DEF RecordedOf, RowOK, FilesKeep
<1>6. \A p : IsLatest(s, p)' <=> IsLatest(s, p)
  BY <1>1 DEF IsLatest
<1>7. \A i \in Files : i \in full => Sha(i)' = Sha(i)
  BY DEF Sha, FilesKeep
<1>8. \A v \in Versions : dir[s][v] \in Files \cup {NoFile}
  BY DEF DiskOK
<1>9. ASSUME NEW p \in packs[s] PROVE IsServed(s, p) => IsServed(s, p)'
  BY <1>1, <1>2, <1>4, <1>7, <1>8, <1>9 DEF IsServed, WholeOf
<1>10. losses' = 0 => ServedOf(s)'
  BY <1>1, <1>2, <1>6, <1>9 DEF ServedOf, FilesKeep
<1>11. ASSUME Current(s), source'[s] = source[s] PROVE Current(s)'
  <2>1. PICK p \in packs[s] : /\ IsLatest(s, p) /\ IsServed(s, p)
                              /\ p.hash = <<source[s], source[s]>>
                              /\ content[dir[s][p.version]] = p.hash
    BY <1>11 DEF Current
  <2>2. p.hash # NoHash
    BY <1>2 DEF RecordedOf, RowOK
  <2>3. dir[s][p.version] \in Files
    BY <1>4, <1>8, <2>1 DEF IsServed
  <2>4. content'[dir[s][p.version]] = p.hash
    BY <2>1, <2>2, <2>3 DEF FilesKeep
  <2>5. IsLatest(s, p)' /\ IsServed(s, p)'
    BY <1>6, <1>9, <2>1
  <2> QED BY <1>1, <1>11, <2>1, <2>4, <2>5 DEF Current
<1> QED BY <1>3, <1>5, <1>10, <1>11 DEF SlugOK

LEMMA Same ==
  ASSUME NEW b \in Builders, pos'[b] = pos[b], spec'[b] = spec[b], latest'[b] = latest[b]
  PROVE  /\ SlugOf(b)' = SlugOf(b) /\ SpecOf(b)' = SpecOf(b) /\ VersionOf(b)' = VersionOf(b)
         /\ (HasSpec(b)' <=> HasSpec(b))
         /\ (Unchanged(b)' <=> Unchanged(b))
BY DEF SlugOf, SpecOf, HasSpec, Unchanged, VersionOf

\* A build takes a step only while it runs, and nothing else then happens.
LEMMA BusyStep ==
  ASSUME NEW b \in Builders, Steps(b)
  PROVE  Busy(b) /\ UNCHANGED envVars
<1>1. CASE Build(b)
  BY <1>1
  DEF Build, ReadRows, Skip, Finish, LatestPack, Keep, Open, Fill, Rename, Renames, Unlink, FileDigest,
      InsertPack, Inserts, UpdatePackFile, Prune, Busy
<1>2. CASE Fail(b) \/ Kill(b)
  BY <1>2 DEF Fail, Kill
<1> QED BY <1>1, <1>2 DEF Steps

\* What has to be shown of the step of a build that is alone.
LEMMA OnlyThis ==
  ASSUME BuildInv, AloneOK, NEW b \in Builders, Steps(b),
         \A s \in Slugs : SlugOK(s)', WorkOK(b)', b \in quiet => QuietOK(b)'
  PROVE  AloneOK'
<1>1. Busy(b) /\ quiet' = quiet
  BY BusyStep DEF envVars
<1>2. \A c \in Builders \ {b} : ~Busy(c) /\ phase'[c] = phase[c]
  BY <1>1, OthersRest DEF AloneOK, Alone, Steps, Rests
<1>3. \A c \in quiet : c = b
  BY <1>1 DEF AloneOK, Alone
<1>4. \A c \in Builders \ {b} : ~Busy(c)' /\ WorkOK(c)'
  BY <1>2 DEF Busy, WorkOK, Publishing, Writing, Written
<1>5. Alone'
  BY <1>1, <1>3, <1>4 DEF Alone
<1> QED BY <1>1, <1>3, <1>4, <1>5 DEF AloneOK

\* A pack is visited once.
LEMMA OtherSlug ==
  ASSUME NEW b \in Builders, pos[b] \in 1 .. Len(Order), NEW i \in 1 .. Len(Order), i # pos[b]
  PROVE  Order[i] \in Slugs /\ Order[i] # SlugOf(b)
<1>1. DOMAIN Order = 1 .. Len(Order)
  BY PacksAssumption
<1> QED BY <1>1, PacksAssumption, SlugType DEF SlugOf

\* A step within publish, or to the next slug, of a build during which nothing else happened.
LEMMA QuietStay ==
  ASSUME BuildInv, NEW b \in Builders, QuietOK(b), phase[b] \in {"publish"} \cup Publishing,
         phase'[b] \in {"publish"} \cup Publishing,
         pos'[b] = pos[b], spec'[b] = spec[b], want'[b] = want[b], source' = source,
         pos[b] \in 1 .. Len(Order),
         \A s \in Slugs \ {SlugOf(b)} : Current(s) => Current(s)'
  PROVE  QuietOK(b)'
<1>1. PublishOK(b)
  BY DEF QuietOK
<1>2. DOMAIN Order = 1 .. Len(Order)
  BY PacksAssumption
<1>3. ASSUME NEW i \in DOMAIN Order, Order[i] \in want[b]
      PROVE  Collected(b, i)' /\ (i < pos[b] /\ source[Order[i]] # NoText => Current(Order[i])')
  <2>1. Collected(b, i)'
    BY <1>1, <1>3 DEF PublishOK, Collected
  <2>2. ASSUME i < pos[b], source[Order[i]] # NoText PROVE Current(Order[i])'
    <3>1. Current(Order[i])
      BY <1>1, <1>3, <2>2 DEF PublishOK
    <3>2. Order[i] \in Slugs \ {SlugOf(b)}
      BY <1>2, <2>2, OtherSlug
    <3> QED BY <3>1, <3>2
  <2> QED BY <2>1, <2>2
<1>4. PublishOK(b)'
  BY <1>3 DEF PublishOK
<1> QED BY <1>4 DEF QuietOK, Publishing, Writing

LEMMA QuietNext ==
  ASSUME BuildInv, NEW b \in Builders, QuietOK(b), phase[b] \in {"publish"} \cup Publishing,
         phase'[b] = "publish",
         pos'[b] = pos[b] + 1, spec'[b] = spec[b], want'[b] = want[b], source' = source,
         pos[b] \in 1 .. Len(Order),
         \A s \in Slugs \ {SlugOf(b)} : Current(s) => Current(s)',
         NEW t \in Slugs, t = SlugOf(b),
         SpecOf(b) = <<source[t], source[t]>> /\ source[t] # NoText => Current(t)'
  PROVE  QuietOK(b)'
<1>1. PublishOK(b)
  BY DEF QuietOK
<1>2. DOMAIN Order = 1 .. Len(Order)
  BY PacksAssumption
<1>3. ASSUME NEW i \in DOMAIN Order, Order[i] \in want[b]
      PROVE  Collected(b, i)' /\ (i < pos[b] + 1 /\ source[Order[i]] # NoText => Current(Order[i])')
  <2>0. Collected(b, i)
    BY <1>1, <1>3 DEF PublishOK
  <2>1. Collected(b, i)'
    BY <2>0 DEF Collected
  <2>2. ASSUME i < pos[b], source[Order[i]] # NoText PROVE Current(Order[i])'
    <3>1. Current(Order[i])
      BY <1>1, <1>3, <2>2 DEF PublishOK
    <3>2. Order[i] \in Slugs \ {SlugOf(b)}
      BY <1>2, <2>2, OtherSlug
    <3> QED BY <3>1, <3>2
  <2>3. ASSUME i = pos[b], source[Order[i]] # NoText PROVE Current(Order[i])'
    <3>1. Order[i] = t
      BY <2>3 DEF SlugOf
    <3>2. SpecOf(b) = <<source[t], source[t]>>
      BY <2>0, <3>1 DEF Collected, SpecOf
    <3> QED BY <2>3, <3>1, <3>2
  <2>4. i \in Nat /\ pos[b] \in Nat
    BY <1>2
  <2>5. i < pos[b] + 1 => i < pos[b] \/ i = pos[b]
    BY <2>4
  <2> QED BY <2>1, <2>2, <2>3, <2>5
<1>4. PublishOK(b)'
  BY <1>3 DEF PublishOK
<1> QED BY <1>4 DEF QuietOK, Publishing, Writing

\* A step that only reads, or writes files that are not published.
LEMMA SlugsKept ==
  ASSUME BuildInv, \A s \in Slugs : SlugOK(s), FilesKeep, packs' = packs, dir' = dir, source' = source
  PROVE  \A s \in Slugs : SlugOK(s)' /\ (Current(s) => Current(s)')
BY SlugKept

LEMMA CollectStep ==
  ASSUME BuildInv, AloneOK, NEW b \in Builders, ReadRows(b)
  PROVE  AloneOK'
<1> USE TypeParts DEF BuildInv
<1> DEFINE n == pos[b]
           k == (n + 1) \div 2
           s == Order[k]
<1>0. DOMAIN Order = 1 .. Len(Order) /\ Len(Order) \in Nat \ {0}
  BY PacksAssumption
<1>1. n \in 1 .. 2 * Len(Order)
  BY <1>0 DEF ReadRows, PacksInv, BuildOK, LocalsOK
<1>2. k \in 1 .. Len(Order) /\ (n % 2 = 1 => n = 2 * k - 1) /\ (n % 2 # 1 => n = 2 * k)
  BY <1>0, <1>1
<1>3. s \in Slugs /\ \A i \in DOMAIN Order : Order[i] = s => i = k
  BY <1>0, <1>2, SlugType, PacksAssumption
<1>4. /\ pos'[b] = IF n = 2 * Len(Order) THEN 1 ELSE n + 1
      /\ phase'[b] = IF n = 2 * Len(Order) THEN "publish" ELSE "collect"
      /\ want' = want /\ packs' = packs /\ dir' = dir /\ UNCHANGED fileVars /\ UNCHANGED envVars
  BY DEF ReadRows, LocalsOK, Goto, fileVars
<1>5. FilesKeep /\ source' = source /\ quiet' = quiet
  BY <1>4 DEF FilesKeep, fileVars, envVars
<1>6. \A t \in Slugs : SlugOK(t)'
  BY <1>4, <1>5, SlugsKept DEF AloneOK
<1>7. WorkOK(b)'
  BY <1>4 DEF WorkOK, Publishing, Writing, Written
<1>8. ASSUME b \in quiet PROVE QuietOK(b)'
  <2>1. CollectOK(b)
    BY <1>8 DEF AloneOK, QuietOK, ReadRows
  <2>2. spec[b] \in [Slugs -> Hash]
    BY DEF LocalsOK
  <2>3. ASSUME NEW t \in Slugs, t # s PROVE spec'[b][t] = spec[b][t]
    BY <1>3, <2>2, <2>3 DEF ReadRows, LocalsOK
  <2>4. ASSUME s \in want[b], n % 2 = 1 PROVE spec'[b][s] = <<source[s], NoText>>
    BY <1>3, <2>2, <2>4 DEF ReadRows, LocalsOK
  <2>5. ASSUME s \in want[b], n % 2 # 1 PROVE spec'[b][s] = <<source[s], source[s]>>
    <3>1. spec[b][s] = <<source[s], NoText>>
      BY <1>0, <1>2, <2>1, <2>5 DEF CollectOK
    <3>2. CASE source[s] # NoText
      BY <1>3, <2>2, <2>5, <3>1, <3>2 DEF ReadRows, LocalsOK
    <3>3. CASE source[s] = NoText
      BY <1>3, <2>2, <2>5, <3>1, <3>3 DEF ReadRows, LocalsOK
    <3> QED BY <3>2, <3>3
  <2> HIDE DEF s, k, n
  <2>6. ASSUME NEW i \in DOMAIN Order, Order[i] \in want[b], 2 * i < n + 1
        PROVE  Collected(b, i)'
    <3>1. i \in Nat /\ n \in Nat /\ k \in Nat /\ Order[i] \in Slugs
      BY <1>0, <1>1, <1>2, SlugType
    <3>2. CASE 2 * i < n
      <4>1. Collected(b, i)
        BY <2>1, <2>6, <3>2 DEF CollectOK, n
      <4>2. i # k
        BY <1>2, <3>1, <3>2
      <4>3. spec'[b][Order[i]] = spec[b][Order[i]]
        BY <1>3, <2>3, <3>1, <4>2
      <4> QED BY <1>5, <4>1, <4>3 DEF Collected
    <3>3. CASE 2 * i = n
      <4>1. n % 2 # 1 /\ i = k
        BY <1>2, <3>1, <3>3
      <4>2. Order[i] = s
        BY <4>1 DEF s
      <4> QED BY <1>5, <2>5, <2>6, <4>1, <4>2 DEF Collected
    <3> QED BY <2>6, <3>1, <3>2, <3>3
  <2>7. ASSUME NEW i \in DOMAIN Order, Order[i] \in want[b], 2 * i = n + 1
        PROVE  spec'[b][Order[i]] = <<source[Order[i]], NoText>>
    <3>1. n % 2 = 1 /\ i = k
      BY <1>0, <1>1, <1>2, <2>7
    <3>2. Order[i] = s
      BY <3>1 DEF s
    <3> QED BY <2>4, <2>7, <3>1, <3>2
  <2>8. CASE n = 2 * Len(Order)
    <3>1. \A i \in DOMAIN Order : 2 * i < n + 1
      BY <1>0, <2>8
    <3>2. pos'[b] = 1 /\ phase'[b] = "publish"
      BY <1>4, <2>8
    <3>3. \A i \in DOMAIN Order : ~(i < 1)
      BY <1>0
    <3>4. PublishOK(b)'
      BY <1>4, <2>6, <3>1, <3>2, <3>3 DEF PublishOK
    <3> QED BY <3>2, <3>4 DEF QuietOK, Publishing, Writing
  <2>9. CASE n # 2 * Len(Order)
    <3>1. pos'[b] = n + 1 /\ phase'[b] = "collect"
      BY <1>4, <2>9
    <3>2. CollectOK(b)'
      BY <1>4, <1>5, <2>6, <2>7, <3>1 DEF CollectOK
    <3> QED BY <3>1, <3>2 DEF QuietOK, Publishing, Writing
  <2> QED BY <2>8, <2>9
<1> QED BY <1>6, <1>7, <1>8, OnlyThis DEF Steps, Build

\* What holds of a build that works on a pack.
LEMMA AtWork ==
  ASSUME BuildInv, AloneOK, NEW b \in Builders, phase[b] \in Publishing
  PROVE  /\ pos[b] \in 1 .. Len(Order) /\ SlugOf(b) \in Slugs /\ SpecOf(b) \in Hash
         /\ VersionOf(b) \in Nat \ {0}
         /\ phase[b] \in Writing => VersionOf(b) \in Versions
         /\ latest[b] # NoPack => latest[b] \in Pack
         /\ packs[SlugOf(b)] \subseteq Pack
         /\ WorkOK(b) /\ SlugOK(SlugOf(b))
         /\ b \in quiet => QuietOK(b)
<1> USE TypeParts DEF BuildInv
<1>1. BuildOK(b)
  BY DEF PacksInv
<1>2. pos[b] \in 1 .. Len(Order)
  BY <1>1, ListLength DEF BuildOK, LocalsOK
<1>3. SlugOf(b) \in Slugs /\ SpecOf(b) \in Hash /\ VersionOf(b) \in Nat \ {0}
      /\ (latest[b] # NoPack => latest[b] \in Pack)
  BY <1>2, PublishTypes
<1> QED BY <1>1, <1>2, <1>3 DEF BuildOK, AloneOK, RowsOK

LEMMA EndStep ==
  ASSUME BuildInv, AloneOK, NEW b \in Builders, Finish(b) \/ Fail(b) \/ Kill(b)
  PROVE  AloneOK'
<1> USE TypeParts DEF BuildInv
<1>1. Steps(b)
  BY DEF Steps, Build
<1>2. packs' = packs /\ dir' = dir /\ content' = content /\ full' = full /\ want' = want
  BY DEF Finish, Fail, Kill, fileVars
<1>3. UNCHANGED envVars
  BY <1>1, BusyStep
<1>4. FilesKeep /\ source' = source
  BY <1>2, <1>3 DEF FilesKeep, envVars
<1>5. \A s \in Slugs : SlugOK(s)' /\ (Current(s) => Current(s)')
  BY <1>2, <1>4, SlugsKept DEF AloneOK
<1>6. PICK p \in {"idle", "done"} : End(b, p) /\ (p = "done" => Finish(b))
  BY DEF Finish, Fail, Kill
<1>7. phase'[b] = p
  BY <1>6 DEF End, Goto, LocalsOK
<1>8. WorkOK(b)'
  BY <1>7 DEF WorkOK, Publishing, Writing, Written
<1>9. ASSUME b \in quiet, p = "done" PROVE \A s \in want[b] : source[s] # NoText => Current(s)'
  <2>1. phase[b] = "publish" /\ pos[b] > Len(Order)
    BY <1>6, <1>9 DEF Finish
  <2>2. PublishOK(b)
    BY <1>9, <2>1 DEF AloneOK, QuietOK
  <2>3. ASSUME NEW s \in want[b], source[s] # NoText PROVE Current(s)'
    <3>1. s \in Slugs
      BY DEF LocalsOK
    <3>2. PICK i \in DOMAIN Order : s = Order[i]
      BY <3>1 DEF Slugs
    <3>3. i < pos[b]
      BY <2>1, ListLength, PacksAssumption DEF LocalsOK
    <3> QED BY <1>5, <2>2, <2>3, <3>1, <3>2, <3>3 DEF PublishOK
  <2> QED BY <2>3
<1>10. b \in quiet => QuietOK(b)'
  BY <1>2, <1>4, <1>7, <1>9 DEF QuietOK, Publishing, Writing
<1> QED BY <1>1, <1>5, <1>8, <1>10, OnlyThis

LEMMA SkipStep ==
  ASSUME BuildInv, AloneOK, NEW b \in Builders, Skip(b) \/ Keep(b)
  PROVE  AloneOK'
<1> USE TypeParts DEF BuildInv
<1>1. Steps(b) /\ phase[b] \in {"publish", "check"} /\ NextSlug(b)
  BY DEF Steps, Build, Skip, Keep
<1>2. packs' = packs /\ dir' = dir /\ content' = content /\ full' = full /\ want' = want /\ spec' = spec
  BY DEF Skip, Keep, fileVars
<1>3. UNCHANGED envVars
  BY <1>1, BusyStep
<1>4. FilesKeep /\ source' = source
  BY <1>2, <1>3 DEF FilesKeep, envVars
<1>5. \A s \in Slugs : SlugOK(s)' /\ (Current(s) => Current(s)')
  BY <1>2, <1>4, SlugsKept DEF AloneOK
<1>6. phase'[b] = "publish" /\ pos'[b] = pos[b] + 1
  BY <1>1 DEF NextSlug, Goto, LocalsOK
<1>7. WorkOK(b)'
  BY <1>6 DEF WorkOK, Publishing, Writing, Written
<1>8. pos[b] \in 1 .. Len(Order)
  <2>1. CASE Skip(b)
    BY <2>1, ListLength DEF Skip, LocalsOK
  <2>2. CASE Keep(b)
    BY <2>2, AtWork DEF Keep, Publishing
  <2> QED BY <2>1, <2>2
<1>9. PICK t \in Slugs : t = SlugOf(b)
  BY <1>8, SlugType DEF SlugOf
<1>10. ASSUME SpecOf(b) = <<source[t], source[t]>>, source[t] # NoText PROVE Current(t)
  <2>1. HasSpec(b)
    BY <1>10 DEF HasSpec, NoHash
  <2>2. Keep(b)
    BY <2>1 DEF Skip
  <2>3. phase[b] = "check" /\ Unchanged(b) /\ Intact(b)
    BY <2>2 DEF Keep
  <2>4. IsLatest(t, latest[b]) /\ latest[b] # NoPack /\ latest[b].hash = SpecOf(b)
        /\ VersionOf(b) = latest[b].version
    BY <1>9, <2>3, AtWork DEF WorkOK, AfterLatest, Publishing, Unchanged, VersionOf
  <2>5. IsServed(t, latest[b]) /\ FileAt(b) = latest[b].sha.file
    BY <1>9, <2>3, <2>4 DEF Intact, IsServed, FileAt, Sha
  <2>6. latest[b] \in packs[t] /\ RecordedOf(t)
    BY <2>4, <1>9 DEF IsLatest, AloneOK, SlugOK
  <2>7. content[dir[t][latest[b].version]] = latest[b].hash
    BY <1>9, <2>4, <2>5, <2>6 DEF RecordedOf, RowOK, FileAt
  <2> QED BY <1>10, <2>4, <2>5, <2>6, <2>7 DEF Current
<1>11. b \in quiet => QuietOK(b)'
  BY <1>1, <1>2, <1>4, <1>5, <1>6, <1>8, <1>9, <1>10, QuietNext DEF AloneOK, Publishing
<1> QED BY <1>1, <1>5, <1>7, <1>11, OnlyThis

\* The steps that stay with their pack and leave the rows and the published files.
LEMMA StayStep ==
  ASSUME BuildInv, AloneOK, NEW b \in Builders, Steps(b),
         pos[b] \in 1 .. Len(Order), phase[b] \in {"publish"} \cup Publishing,
         phase'[b] \in Publishing,
         FilesKeep, packs' = packs, dir' = dir, pos' = pos, spec' = spec, want' = want, WorkOK(b)'
  PROVE  AloneOK'
<1>1. source' = source
  BY BusyStep DEF envVars
<1>2. \A s \in Slugs : SlugOK(s)' /\ (Current(s) => Current(s)')
  BY <1>1, SlugsKept DEF AloneOK
<1>3. b \in quiet => QuietOK(b)'
  BY <1>1, <1>2, QuietStay DEF AloneOK
<1> QED BY <1>2, <1>3, OnlyThis

LEMMA LatestStep ==
  ASSUME BuildInv, AloneOK, NEW b \in Builders, LatestPack(b)
  PROVE  AloneOK'
<1> USE TypeParts DEF BuildInv
<1>1. /\ Steps(b) /\ phase[b] = "publish" /\ phase'[b] = "check" /\ HasSpec(b) /\ pos[b] =< Len(Order)
      /\ packs' = packs /\ UNCHANGED fileVars /\ UNCHANGED envVars
      /\ pos' = pos /\ spec' = spec /\ want' = want
  BY DEF LatestPack, Steps, Build, Goto, LocalsOK
<1>2. FilesKeep /\ dir' = dir
  BY <1>1 DEF FilesKeep, fileVars, envVars
<1>3. SlugOf(b)' = SlugOf(b) /\ HasSpec(b)'
  BY <1>1 DEF SlugOf, SpecOf, HasSpec
<1>4. \/ packs[SlugOf(b)] = {} /\ latest'[b] = NoPack
      \/ IsLatest(SlugOf(b), latest'[b]) /\ latest'[b] \in packs[SlugOf(b)]
  BY DEF LatestPack, LocalsOK, IsLatest
<1>5. ASSUME latest'[b] \in packs[SlugOf(b)] PROVE latest'[b] # NoPack
  <2>1. SlugOf(b) \in Slugs
    BY <1>1, PublishTypes
  <2> QED BY <1>5, <2>1, NoPackAssumption DEF RowsOK
<1>6. AfterLatest(b)'
  BY <1>1, <1>3, <1>4, <1>5 DEF AfterLatest, IsLatest
<1>7. WorkOK(b)'
  BY <1>1, <1>3, <1>6 DEF WorkOK, Publishing, Writing, Written
<1>8. pos[b] \in 1 .. Len(Order)
  BY <1>1, ListLength DEF LocalsOK
<1> QED BY <1>1, <1>2, <1>7, <1>8, StayStep DEF Publishing

\* Unless files were lost, a pack that is up to date is not written again.
LEMMA OpenStep ==
  ASSUME BuildInv, AloneOK, NEW b \in Builders, Open(b)
  PROVE  AloneOK'
<1> USE TypeParts DEF BuildInv
<1>1. /\ Steps(b) /\ phase[b] = "check" /\ phase'[b] = "fill"
      /\ packs' = packs /\ dir' = dir /\ full' = full /\ UNCHANGED envVars
      /\ pos' = pos /\ spec' = spec /\ want' = want /\ latest' = latest
      /\ ~(Unchanged(b) /\ Intact(b)) /\ VersionOf(b) =< MaxVersion
  BY DEF Open, Steps, Build, Goto, LocalsOK
<1>2. PICK i \in Files : /\ content[i] = NoHash
                         /\ tmp' = [tmp EXCEPT ![SlugOf(b)][VersionOf(b)] = i]
                         /\ content' = [content EXCEPT ![i] = SpecOf(b)]
                         /\ ino' = [ino EXCEPT ![b] = i]
  BY DEF Open
<1>3. /\ pos[b] \in 1 .. Len(Order) /\ SlugOf(b) \in Slugs /\ SpecOf(b) \in Hash
      /\ VersionOf(b) \in Versions /\ WorkOK(b) /\ SlugOK(SlugOf(b))
  BY <1>1, AtWork, PacksAssumption DEF Publishing, Versions
<1>4. FilesKeep
  BY <1>1, <1>2 DEF FilesKeep, envVars, DiskOK
<1>5. SlugOf(b)' = SlugOf(b) /\ SpecOf(b)' = SpecOf(b) /\ VersionOf(b)' = VersionOf(b)
      /\ (HasSpec(b)' <=> HasSpec(b)) /\ (Unchanged(b)' <=> Unchanged(b))
  BY <1>1, Same
<1>6. ino'[b] = i /\ content'[i] = SpecOf(b) /\ TmpAt(b)' = i
  BY <1>2, <1>3, <1>5 DEF LocalsOK, DiskOK, TmpAt
<1>7. AfterLatest(b) /\ HasSpec(b)
  BY <1>1, <1>3 DEF WorkOK, Publishing
<1>8. AfterLatest(b)'
  BY <1>1, <1>5, <1>7 DEF AfterLatest, IsLatest
<1>9. ASSUME losses = 0 PROVE ~Unchanged(b)
  <2> SUFFICES ASSUME Unchanged(b) PROVE FALSE
    OBVIOUS
  <2>1. IsLatest(SlugOf(b), latest[b]) /\ latest[b] \in packs[SlugOf(b)]
    BY <1>7 DEF Unchanged, AfterLatest, IsLatest
  <2>2. latest[b].version \in Nat
    BY <1>1, <2>1, AtWork DEF Publishing, Pack, Versions
  <2>3. latest[b].version >= latest[b].version - 1
    BY <2>2
  <2>4. IsServed(SlugOf(b), latest[b])
    BY <1>3, <1>9, <2>1, <2>3 DEF SlugOK, ServedOf
  <2>5. VersionOf(b) = latest[b].version
    BY DEF Unchanged, VersionOf
  <2> QED BY <1>1, <2>4, <2>5 DEF IsServed, Intact, FileAt
<1>10. losses' = losses
  BY <1>1 DEF envVars
<1>11. WorkOK(b)'
  BY <1>1, <1>5, <1>6, <1>7, <1>8, <1>9, <1>10 DEF WorkOK, Publishing, Writing, Written
<1> QED BY <1>1, <1>3, <1>4, <1>11, StayStep DEF Publishing, Writing

LEMMA FillStep ==
  ASSUME BuildInv, AloneOK, NEW b \in Builders, Fill(b) \/ Unlink(b) \/ FileDigest(b)
  PROVE  AloneOK'
<1> USE TypeParts DEF BuildInv
<1>1. /\ Steps(b) /\ phase[b] \in Writing /\ phase'[b] \in Writing
      /\ packs' = packs /\ dir' = dir /\ content' = content /\ full \subseteq full' /\ UNCHANGED envVars
      /\ pos' = pos /\ spec' = spec /\ want' = want /\ latest' = latest /\ ino' = ino
  BY DEF Fill, Unlink, FileDigest, fileVars, Steps, Build, Goto, LocalsOK, Writing, AfterWrite
<1>2. FilesKeep
  BY <1>1 DEF FilesKeep, envVars
<1>3. SlugOf(b)' = SlugOf(b) /\ SpecOf(b)' = SpecOf(b) /\ VersionOf(b)' = VersionOf(b)
      /\ (HasSpec(b)' <=> HasSpec(b)) /\ (Unchanged(b)' <=> Unchanged(b))
  BY <1>1, Same
<1>4. /\ pos[b] \in 1 .. Len(Order) /\ SlugOf(b) \in Slugs /\ VersionOf(b) \in Versions /\ WorkOK(b)
  BY <1>1, AtWork DEF Publishing
<1>5. losses' = losses /\ quiet' = quiet
  BY <1>1 DEF envVars
<1>6. AfterLatest(b)' <=> AfterLatest(b)
  BY <1>1, <1>3 DEF AfterLatest, IsLatest
<1>7. FileAt(b)' = FileAt(b)
  BY <1>1, <1>3 DEF FileAt
<1>8. CASE Fill(b)
  <2>1. phase[b] = "fill" /\ phase'[b] = "rename" /\ tmp' = tmp /\ full' = full \cup {ino[b]}
    BY <1>8 DEF Fill, Goto, LocalsOK
  <2>2. TmpAt(b)' = TmpAt(b)
    BY <1>3, <2>1 DEF TmpAt
  <2>3. WorkOK(b)'
    BY <1>1, <1>3, <1>4, <1>5, <1>6, <2>1, <2>2 DEF WorkOK, Publishing, Writing, Written
  <2> QED BY <1>1, <1>2, <1>4, <2>1, <2>3, StayStep DEF Publishing, Writing
<1>9. CASE Unlink(b)
  <2>1. phase[b] = "unlink" /\ phase'[b] = "digest" /\ full' = full
    BY <1>9 DEF Unlink, Goto, AfterWrite, LocalsOK
  <2>2. WorkOK(b)'
    BY <1>1, <1>3, <1>4, <1>5, <1>6, <1>7, <2>1 DEF WorkOK, Publishing, Writing, Written
  <2> QED BY <1>1, <1>2, <1>4, <2>1, <2>2, StayStep DEF Publishing, Writing
<1>10. CASE FileDigest(b)
  <2>1. phase[b] = "digest" /\ phase'[b] = "record" /\ full' = full
        /\ FileAt(b) # NoFile /\ sum'[b] = Sha(FileAt(b))
    BY <1>10 DEF FileDigest, Goto, fileVars, LocalsOK
  <2>2. FileAt(b) = ino[b]
    BY <1>4, <2>1 DEF WorkOK, Written
  <2>3. sum'[b] = Sha(ino[b])'
    BY <1>1, <2>1, <2>2 DEF Sha
  <2>4. WorkOK(b)'
    BY <1>1, <1>3, <1>4, <1>5, <1>6, <1>7, <2>1, <2>3 DEF WorkOK, Publishing, Writing, Written
  <2> QED BY <1>1, <1>2, <1>4, <2>1, <2>4, StayStep DEF Publishing, Writing
<1> QED BY <1>8, <1>9, <1>10

\* The steps that publish, and stay with their pack.
LEMMA PublishStep ==
  ASSUME BuildInv, AloneOK, NEW b \in Builders, Steps(b),
         phase[b] \in Writing, phase'[b] \in Publishing,
         FilesKeep, pos' = pos, spec' = spec, want' = want, WorkOK(b)',
         \A s \in Slugs \ {SlugOf(b)} : packs'[s] = packs[s] /\ dir'[s] = dir[s],
         NEW t \in Slugs, t = SlugOf(b), SlugOK(t)'
  PROVE  AloneOK'
<1>1. source' = source
  BY BusyStep DEF envVars
<1>2. \A s \in Slugs \ {t} : SlugOK(s)' /\ (Current(s) => Current(s)')
  BY <1>1, SlugKept DEF AloneOK
<1>3. phase[b] \in Publishing /\ pos[b] \in 1 .. Len(Order)
  BY AtWork DEF Publishing
<1>4. b \in quiet => QuietOK(b)'
  BY <1>1, <1>2, <1>3, QuietStay DEF AloneOK
<1> QED BY <1>2, <1>4, OnlyThis

\* A version that a build writes lies above those that are announced.
LEMMA NewVersion ==
  ASSUME BuildInv, NEW b \in Builders, phase[b] \in Publishing, AfterLatest(b), ~Unchanged(b)
  PROVE  \A p \in packs[SlugOf(b)] :
           /\ p.version =< VersionOf(b) - 1
           /\ p.version = VersionOf(b) - 1 => latest[b] # NoPack /\ p.version = latest[b].version
<1> USE TypeParts DEF BuildInv
<1>1. pos[b] =< Len(Order)
  BY DEF PacksInv, BuildOK
<1>2. SlugOf(b) \in Slugs /\ (latest[b] # NoPack => latest[b] \in Pack)
  BY <1>1, PublishTypes
<1>3. packs[SlugOf(b)] \subseteq Pack
  BY <1>2 DEF RowsOK
<1>4. ASSUME NEW p \in packs[SlugOf(b)]
      PROVE  latest[b] # NoPack /\ p.version =< latest[b].version
             /\ VersionOf(b) = latest[b].version + 1
  BY DEF AfterLatest, IsLatest, VersionOf
<1>5. \A p \in packs[SlugOf(b)] : p.version \in Nat
  BY <1>3 DEF Pack, Versions
<1>6. latest[b] # NoPack => latest[b].version \in Nat
  BY <1>2 DEF Pack, Versions
<1> QED BY <1>4, <1>5, <1>6

LEMMA RenameStep ==
  ASSUME BuildInv, AloneOK, NEW b \in Builders, Rename(b)
  PROVE  AloneOK'
<1> USE TypeParts DEF BuildInv
<1>1. /\ Steps(b) /\ phase[b] = "rename" /\ phase'[b] = "unlink"
      /\ packs' = packs /\ content' = content /\ full' = full /\ UNCHANGED envVars
      /\ pos' = pos /\ spec' = spec /\ want' = want /\ latest' = latest /\ ino' = ino
      /\ dir' = [dir EXCEPT ![SlugOf(b)][VersionOf(b)] = TmpAt(b)]
  BY DEF Rename, Renames, Steps, Build, Goto, LocalsOK
<1>2. /\ pos[b] \in 1 .. Len(Order) /\ SlugOf(b) \in Slugs /\ VersionOf(b) \in Versions
      /\ WorkOK(b) /\ SlugOK(SlugOf(b)) /\ packs[SlugOf(b)] \subseteq Pack
  BY <1>1, AtWork DEF Publishing, Writing
<1>3. /\ HasSpec(b) /\ AfterLatest(b) /\ (losses = 0 => ~Unchanged(b))
      /\ ino[b] \in Files /\ ino[b] \in full /\ content[ino[b]] = SpecOf(b) /\ TmpAt(b) = ino[b]
  BY <1>1, <1>2 DEF WorkOK, Publishing, Writing
<1>4. FilesKeep
  BY <1>1 DEF FilesKeep, envVars
<1>5. PICK t \in Slugs : t = SlugOf(b)
  BY <1>2
<1>6. PICK w \in Versions : w = VersionOf(b)
  BY <1>2
<1>7. /\ dir'[t][w] = ino[b]
      /\ \A v \in Versions \ {w} : dir'[t][v] = dir[t][v]
      /\ \A s \in Slugs \ {t} : dir'[s] = dir[s]
  BY <1>1, <1>3, <1>5, <1>6 DEF DiskOK
<1>8. WholeOf(t)'
  BY <1>1, <1>2, <1>3, <1>5, <1>7 DEF WholeOf, SlugOK
<1>9. RecordedOf(t)'
  BY <1>1, <1>2, <1>5 DEF RecordedOf, RowOK, SlugOK
<1>10. ASSUME losses = 0 PROVE ServedOf(t)'
  <2>1. \A p \in packs[t] : p.version =< w - 1
    BY <1>1, <1>3, <1>5, <1>6, <1>10, NewVersion DEF Publishing, Writing
  <2>2. \A p \in packs[t] : p.version \in Versions /\ p.version # w
    BY <1>2, <1>5, <2>1 DEF Pack, Versions
  <2>3. \A p \in packs[t] : IsServed(t, p) => IsServed(t, p)'
    BY <1>1, <1>7, <2>2 DEF IsServed, Sha
  <2>4. \A q : IsLatest(t, q)' <=> IsLatest(t, q)
    BY <1>1 DEF IsLatest
  <2> QED BY <1>1, <1>2, <1>5, <1>10, <2>3, <2>4 DEF ServedOf, SlugOK
<1>11. SlugOK(t)'
  BY <1>4, <1>8, <1>9, <1>10 DEF SlugOK, FilesKeep
<1>12. SlugOf(b)' = t /\ SpecOf(b)' = SpecOf(b) /\ VersionOf(b)' = w
       /\ (HasSpec(b)' <=> HasSpec(b)) /\ (Unchanged(b)' <=> Unchanged(b))
  BY <1>1, <1>5, <1>6, Same
<1>13. FileAt(b)' = ino[b]
  BY <1>7, <1>12 DEF FileAt
<1>14. AfterLatest(b)'
  BY <1>1, <1>3, <1>5, <1>12 DEF AfterLatest, IsLatest
<1>15. losses' = losses /\ quiet' = quiet
  BY <1>1 DEF envVars
<1>16. WorkOK(b)'
  BY <1>1, <1>3, <1>12, <1>13, <1>14, <1>15 DEF WorkOK, Publishing, Writing, Written
<1>17. \A s \in Slugs \ {SlugOf(b)} : packs'[s] = packs[s] /\ dir'[s] = dir[s]
  BY <1>1, <1>5, <1>7
<1> QED BY <1>1, <1>4, <1>5, <1>11, <1>16, <1>17, PublishStep DEF Publishing, Writing

LEMMA InsertStep ==
  ASSUME BuildInv, AloneOK, NEW b \in Builders, InsertPack(b)
  PROVE  AloneOK'
<1> USE TypeParts DEF BuildInv
<1>0. PICK row : row = [version |-> VersionOf(b), hash |-> SpecOf(b), sha |-> sum[b]]
  OBVIOUS
<1>1. /\ Steps(b) /\ phase[b] = "record" /\ phase'[b] = "prune" /\ ~Unchanged(b)
      /\ dir' = dir /\ content' = content /\ full' = full /\ UNCHANGED envVars
      /\ pos' = pos /\ spec' = spec /\ want' = want /\ latest' = latest /\ ino' = ino
      /\ packs' = [packs EXCEPT ![SlugOf(b)] = @ \cup {row}]
  BY <1>0 DEF InsertPack, Inserts, Steps, Build, Goto, fileVars, LocalsOK
<1>2. /\ pos[b] \in 1 .. Len(Order) /\ SlugOf(b) \in Slugs /\ VersionOf(b) \in Versions
      /\ WorkOK(b) /\ SlugOK(SlugOf(b)) /\ packs[SlugOf(b)] \subseteq Pack
  BY <1>1, AtWork DEF Publishing, Writing
<1>3. /\ HasSpec(b) /\ AfterLatest(b) /\ sum[b] = Sha(ino[b])
      /\ ino[b] \in Files /\ ino[b] \in full /\ content[ino[b]] = SpecOf(b)
      /\ (losses = 0 \/ b \in quiet => FileAt(b) = ino[b]) /\ FileAt(b) \in {NoFile, ino[b]}
  BY <1>1, <1>2 DEF WorkOK, Publishing, Writing, Written
<1>4. FilesKeep
  BY <1>1 DEF FilesKeep, envVars
<1>5. PICK t \in Slugs : t = SlugOf(b)
  BY <1>2
<1>6. PICK w \in Versions : w = VersionOf(b)
  BY <1>2
<1>7. /\ packs'[t] = packs[t] \cup {row}
      /\ \A s \in Slugs \ {t} : packs'[s] = packs[s]
  BY <1>1, <1>5 DEF RowsOK
<1>8. row.version = w /\ row.hash = SpecOf(b) /\ row.sha = Sha(ino[b])
  BY <1>0, <1>3, <1>6
<1>9. Sha(ino[b]).file = ino[b]
  BY DEF Sha
<1>10. RowOK(row)'
  BY <1>1, <1>3, <1>8, <1>9 DEF RowOK, HasSpec
<1>11. RecordedOf(t)'
  BY <1>1, <1>2, <1>5, <1>7, <1>10 DEF RecordedOf, RowOK, SlugOK
<1>12. WholeOf(t)'
  BY <1>1, <1>2, <1>5 DEF WholeOf, SlugOK
<1>13. \A p \in packs[t] : /\ p.version \in Nat /\ p.version =< w - 1
                           /\ p.version = w - 1 => latest[b] # NoPack /\ p.version = latest[b].version
  BY <1>1, <1>2, <1>3, <1>5, <1>6, NewVersion DEF Publishing, Writing, Pack, Versions
<1>14. w \in Nat
  BY DEF Versions
<1>15. \A q \in packs'[t] : IsLatest(t, q)' => q = row
  BY <1>7, <1>8, <1>13, <1>14 DEF IsLatest
<1>16. IsLatest(t, row)'
  BY <1>7, <1>8, <1>13, <1>14 DEF IsLatest
<1>17. ASSUME losses = 0 PROVE ServedOf(t)'
  <2>1. IsServed(t, row)'
    BY <1>1, <1>3, <1>5, <1>6, <1>8, <1>17, PacksAssumption DEF IsServed, FileAt, Sha
  <2>2. ASSUME NEW p \in packs[t], p.version >= w - 1 PROVE IsServed(t, p)'
    <3>1. latest[b] # NoPack /\ p.version = latest[b].version
      BY <1>13, <1>14, <2>2
    <3>2. IsLatest(t, latest[b]) /\ latest[b] \in packs[t]
      BY <1>3, <1>5, <3>1 DEF AfterLatest, IsLatest
    <3>3. p.version >= latest[b].version - 1
      BY <1>13, <3>1
    <3>4. IsServed(t, p)
      BY <1>2, <1>5, <1>17, <3>2, <3>3 DEF SlugOK, ServedOf
    <3> QED BY <1>1, <3>4 DEF IsServed, Sha
  <2>3. ASSUME NEW p \in packs'[t], NEW q \in packs'[t], IsLatest(t, q)', p.version >= q.version - 1
        PROVE  IsServed(t, p)'
    <3>1. q.version = w
      BY <1>8, <1>15, <2>3
    <3> QED BY <1>7, <2>1, <2>2, <2>3, <3>1
  <2> QED BY <2>3 DEF ServedOf
<1>18. SlugOK(t)'
  BY <1>4, <1>11, <1>12, <1>17 DEF SlugOK, FilesKeep
<1>19. SlugOf(b)' = t /\ SpecOf(b)' = SpecOf(b) /\ VersionOf(b)' = w
       /\ (HasSpec(b)' <=> HasSpec(b)) /\ (Unchanged(b)' <=> Unchanged(b))
  BY <1>1, <1>5, <1>6, Same
<1>20. FileAt(b)' = FileAt(b) /\ Sha(ino[b])' = Sha(ino[b])
  BY <1>1, <1>5, <1>6, <1>19 DEF FileAt, Sha
<1>21. row \in packs'[t]
  BY <1>7
<1>22. Inserted(b)'
  BY <1>1, <1>8, <1>16, <1>19, <1>20, <1>21 DEF Inserted
<1>23. losses' = losses /\ quiet' = quiet
  BY <1>1 DEF envVars
<1>24. WorkOK(b)'
  BY <1>1, <1>3, <1>19, <1>20, <1>22, <1>23 DEF WorkOK, Publishing, Writing, Written
<1>25. \A s \in Slugs \ {SlugOf(b)} : packs'[s] = packs[s] /\ dir'[s] = dir[s]
  BY <1>1, <1>5, <1>7
<1> QED BY <1>1, <1>4, <1>5, <1>18, <1>24, <1>25, PublishStep DEF Publishing, Writing

\* The steps that publish, and go on to the next pack.
LEMMA LeaveStep ==
  ASSUME BuildInv, AloneOK, NEW b \in Builders, Steps(b),
         phase[b] \in Writing, phase'[b] = "publish",
         FilesKeep, pos'[b] = pos[b] + 1, spec' = spec, want' = want,
         \A s \in Slugs \ {SlugOf(b)} : packs'[s] = packs[s] /\ dir'[s] = dir[s],
         NEW t \in Slugs, t = SlugOf(b), SlugOK(t)',
         b \in quiet /\ SpecOf(b) = <<source[t], source[t]>> => Current(t)'
  PROVE  AloneOK'
<1>1. source' = source
  BY BusyStep DEF envVars
<1>2. \A s \in Slugs \ {t} : SlugOK(s)' /\ (Current(s) => Current(s)')
  BY <1>1, SlugKept DEF AloneOK
<1>3. phase[b] \in Publishing /\ pos[b] \in 1 .. Len(Order)
  BY AtWork DEF Publishing
<1>4. b \in quiet => QuietOK(b)'
  BY <1>1, <1>2, <1>3, QuietNext DEF AloneOK
<1>5. WorkOK(b)'
  BY DEF WorkOK, Publishing, Writing, Written
<1> QED BY <1>2, <1>4, <1>5, OnlyThis

\* A row is rewritten only after its file was lost.
LEMMA UpdateStep ==
  ASSUME BuildInv, VersionsOK, AloneOK, NEW b \in Builders, UpdatePackFile(b)
  PROVE  AloneOK'
<1> USE TypeParts DEF BuildInv
<1> DEFINE rewritten(p) == IF p.version = latest[b].version THEN [p EXCEPT !.sha = sum[b]] ELSE p
<1>1. /\ Steps(b) /\ phase[b] = "record" /\ phase'[b] = "publish" /\ Unchanged(b)
      /\ dir' = dir /\ content' = content /\ full' = full /\ UNCHANGED envVars
      /\ pos'[b] = pos[b] + 1 /\ spec' = spec /\ want' = want
      /\ packs' = [packs EXCEPT ![SlugOf(b)] = {rewritten(p) : p \in @}]
  BY DEF UpdatePackFile, NextSlug, Steps, Build, Goto, fileVars, LocalsOK
<1>2. /\ pos[b] \in 1 .. Len(Order) /\ SlugOf(b) \in Slugs /\ VersionOf(b) \in Versions
      /\ WorkOK(b) /\ SlugOK(SlugOf(b)) /\ packs[SlugOf(b)] \subseteq Pack
  BY <1>1, AtWork DEF Publishing, Writing
<1>3. /\ HasSpec(b) /\ AfterLatest(b) /\ sum[b] = Sha(ino[b])
      /\ ino[b] \in Files /\ content[ino[b]] = SpecOf(b) /\ losses # 0
      /\ (b \in quiet => FileAt(b) = ino[b])
  BY <1>1, <1>2 DEF WorkOK, Publishing, Writing, Written
<1>4. FilesKeep
  BY <1>1 DEF FilesKeep, envVars
<1>5. PICK t \in Slugs : t = SlugOf(b)
  BY <1>2
<1>6. PICK old \in packs[t] : old = latest[b] /\ IsLatest(t, old) /\ old.hash = SpecOf(b)
                              /\ VersionOf(b) = old.version
  BY <1>1, <1>3, <1>5 DEF AfterLatest, Unchanged, IsLatest, VersionOf
<1>7. PICK row : row = [old EXCEPT !.sha = sum[b]]
  OBVIOUS
<1>8. row.version = old.version /\ row.hash = old.hash /\ row.sha = sum[b]
  BY <1>2, <1>5, <1>6, <1>7 DEF Pack
<1>9. \A p \in packs[t] : rewritten(p) = IF p = old THEN row ELSE p
  BY <1>5, <1>6, <1>7 DEF VersionsOK
<1>10. /\ packs'[t] = {rewritten(p) : p \in packs[t]}
       /\ \A s \in Slugs \ {t} : packs'[s] = packs[s]
  BY <1>1, <1>5 DEF RowsOK
<1>11. \A p \in packs'[t] : p = row \/ p \in packs[t]
  BY <1>9, <1>10
<1> HIDE DEF rewritten
<1>12. rewritten(old) \in packs'[t]
  BY <1>10
<1>13. row \in packs'[t]
  BY <1>9, <1>12
<1>14. Sha(ino[b]).file = ino[b]
  BY DEF Sha
<1>15. RowOK(row)'
  BY <1>1, <1>3, <1>6, <1>8, <1>14 DEF RowOK, HasSpec
<1>16. RecordedOf(t)'
  BY <1>1, <1>2, <1>5, <1>11, <1>15 DEF RecordedOf, RowOK, SlugOK
<1>17. WholeOf(t)'
  BY <1>1, <1>2, <1>5 DEF WholeOf, SlugOK
<1>18. SlugOK(t)'
  BY <1>3, <1>4, <1>16, <1>17 DEF SlugOK, FilesKeep
<1>19. ASSUME b \in quiet, SpecOf(b) = <<source[t], source[t]>> PROVE Current(t)'
  <2>1. IsLatest(t, row)'
    BY <1>2, <1>5, <1>6, <1>8, <1>11, <1>13 DEF IsLatest, Pack, Versions
  <2>2. dir'[t][row.version] = ino[b] /\ ino[b] # NoFile
    BY <1>1, <1>3, <1>5, <1>6, <1>8, <1>19, PacksAssumption DEF FileAt
  <2>3. IsServed(t, row)'
    BY <1>1, <1>3, <1>8, <2>2 DEF IsServed, Sha
  <2>4. row.hash = <<source[t], source[t]>> /\ source' = source
    BY <1>1, <1>6, <1>8, <1>19 DEF envVars
  <2>5. content'[dir'[t][row.version]] = row.hash
    BY <1>1, <1>3, <1>6, <1>8, <2>2
  <2> QED BY <1>13, <2>1, <2>3, <2>4, <2>5 DEF Current
<1>20. \A s \in Slugs \ {SlugOf(b)} : packs'[s] = packs[s] /\ dir'[s] = dir[s]
  BY <1>1, <1>5, <1>10
<1> QED BY <1>1, <1>4, <1>5, <1>18, <1>19, <1>20, LeaveStep DEF Writing

\* What is removed lies at least two versions below the latest row.
LEMMA PruneStep ==
  ASSUME BuildInv, AloneOK, NEW b \in Builders, Prune(b)
  PROVE  AloneOK'
<1> USE TypeParts DEF BuildInv
<1>1. /\ Steps(b) /\ phase[b] = "prune" /\ phase'[b] = "publish"
      /\ packs' = packs /\ content' = content /\ full' = full /\ UNCHANGED envVars
      /\ pos'[b] = pos[b] + 1 /\ spec' = spec /\ want' = want
      /\ dir' = [dir EXCEPT ![SlugOf(b)] =
                   [v \in Versions |-> IF v \in Pruned(VersionOf(b)) THEN NoFile ELSE @[v]]]
  BY DEF Prune, NextSlug, Steps, Build, Goto, LocalsOK
<1>2. /\ pos[b] \in 1 .. Len(Order) /\ SlugOf(b) \in Slugs /\ VersionOf(b) \in Versions
      /\ WorkOK(b) /\ SlugOK(SlugOf(b)) /\ packs[SlugOf(b)] \subseteq Pack
  BY <1>1, AtWork DEF Publishing, Writing
<1>3. /\ Inserted(b) /\ HasSpec(b) /\ ino[b] \in Files /\ content[ino[b]] = SpecOf(b)
      /\ (b \in quiet => FileAt(b) = ino[b])
  BY <1>1, <1>2 DEF WorkOK, Publishing, Writing, Written
<1>4. FilesKeep
  BY <1>1 DEF FilesKeep, envVars
<1>5. PICK t \in Slugs : t = SlugOf(b)
  BY <1>2
<1>6. PICK w \in Versions : w = VersionOf(b)
  BY <1>2
<1>7. PICK row \in packs[t] : /\ IsLatest(t, row) /\ row.version = w
                             /\ row.hash = SpecOf(b) /\ row.sha = Sha(ino[b])
  BY <1>3, <1>5, <1>6 DEF Inserted
<1>8. /\ \A v \in Versions : dir'[t][v] = IF v \in Pruned(w) THEN NoFile ELSE dir[t][v]
      /\ \A s \in Slugs \ {t} : dir'[s] = dir[s]
  BY <1>1, <1>5, <1>6 DEF DiskOK
<1>9. ASSUME NEW v \in Versions, v >= w - 1 PROVE dir'[t][v] = dir[t][v]
  BY <1>8, <1>9 DEF Pruned, Versions
<1>10. WholeOf(t)'
  BY <1>1, <1>2, <1>5, <1>8 DEF WholeOf, SlugOK
<1>11. RecordedOf(t)'
  BY <1>1, <1>2, <1>5 DEF RecordedOf, RowOK, SlugOK
<1>12. \A q : IsLatest(t, q)' <=> IsLatest(t, q)
  BY <1>1 DEF IsLatest
<1>13. \A p \in packs[t] : p.version \in Versions
  BY <1>2, <1>5 DEF Pack
<1>14. ASSUME losses = 0 PROVE ServedOf(t)'
  <2>1. ASSUME NEW p \in packs[t], NEW q \in packs[t], IsLatest(t, q), p.version >= q.version - 1
        PROVE  IsServed(t, p)'
    <3>1. IsServed(t, p)
      BY <1>2, <1>5, <1>14, <2>1 DEF SlugOK, ServedOf
    <3>2. q.version = w
      BY <1>7, <1>13, <2>1 DEF IsLatest, Versions
    <3>3. dir'[t][p.version] = dir[t][p.version]
      BY <1>9, <1>13, <2>1, <3>2
    <3> QED BY <1>1, <3>1, <3>3 DEF IsServed, Sha
  <2> QED BY <1>1, <1>12, <2>1 DEF ServedOf
<1>15. SlugOK(t)'
  BY <1>4, <1>10, <1>11, <1>14 DEF SlugOK, FilesKeep
<1>16. ASSUME b \in quiet, SpecOf(b) = <<source[t], source[t]>> PROVE Current(t)'
  <2>1. w >= w - 1
    BY DEF Versions
  <2>2. dir'[t][w] = ino[b] /\ ino[b] # NoFile
    BY <1>3, <1>5, <1>6, <1>9, <1>16, <2>1, PacksAssumption DEF FileAt
  <2>3. IsServed(t, row)'
    BY <1>1, <1>7, <2>2 DEF IsServed, Sha
  <2>4. row.hash = <<source[t], source[t]>> /\ source' = source
    BY <1>1, <1>7, <1>16 DEF envVars
  <2>5. content'[dir'[t][row.version]] = row.hash
    BY <1>1, <1>3, <1>7, <2>2
  <2>6. row \in packs'[t] /\ IsLatest(t, row)'
    BY <1>1, <1>7, <1>12
  <2> QED BY <2>3, <2>4, <2>5, <2>6 DEF Current
<1>17. \A s \in Slugs \ {SlugOf(b)} : packs'[s] = packs[s] /\ dir'[s] = dir[s]
  BY <1>1, <1>5, <1>8
<1> QED BY <1>1, <1>4, <1>5, <1>15, <1>16, <1>17, LeaveStep DEF Writing

\* The world around the builds.
LEMMA ImportStep ==
  ASSUME BuildInv, AloneOK, NEW s \in Slugs, NEW t \in Texts, Import(s, t)
  PROVE  AloneOK'
<1>1. /\ packs' = packs /\ quiet' = {} /\ UNCHANGED fileVars /\ UNCHANGED buildVars /\ losses' = losses
  BY DEF Import
<1>2. FilesKeep /\ dir' = dir
  BY <1>1 DEF FilesKeep, fileVars
<1>3. \A u \in Slugs : SlugOK(u)'
  BY <1>1, <1>2, SlugKept DEF AloneOK
<1>4. Alone'
  BY <1>1 DEF AloneOK, Alone, Busy, buildVars
<1>5. ASSUME NEW b \in Builders PROVE WorkOK(b)'
  <2>1. WorkOK(b)
    BY DEF AloneOK
  <2> QED BY <1>1, <2>1
          DEF WorkOK, fileVars, buildVars, HasSpec, SpecOf, SlugOf, AfterLatest, IsLatest, TmpAt, FileAt,
              VersionOf, Unchanged, Sha, Inserted
<1> QED BY <1>1, <1>3, <1>4, <1>5 DEF AloneOK

LEMMA LoseStep ==
  ASSUME BuildInv, AloneOK, NEW s \in Slugs, NEW v \in Versions, LoseFile(s, v)
  PROVE  AloneOK'
<1> USE TypeParts DEF BuildInv
<1>1. /\ packs' = packs /\ quiet' = {} /\ content' = content /\ full' = full /\ tmp' = tmp
      /\ UNCHANGED buildVars /\ losses' # 0
      /\ dir' = [dir EXCEPT ![s][v] = NoFile]
  BY DEF LoseFile, EnvOK
<1>2. \A u \in Slugs, w \in Versions : dir'[u][w] \in {NoFile, dir[u][w]}
  BY <1>1 DEF DiskOK
<1>3. ASSUME NEW u \in Slugs PROVE SlugOK(u)'
  <2>1. SlugOK(u)
    BY DEF AloneOK
  <2>2. WholeOf(u)'
    BY <1>1, <1>2, <2>1 DEF WholeOf, SlugOK
  <2>3. RecordedOf(u)'
    BY <1>1, <2>1 DEF RecordedOf, RowOK, SlugOK
  <2> QED BY <1>1, <2>2, <2>3 DEF SlugOK
<1>4. Alone'
  BY <1>1 DEF AloneOK, Alone, Busy, buildVars
<1>5. ASSUME NEW b \in Builders PROVE WorkOK(b)'
  <2>1. WorkOK(b)
    BY DEF AloneOK
  <2>2. pos' = pos /\ spec' = spec /\ latest' = latest /\ phase' = phase /\ ino' = ino /\ sum' = sum
    BY <1>1 DEF buildVars
  <2>3. SlugOf(b)' = SlugOf(b) /\ SpecOf(b)' = SpecOf(b) /\ VersionOf(b)' = VersionOf(b)
        /\ (HasSpec(b)' <=> HasSpec(b)) /\ (Unchanged(b)' <=> Unchanged(b))
    BY <2>2, Same
  <2>4. /\ AfterLatest(b)' <=> AfterLatest(b)
        /\ Inserted(b)' <=> Inserted(b)
        /\ TmpAt(b)' = TmpAt(b)
        /\ Sha(ino[b])' = Sha(ino[b])
    BY <1>1, <2>2, <2>3 DEF AfterLatest, Inserted, IsLatest, TmpAt, Sha
  <2>5. ASSUME phase[b] \in Written, FileAt(b) \in {NoFile, ino[b]} PROVE FileAt(b)' \in {NoFile, ino[b]}
    <3>1. SlugOf(b) \in Slugs /\ VersionOf(b) \in Versions
      BY <2>5, AtWork DEF Written, Publishing, Writing
    <3> QED BY <1>2, <2>3, <2>5, <3>1 DEF FileAt
  <2>6. phase[b] \in Written => FileAt(b)' \in {NoFile, ino[b]}
    BY <2>1, <2>5 DEF WorkOK
  <2> QED BY <1>1, <2>1, <2>2, <2>3, <2>4, <2>6 DEF WorkOK
<1> QED BY <1>1, <1>3, <1>4, <1>5 DEF AloneOK

LEMMA StartStep ==
  ASSUME BuildInv, AloneOK, NEW b \in Builders, NEW slugs \in SUBSET Slugs, Start(b, slugs), ~overlapped'
  PROVE  AloneOK'
<1> USE TypeParts DEF BuildInv
<1>1. /\ packs' = packs /\ source' = source /\ UNCHANGED fileVars /\ losses' = losses
      /\ phase'[b] = "collect" /\ pos'[b] = pos[b] /\ \A c \in Builders \ {b} : phase'[c] = phase[c]
      /\ ~Busy(b)
  BY DEF Start, Goto, LocalsOK
<1>2. (\A c \in Builders : ~Busy(c)) /\ quiet' = {b}
  BY DEF Start
<1>3. FilesKeep /\ dir' = dir
  BY <1>1 DEF FilesKeep, fileVars
<1>4. \A u \in Slugs : SlugOK(u)'
  BY <1>1, <1>3, SlugKept DEF AloneOK
<1>5. \A c \in Builders \ {b} : ~Busy(c)' /\ WorkOK(c)'
  BY <1>1, <1>2 DEF Busy, WorkOK, Publishing, Writing, Written
<1>6. WorkOK(b)'
  BY <1>1 DEF WorkOK, Publishing, Writing, Written
<1>7. pos[b] = 1
  BY <1>1 DEF PacksInv, BuildOK
<1>8. \A i \in DOMAIN Order : ~(2 * i < 1) /\ 2 * i # 1
  BY ListLength, PacksAssumption
<1>9. CollectOK(b)'
  BY <1>1, <1>7, <1>8 DEF CollectOK
<1>10. QuietOK(b)'
  BY <1>1, <1>9 DEF QuietOK, Publishing, Writing
<1>11. Alone'
  BY <1>2, <1>5 DEF Alone
<1> QED BY <1>2, <1>4, <1>5, <1>6, <1>10, <1>11 DEF AloneOK

LEMMA AloneInit == Init => AloneInv
<1> SUFFICES ASSUME Init PROVE AloneOK
  BY DEF AloneInv
<1>1. \A s \in Slugs : SlugOK(s)
  BY DEF Init, SlugOK, WholeOf, RecordedOf, ServedOf
<1>2. \A b \in Builders : ~Busy(b) /\ WorkOK(b)
  BY DEF Init, Busy, WorkOK, Publishing, Writing, Written
<1>3. quiet = {}
  BY DEF Init
<1> QED BY <1>1, <1>2, <1>3 DEF AloneOK, Alone

LEMMA AloneStep ==
  ASSUME BuildInv, VersionsOK, AloneInv, [Next]_vars
  PROVE  AloneInv'
<1> SUFFICES ASSUME ~overlapped' PROVE AloneOK'
  BY DEF AloneInv
<1>1. overlapped => overlapped'
  <2>1. ASSUME NEW b \in Builders, Steps(b) PROVE overlapped => overlapped'
    BY <2>1, BusyStep DEF envVars
  <2> QED BY <2>1 DEF Next, Steps, Import, LoseFile, Start, vars
<1>2. AloneOK
  BY <1>1 DEF AloneInv
<1>3. CASE UNCHANGED vars
  <2>1. FilesKeep /\ packs' = packs /\ dir' = dir /\ source' = source /\ quiet' = quiet /\ want' = want
        /\ UNCHANGED fileVars /\ UNCHANGED buildVars /\ losses' = losses
    BY <1>3 DEF vars, FilesKeep, fileVars, buildVars
  <2>2. \A s \in Slugs : SlugOK(s)' /\ (Current(s) => Current(s)')
    BY <1>2, <2>1, SlugsKept DEF AloneOK
  <2>3. Alone'
    BY <1>2, <2>1 DEF AloneOK, Alone, Busy, buildVars
  <2>4. \A b \in Builders : WorkOK(b)'
    BY <1>2, <2>1
    DEF AloneOK, WorkOK, fileVars, buildVars, HasSpec, SpecOf, SlugOf, AfterLatest, IsLatest, TmpAt, FileAt,
        VersionOf, Unchanged, Sha, Inserted
  <2>5. ASSUME NEW b \in quiet PROVE QuietOK(b)'
    <3>1. QuietOK(b) /\ b \in Builders
      BY <1>2 DEF AloneOK, BuildInv, TypeOK
    <3>2. \A i \in DOMAIN Order : Order[i] \in Slugs
      BY DEF Slugs
    <3>3. want[b] \subseteq Slugs
      BY <3>1 DEF BuildInv, TypeOK
    <3>4. phase[b] = "collect" => CollectOK(b)'
      BY <2>1, <3>1 DEF QuietOK, CollectOK, Collected, buildVars
    <3>5. phase[b] \in {"publish"} \cup Publishing => PublishOK(b)'
      BY <2>1, <2>2, <3>1, <3>2 DEF QuietOK, PublishOK, Collected, buildVars
    <3>6. phase[b] = "done" => \A s \in want[b] : source[s] # NoText => Current(s)'
      BY <2>2, <3>1, <3>3 DEF QuietOK
    <3> QED BY <2>1, <3>4, <3>5, <3>6 DEF QuietOK, buildVars
  <2> QED BY <2>1, <2>2, <2>3, <2>4, <2>5 DEF AloneOK
<1>4. ASSUME NEW b \in Builders, Steps(b) PROVE AloneOK'
  BY <1>2, <1>4, CollectStep, EndStep, SkipStep, LatestStep, OpenStep, FillStep, RenameStep, InsertStep,
     UpdateStep, PruneStep
  DEF Steps, Build
<1> QED BY <1>2, <1>3, <1>4, ImportStep, LoseStep, StartStep DEF Next, Steps

BuildsInv == BuildInv /\ VersionsOK /\ AloneInv

LEMMA BuildsStay == Spec => []BuildsInv
<1>1. Init => BuildsInv
  BY InitInv, AloneInit DEF BuildsInv, Init, VersionsOK
<1>2. BuildsInv /\ [Next]_vars => BuildsInv'
  BY InvStep, VersionsStep, AloneStep DEF BuildsInv
<1> QED BY <1>1, <1>2, PTL DEF Spec

\* A file under a published name was written to the end before it got there, as
\* long as builds run one at a time, whatever they die of (build.go:317).
THEOREM PublishedWhole == Spec => []FilesWholeAlone
<1>1. BuildsInv => FilesWholeAlone
  BY DEF BuildsInv, AloneInv, AloneOK, SlugOK, WholeOf, FilesWholeAlone
<1> QED BY <1>1, BuildsStay, PTL

\* Unless a file is lost, a client that read the manifest finds the files of the
\* latest two versions with the digests announced, at every step of a build
\* (build.go:302-315).
THEOREM ManifestServed == Spec => []LatestTwoServed
<1>1. BuildsInv => LatestTwoServed
  <2> SUFFICES ASSUME BuildsInv, ~overlapped, losses = 0, NEW s \in Slugs, NEW p \in packs[s],
                      NEW q \in packs[s], IsLatest(s, q), p.version >= q.version - 1
               PROVE  dir[s][p.version] # NoFile /\ Sha(dir[s][p.version]) = p.sha
    BY DEF LatestTwoServed
  <2> QED BY DEF BuildsInv, AloneInv, AloneOK, SlugOK, ServedOf, IsServed
<1> QED BY <1>1, BuildsStay, PTL

\* A build that nothing disturbed leaves each pack it was asked for at a version
\* that describes its source and whose file is there, from any state that
\* earlier builds, imports and lost files have left (build.go:262-279).
THEOREM BuildsConverge == Spec => []BuildConverges
<1>1. BuildsInv => BuildConverges
  <2> SUFFICES ASSUME BuildsInv, ~overlapped, NEW b \in quiet, phase[b] = "done",
                      NEW s \in want[b], source[s] # NoText
               PROVE  Current(s)
    BY DEF BuildConverges, Current, IsServed
  <2> QED BY DEF BuildsInv, AloneInv, AloneOK, QuietOK
<1> QED BY <1>1, BuildsStay, PTL
=============================================================================
