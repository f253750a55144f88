---------------------------- MODULE DeployProofs ----------------------------
(***************************************************************************)
(* Proofs about Deploy, for any number of deploys, any releases and schemas, *)
(* any number of kept releases and any faults.                              *)
(***************************************************************************)
EXTENDS Deploy, SequenceTheorems, TLAPS

Commands == {"ready", "readlink", "migrate", "packs", "unit", "link", "move", "restart", "check",
             "prune", "link back", "move back", "restart back"} \cup Over

\* TypeOK in parts.
ScriptOK == pc \in [Deploys -> Commands] /\ prev \in [Deploys -> Releases \cup {NoRelease}] /\ tries \in [Deploys -> Nat]
DiskOK   == disk \in Seq(Releases)
LinksOK  == {current, tmp, unit, running} \subseteq Releases \cup {NoRelease}
DbOK     == schema \in Nat /\ faults \in Nat /\ dbUp \in BOOLEAN
HostOK   == api \in {"stopped", "starting", "failed", "serving"}
NotesOK  == overlapped \in BOOLEAN /\ unlinked \subseteq Deploys

LEMMA TypeParts ==
  /\ TypeOK <=> ScriptOK /\ DiskOK /\ LinksOK /\ DbOK /\ HostOK /\ NotesOK
  /\ TypeOK' <=> ScriptOK' /\ DiskOK' /\ LinksOK' /\ DbOK' /\ HostOK' /\ NotesOK'
BY DEF TypeOK, ScriptOK, DiskOK, LinksOK, DbOK, HostOK, NotesOK, Commands

\* What the script knows of the database: a release that was migrated, or that the
\* link has pointed to, has its migrations applied.
Ready(r) == r \in Releases => SchemaOf[r] <= schema
ReadyInv ==
  /\ Ready(current) /\ Ready(tmp) /\ Ready(running)
  /\ \A d \in Deploys : Ready(prev[d])
  /\ \A d \in Deploys : pc[d] \in {"packs", "unit", "link"} => Ready(d)

LEMMA ReleaseTypes ==
  /\ Deploys \subseteq Releases
  /\ Initial \in Releases
  /\ \A r \in Releases : SchemaOf[r] \in Nat
  /\ NoRelease \notin Releases
  /\ KEEP \in Nat \ {0}
BY DeployAssumption DEF DeployAssumption, Releases

\* Pruning leaves releases.
LEMMA KeptType == ASSUME DiskOK PROVE Kept \in Seq(Releases)
<1>1. CASE Len(disk) <= KEEP
  BY <1>1 DEF DiskOK, Kept, Newest
<1>2. CASE ~(Len(disk) <= KEEP)
  <2>1. KEEP \in Nat \ {0} /\ Len(disk) \in Nat
    BY ReleaseTypes DEF DiskOK
  <2> DEFINE m == Len(disk) - KEEP + 1
  <2>2. m \in Int /\ m >= 1
    BY <1>2, <2>1
  <2>3. \A i \in m .. Len(disk) : disk[i] \in Releases
    BY <2>1, <2>2 DEF DiskOK
  <2>4. SubSeq(disk, m, Len(disk)) \in Seq(Releases)
    BY <2>1, <2>2, <2>3, SubSeqProperties
  <2> QED BY <1>2, <2>4 DEF Kept, Newest
<1> QED BY <1>1, <1>2

-----------------------------------------------------------------------------
LEMMA InitType == Init => TypeOK /\ ReadyInv
<1> SUFFICES ASSUME Init PROVE TypeOK /\ ReadyInv
  OBVIOUS
<1>1. ScriptOK
  BY DEF Init, ScriptOK, Commands
<1>2. DiskOK
  <2>1. <<>> \in Seq(Releases) /\ <<Initial>> \in Seq(Releases)
    BY ReleaseTypes
  <2> QED BY <2>1 DEF Init, DiskOK
<1>5. LinksOK
  BY ReleaseTypes DEF Init, LinksOK
<1>6. HostOK /\ NotesOK
  BY DEF Init, HostOK, NotesOK
<1>3. DbOK
  BY ReleaseTypes DEF Init, DbOK
<1>4. ReadyInv
  BY ReleaseTypes DEF Init, ReadyInv, Ready
<1> QED BY <1>1, <1>2, <1>3, <1>4, <1>5, <1>6, TypeParts

\* The script's own variables, for every command.
LEMMA ScriptType == ASSUME ScriptOK, LinksOK, [Next]_vars PROVE ScriptOK'
<1>1. ASSUME NEW d \in Deploys, Upload(d) PROVE ScriptOK'
  BY <1>1 DEF Upload, Goto, ScriptOK, Commands
<1>2. ASSUME NEW d \in Deploys, ReadPrev(d) PROVE ScriptOK'
  BY <1>2 DEF ReadPrev, Goto, ScriptOK, LinksOK, Commands
<1>3. ASSUME NEW d \in Deploys, Migrate(d) PROVE ScriptOK'
  BY <1>3 DEF Migrate, Then, Goto, ScriptOK, Commands, Over
<1>4. ASSUME NEW d \in Deploys, BuildPacks(d) \/ InstallUnit(d) PROVE ScriptOK'
  BY <1>4 DEF BuildPacks, InstallUnit, Step, Then, Goto, ScriptOK, Commands
<1>5. ASSUME NEW d \in Deploys, LinkNew(d) \/ LinkPrev(d) PROVE ScriptOK'
  BY <1>5 DEF LinkNew, LinkPrev, Link, Step, Then, Goto, ScriptOK, Commands
<1>6. ASSUME NEW d \in Deploys, MoveNew(d) \/ MovePrev(d) PROVE ScriptOK'
  BY <1>6 DEF MoveNew, MovePrev, Move, Step, Then, Goto, ScriptOK, Commands
<1>7. ASSUME NEW d \in Deploys, RestartNew(d) \/ RestartPrev(d) PROVE ScriptOK'
  BY <1>7 DEF RestartNew, RestartPrev, Restart, Step, Then, Goto, ScriptOK, Commands, Over
<1>8. ASSUME NEW d \in Deploys, Check(d) PROVE ScriptOK'
  <2>1. pc' \in [Deploys -> Commands]
    BY <1>8 DEF Check, Goto, ScriptOK, Commands, Over
  <2>2. tries' \in [Deploys -> Nat]
    <3>1. tries' = [tries EXCEPT ![d] = tries[d] + 1]
      BY <1>8 DEF Check
    <3> QED BY <3>1 DEF ScriptOK
  <2>3. prev' = prev
    BY <1>8 DEF Check
  <2> QED BY <2>1, <2>2, <2>3 DEF ScriptOK
<1>9. ASSUME NEW d \in Deploys, Prune(d) PROVE ScriptOK'
  BY <1>9 DEF Prune, Step, Then, Goto, ScriptOK, Commands, Over
<1>10. ASSUME NEW d \in Deploys, LinkNewFails(d) \/ LinkPrevFails(d) PROVE ScriptOK'
  BY <1>10 DEF LinkNewFails, LinkPrevFails, LinkFails, Goto, ScriptOK, Commands
<1>11. ASSUME NEW d \in Deploys, Exit(d) PROVE ScriptOK'
  BY <1>11 DEF Exit, Then, Goto, ScriptOK, Commands, Over
<1>12. ASSUME Start \/ Retry \/ Crash \/ DbDown \/ DbUp PROVE ScriptOK'
  BY <1>12 DEF Start, Retry, Crash, DbDown, DbUp, script, ScriptOK
<1>13. CASE UNCHANGED vars
  BY <1>13 DEF vars, ScriptOK
<1> QED BY <1>1, <1>2, <1>3, <1>4, <1>5, <1>6, <1>7, <1>8, <1>9, <1>10, <1>11, <1>12, <1>13 DEF Next, Script

LEMMA DiskType == ASSUME DiskOK, [Next]_vars PROVE DiskOK'
<1>1. ASSUME NEW d \in Deploys, Upload(d) PROVE DiskOK'
  BY <1>1, ReleaseTypes DEF Upload, DiskOK
<1>2. ASSUME NEW d \in Deploys, Prune(d) PROVE DiskOK'
  BY <1>2, KeptType DEF Prune, DiskOK
<1>3. ASSUME NEW d \in Deploys,
             ReadPrev(d) \/ Migrate(d) \/ BuildPacks(d) \/ InstallUnit(d) \/ Check(d) \/ Exit(d)
      PROVE  DiskOK'
  BY <1>3 DEF ReadPrev, Migrate, BuildPacks, InstallUnit, Check, Exit, files, DiskOK
<1>4. ASSUME NEW d \in Deploys,
             LinkNew(d) \/ LinkPrev(d) \/ MoveNew(d) \/ MovePrev(d) \/ RestartNew(d) \/ RestartPrev(d)
             \/ LinkNewFails(d) \/ LinkPrevFails(d)
      PROVE  DiskOK'
  BY <1>4 DEF LinkNew, LinkPrev, MoveNew, MovePrev, RestartNew, RestartPrev, LinkNewFails, LinkPrevFails,
              Link, Move, Restart, LinkFails, files, DiskOK
<1>5. ASSUME Start \/ Retry \/ Crash \/ DbDown \/ DbUp PROVE DiskOK'
  BY <1>5 DEF Start, Retry, Crash, DbDown, DbUp, files, DiskOK
<1>6. CASE UNCHANGED vars
  BY <1>6 DEF vars, DiskOK
<1> QED BY <1>1, <1>2, <1>3, <1>4, <1>5, <1>6 DEF Next, Script

LEMMA DbType == ASSUME DbOK, [Next]_vars PROVE DbOK' /\ schema' >= schema
<1>1. ASSUME NEW d \in Deploys, Migrate(d) PROVE DbOK' /\ schema' >= schema
  <2>1. SchemaOf[d] \in Nat
    BY ReleaseTypes
  <2> QED BY <1>1, <2>1 DEF Migrate, world, DbOK
<1>2. ASSUME NEW d \in Deploys,
             \/ Upload(d) \/ ReadPrev(d) \/ BuildPacks(d) \/ InstallUnit(d) \/ Check(d) \/ Prune(d) \/ Exit(d)
             \/ LinkNew(d) \/ LinkPrev(d) \/ MoveNew(d) \/ MovePrev(d) \/ RestartNew(d) \/ RestartPrev(d)
             \/ LinkNewFails(d) \/ LinkPrevFails(d)
      PROVE  UNCHANGED <<schema, faults, dbUp>>
  BY <1>2 DEF Upload, ReadPrev, BuildPacks, InstallUnit, Check, Prune, Exit, LinkNew, LinkPrev, MoveNew, MovePrev,
              RestartNew, RestartPrev, LinkNewFails, LinkPrevFails, Link, Move, Restart, LinkFails, world
<1>3. ASSUME Start \/ Retry PROVE UNCHANGED <<schema, faults, dbUp>>
  BY <1>3 DEF Start, Retry, world
<1>4. ASSUME Crash \/ DbDown \/ DbUp PROVE DbOK' /\ schema' = schema
  <2>1. CASE Crash
    <3>1. schema' = schema /\ faults' = faults + 1
      BY <2>1 DEF Crash
    <3>2. dbUp' = dbUp
      BY <2>1 DEF Crash
    <3>3. dbUp' \in BOOLEAN
      BY <3>2, Zenon DEF DbOK
    <3>4. schema' \in Nat /\ faults' \in Nat
      BY <3>1 DEF DbOK
    <3> QED BY <3>1, <3>3, <3>4 DEF DbOK
  <2>2. CASE DbDown
    <3>1. schema' = schema /\ faults' = faults + 1
      BY <2>2 DEF DbDown
    <3>2. dbUp' \in BOOLEAN
      BY <2>2 DEF DbDown
    <3>3. schema' \in Nat /\ faults' \in Nat
      BY <3>1 DEF DbOK
    <3> QED BY <3>1, <3>2, <3>3 DEF DbOK
  <2>3. CASE DbUp
    <3>1. schema' = schema /\ faults' = faults
      BY <2>3 DEF DbUp
    <3>2. dbUp' \in BOOLEAN
      BY <2>3 DEF DbUp
    <3>3. schema' \in Nat /\ faults' \in Nat
      BY <3>1 DEF DbOK
    <3> QED BY <3>1, <3>2, <3>3 DEF DbOK
  <2> QED BY <1>4, <2>1, <2>2, <2>3
<1>6. schema \in Nat
  BY DEF DbOK
<1>7. ASSUME UNCHANGED <<schema, faults, dbUp>> PROVE DbOK' /\ schema' >= schema
  BY <1>6, <1>7 DEF DbOK
<1>8. ASSUME DbOK', schema' = schema PROVE DbOK' /\ schema' >= schema
  BY <1>6, <1>8
<1>9. CASE UNCHANGED vars
  BY <1>9, <1>7 DEF vars
<1> QED BY <1>1, <1>2, <1>3, <1>4, <1>7, <1>8, <1>9 DEF Next, Script

LEMMA HostType == ASSUME HostOK, NotesOK, [Next]_vars PROVE HostOK' /\ NotesOK'
<1>1. ASSUME NEW d \in Deploys, Upload(d) PROVE HostOK' /\ NotesOK'
  BY <1>1 DEF Upload, host, HostOK, NotesOK
<1>2. ASSUME NEW d \in Deploys,
             \/ ReadPrev(d) \/ Migrate(d) \/ BuildPacks(d) \/ InstallUnit(d) \/ Check(d) \/ Prune(d) \/ Exit(d)
             \/ LinkNew(d) \/ LinkPrev(d) \/ MoveNew(d) \/ MovePrev(d)
      PROVE  UNCHANGED <<api, notes>>
  BY <1>2 DEF ReadPrev, Migrate, BuildPacks, InstallUnit, Check, Prune, Exit, LinkNew, LinkPrev, MoveNew, MovePrev,
              Link, Move, Step, Then, host
<1>3. ASSUME NEW d \in Deploys, RestartNew(d) \/ RestartPrev(d) PROVE HostOK' /\ UNCHANGED notes
  BY <1>3 DEF RestartNew, RestartPrev, Restart, Step, Then, HostOK
<1>4. ASSUME NEW d \in Deploys, LinkNewFails(d) \/ LinkPrevFails(d) PROVE HostOK' /\ NotesOK'
  BY <1>4 DEF LinkNewFails, LinkPrevFails, LinkFails, host, HostOK, NotesOK
<1>5. ASSUME Start \/ Retry \/ Crash \/ DbDown \/ DbUp PROVE HostOK' /\ UNCHANGED notes
  BY <1>5 DEF Start, Retry, Crash, DbDown, DbUp, host, HostOK
<1>6. CASE UNCHANGED vars
  BY <1>6 DEF vars, HostOK, NotesOK
<1> QED BY <1>1, <1>2, <1>3, <1>4, <1>5, <1>6 DEF Next, Script, notes, HostOK, NotesOK

\* The links, and what is known of their releases.
LEMMA LinksStep ==
  ASSUME ScriptOK, LinksOK, DbOK, DbOK', ReadyInv, schema' >= schema, [Next]_vars
  PROVE  LinksOK' /\ ReadyInv'
<1>1. ASSUME NEW r, Ready(r) PROVE r \in Releases => SchemaOf[r] <= schema'
  <2> SUFFICES ASSUME r \in Releases PROVE SchemaOf[r] <= schema'
    OBVIOUS
  <2>1. SchemaOf[r] \in Nat /\ SchemaOf[r] <= schema /\ schema \in Nat /\ schema' \in Nat
    BY <1>1, ReleaseTypes DEF Ready, DbOK
  <2> QED BY <2>1
<1> DEFINE Kept3 == \A d \in Deploys : pc'[d] \in {"packs", "unit", "link"} => pc[d] \in {"packs", "unit", "link"}
<1>2. ASSUME UNCHANGED <<current, tmp, unit, running, prev>>, Kept3 PROVE LinksOK' /\ ReadyInv'
  BY <1>1, <1>2 DEF LinksOK, ReadyInv, Ready
<1>3. ASSUME NEW d \in Deploys, Upload(d) \/ Check(d) \/ Prune(d) \/ Exit(d) \/ LinkNewFails(d) \/ LinkPrevFails(d)
      PROVE  UNCHANGED <<current, tmp, unit, running, prev>> /\ Kept3
  BY <1>3 DEF Upload, Check, Prune, Exit, LinkNewFails, LinkPrevFails, LinkFails, Step, Then, Goto, files, host, ScriptOK
<1>4. ASSUME NEW d \in Deploys, BuildPacks(d) PROVE UNCHANGED <<current, tmp, unit, running, prev>> /\ Kept3
  BY <1>4 DEF BuildPacks, Step, Then, Goto, files, host, ScriptOK
<1>5. ASSUME NEW d \in Deploys, ReadPrev(d) PROVE LinksOK' /\ ReadyInv'
  <2>1. UNCHANGED <<current, tmp, unit, running>> /\ Kept3 /\ prev' = [prev EXCEPT ![d] = current]
    BY <1>5 DEF ReadPrev, Goto, files, host, ScriptOK
  <2> QED BY <2>1, <1>1 DEF LinksOK, ReadyInv, Ready, ScriptOK
<1>6. ASSUME NEW d \in Deploys, Migrate(d) PROVE LinksOK' /\ ReadyInv'
  <2>1. UNCHANGED <<current, tmp, unit, running, prev>>
    BY <1>6 DEF Migrate, Then, files, host
  <2>2. \A e \in Deploys : pc'[e] \in {"packs", "unit", "link"} =>
          pc[e] \in {"packs", "unit", "link"} \/ (e = d /\ SchemaOf[d] <= schema')
    BY <1>6 DEF Migrate, Then, Goto, ScriptOK
  <2> QED BY <2>1, <2>2, <1>1 DEF LinksOK, ReadyInv, Ready
<1>7. ASSUME NEW d \in Deploys, InstallUnit(d) PROVE LinksOK' /\ ReadyInv'
  <2>1. UNCHANGED <<current, tmp, running, prev>> /\ unit' = d /\ Kept3
    BY <1>7 DEF InstallUnit, Step, Then, Goto, host, ScriptOK
  <2> QED BY <2>1, <1>1, ReleaseTypes DEF LinksOK, ReadyInv, Ready
<1>8. ASSUME NEW d \in Deploys, LinkNew(d) PROVE LinksOK' /\ ReadyInv'
  <2>1. UNCHANGED <<current, unit, running, prev>> /\ tmp' = d /\ Kept3 /\ Ready(d)
    BY <1>8 DEF LinkNew, Link, Step, Then, Goto, host, ScriptOK, ReadyInv
  <2> QED BY <2>1, <1>1, ReleaseTypes DEF LinksOK, ReadyInv, Ready
<1>9. ASSUME NEW d \in Deploys, LinkPrev(d) PROVE LinksOK' /\ ReadyInv'
  <2>1. UNCHANGED <<current, unit, running, prev>> /\ tmp' = prev[d] /\ Kept3 /\ Ready(prev[d])
    BY <1>9 DEF LinkPrev, Link, Step, Then, Goto, host, ScriptOK, ReadyInv
  <2>2. prev[d] \in Releases \cup {NoRelease}
    BY DEF ScriptOK
  <2> QED BY <2>1, <2>2, <1>1 DEF LinksOK, ReadyInv, Ready
<1>10. ASSUME NEW d \in Deploys, MoveNew(d) \/ MovePrev(d) PROVE LinksOK' /\ ReadyInv'
  <2>1. UNCHANGED <<unit, running, prev>> /\ current' = tmp /\ tmp' = NoRelease /\ Kept3
    BY <1>10 DEF MoveNew, MovePrev, Move, Step, Then, Goto, host, ScriptOK
  <2> QED BY <2>1, <1>1, ReleaseTypes DEF LinksOK, ReadyInv, Ready
<1>11. ASSUME NEW d \in Deploys, RestartNew(d) \/ RestartPrev(d) PROVE LinksOK' /\ ReadyInv'
  <2>1. UNCHANGED <<current, tmp, unit, prev>> /\ running' = NoRelease /\ Kept3
    BY <1>11 DEF RestartNew, RestartPrev, Restart, Step, Then, Goto, files, ScriptOK, Over
  <2> QED BY <2>1, <1>1, ReleaseTypes DEF LinksOK, ReadyInv, Ready
<1>12. ASSUME Start \/ Retry \/ Crash \/ DbDown \/ DbUp PROVE LinksOK' /\ ReadyInv'
  <2>1. UNCHANGED <<current, tmp, unit, prev, pc>> /\ running' \in {running, current, NoRelease}
    BY <1>12 DEF Start, Retry, Crash, DbDown, DbUp, files, host, script
  <2> QED BY <2>1, <1>1, ReleaseTypes DEF LinksOK, ReadyInv, Ready
<1>13. CASE UNCHANGED vars
  <2>1. UNCHANGED <<current, tmp, unit, running, prev>> /\ Kept3
    BY <1>13 DEF vars
  <2> QED BY <2>1, <1>2
<1> HIDE DEF Kept3
<1> QED BY <1>2, <1>3, <1>4, <1>5, <1>6, <1>7, <1>8, <1>9, <1>10, <1>11, <1>12, <1>13 DEF Next, Script

-----------------------------------------------------------------------------
LEMMA InvStep == TypeOK /\ ReadyInv /\ [Next]_vars => TypeOK' /\ ReadyInv'
<1> SUFFICES ASSUME TypeOK, ReadyInv, [Next]_vars PROVE TypeOK' /\ ReadyInv'
  OBVIOUS
<1>1. ScriptOK /\ DiskOK /\ LinksOK /\ DbOK /\ HostOK /\ NotesOK
  BY TypeParts
<1>2. ScriptOK' /\ DiskOK' /\ DbOK' /\ schema' >= schema
  BY <1>1, ScriptType, DiskType, DbType
<1>3. HostOK' /\ NotesOK'
  BY <1>1, HostType
<1>4. LinksOK' /\ ReadyInv'
  BY <1>1, <1>2, LinksStep
<1> QED BY <1>2, <1>3, <1>4, TypeParts

(* Every variable of Deploy keeps its type, for any deploys and releases.    *)
THEOREM DeployTypeCorrect == Spec => []TypeOK
<1> QED BY InitType, InvStep, PTL DEF Spec

(* However deploys overlap, fail and are cut off, the link never points to a *)
(* release, and no process runs one, whose migrations were not applied       *)
(* (deploy.sh:69 before :77).                                               *)
THEOREM MigrationsFirst == Spec => []SchemaReady
<1>1. TypeOK /\ ReadyInv => SchemaReady
  BY DEF ReadyInv, Ready, SchemaReady
<1> QED BY InitType, InvStep, <1>1, PTL DEF Spec

-----------------------------------------------------------------------------
(* What the last deploy said. As long as deploys do not overlap and ln works, *)
(* at most one is active; its release is the newest on the disk, the link and *)
(* current.tmp are where its last command put them, and the release that it   *)
(* may go back to is on the disk.                                            *)

Orderly == ~overlapped /\ unlinked = {}

LinkOK(d) ==
  /\ pc[d] = "move" => tmp = d
  /\ pc[d] = "move back" => tmp = prev[d]
  /\ pc[d] \in {"restart", "check", "prune"} => current = d
  /\ pc[d] = "restart back" => current = prev[d]
ActiveOK(d) ==
  /\ disk # <<>> /\ Last(disk) = d
  /\ pc[d] # "readlink" /\ prev[d] # NoRelease => OnDisk(prev[d])
  /\ LinkOK(d)
OverOK(d) ==
  disk # <<>> /\ Last(disk) = d =>
    /\ pc[d] = "healthy" => current = d
    /\ pc[d] = "rolled back" => current = prev[d]

Tidy ==
  /\ \A d, e \in Deploys : Active(d) /\ Active(e) => d = e
  /\ current # NoRelease => OnDisk(current)
  /\ \A d \in Deploys : (Active(d) => ActiveOK(d)) /\ OverOK(d)

\* A step of the deploy that is active touches no other.
LEMMA ActiveStep ==
  ASSUME ScriptOK, Tidy, NEW d \in Deploys, Active(d), pc' = [pc EXCEPT ![d] = pc'[d]], pc'[d] # "ready",
         disk' # <<>>, Last(disk)' = d,
         (current # NoRelease => OnDisk(current))', (Active(d) => ActiveOK(d))', OverOK(d)'
  PROVE  Tidy'
<1>1. \A e \in Deploys \ {d} : ~Active(e) /\ pc'[e] = pc[e]
  BY DEF Tidy, ScriptOK
<1>2. \A e \in Deploys \ {d} : ~Active(e)'
  BY <1>1 DEF Active
<1>3. \A e \in Deploys \ {d} : OverOK(e)'
  BY DEF OverOK
<1>4. \A e, f \in Deploys : Active(e)' /\ Active(f)' => e = f
  BY <1>2
<1>5. \A e \in Deploys : (Active(e) => ActiveOK(e))' /\ OverOK(e)'
  BY <1>2, <1>3
<1> QED BY <1>4, <1>5 DEF Tidy

\* One that only goes on to another command, and leaves the links and the disk.
LEMMA GoesOn ==
  ASSUME ScriptOK, Tidy, NEW d \in Deploys, Active(d), pc' = [pc EXCEPT ![d] = pc'[d]], pc'[d] # "ready",
         UNCHANGED <<prev, disk, current>>, pc[d] # "readlink", LinkOK(d)', OverOK(d)'
  PROVE  Tidy'
<1>1. ActiveOK(d)
  BY DEF Tidy
<1>2. disk' # <<>> /\ Last(disk)' = d
  BY <1>1 DEF ActiveOK, Last
<1>3. (current # NoRelease => OnDisk(current))'
  BY DEF Tidy, OnDisk, Range
<1>4. ActiveOK(d)'
  BY <1>1 DEF ActiveOK, OnDisk, Range, Last
<1> QED BY <1>2, <1>3, <1>4, ActiveStep

LEMMA OutcomeInit == Init => (Orderly => Tidy)
<1> SUFFICES ASSUME Init PROVE Tidy
  OBVIOUS
<1>1. \A d \in Deploys : ~Active(d) /\ pc[d] = "ready"
  BY DEF Init, Active
<1>2. current # NoRelease => OnDisk(current)
  <2>1. CASE current # NoRelease
    <3>1. disk = <<Initial>> /\ current = Initial
      BY <2>1 DEF Init
    <3> QED BY <3>1 DEF OnDisk, Range
  <2> QED BY <2>1
<1> QED BY <1>1, <1>2 DEF Tidy, OverOK

LEMMA Appended ==
  ASSUME DiskOK, NEW d \in Deploys, disk' = Append(disk, d)
  PROVE  disk' # <<>> /\ Last(disk)' = d /\ \A r : OnDisk(r) => OnDisk(r)'
<1>1. disk \in Seq(Releases) /\ d \in Releases
  BY ReleaseTypes DEF DiskOK
<1>2. Len(disk') = Len(disk) + 1 /\ disk'[Len(disk) + 1] = d /\ \A i \in 1 .. Len(disk) : disk'[i] = disk[i]
  BY <1>1
<1>3. DOMAIN disk = 1 .. Len(disk) /\ DOMAIN disk' = 1 .. Len(disk) + 1 /\ Len(disk) \in Nat
  BY <1>1, <1>2
<1> QED BY <1>1, <1>2, <1>3 DEF Last, OnDisk, Range

LEMMA Pruned ==
  ASSUME DiskOK, NEW d \in Deploys, disk # <<>>, Last(disk) = d, disk' = Kept
  PROVE  disk' # <<>> /\ Last(disk)' = d /\ OnDisk(d)'
<1>0. disk \in Seq(Releases) /\ Len(disk) \in Nat /\ Len(disk) # 0 /\ disk[Len(disk)] = d
  BY DEF DiskOK, Last
<1>1. KEEP \in Nat \ {0}
  BY ReleaseTypes
<1>2. disk' \in Seq(Releases) /\ Len(disk') \in Nat /\ Len(disk') >= 1 /\ disk'[Len(disk')] = d
  <2>1. CASE Len(disk) <= KEEP
    BY <1>0, <2>1 DEF Kept, Newest
  <2>2. CASE ~(Len(disk) <= KEEP)
    <3> DEFINE m == Len(disk) - KEEP + 1
    <3>1. m \in Int /\ m >= 1 /\ m <= Len(disk)
      BY <1>0, <1>1, <2>2
    <3>2. \A i \in m .. Len(disk) : disk[i] \in Releases
      BY <1>0, <3>1
    <3>3. disk' = SubSeq(disk, m, Len(disk))
      BY <2>2 DEF Kept, Newest
    <3>4. disk' \in Seq(Releases) /\ Len(disk') = Len(disk) - m + 1
          /\ \A i \in 1 .. Len(disk) - m + 1 : disk'[i] = disk[m + i - 1]
      BY <1>0, <3>1, <3>2, <3>3, SubSeqProperties
    <3>5. Len(disk) - m + 1 \in 1 .. Len(disk) - m + 1 /\ m + (Len(disk) - m + 1) - 1 = Len(disk)
      BY <1>0, <3>1
    <3>6. disk'[Len(disk) - m + 1] = disk[m + (Len(disk) - m + 1) - 1]
      BY <3>4, <3>5
    <3> QED BY <1>0, <3>1, <3>4, <3>5, <3>6
  <2> QED BY <2>1, <2>2
<1>3. Len(disk') \in DOMAIN disk'
  BY <1>2
<1> QED BY <1>2, <1>3 DEF Last, OnDisk, Range

LEMMA TidyStep ==
  ASSUME ScriptOK, DiskOK, Tidy, [Next]_vars, Orderly'
  PROVE  Tidy'
<1> USE DEF Step, Then, Goto
<1>1. ASSUME NEW d \in Deploys, Upload(d) PROVE Tidy'
  <2>1. \A e \in Deploys : ~Active(e)
    BY <1>1 DEF Upload, Orderly
  <2>2. pc' = [pc EXCEPT ![d] = "readlink"] /\ disk' = Append(disk, d) /\ UNCHANGED <<prev, current, tmp>>
    BY <1>1 DEF Upload
  <2>3. disk' # <<>> /\ Last(disk)' = d /\ \A r : OnDisk(r) => OnDisk(r)'
    BY <2>2, Appended
  <2>4. \A e \in Deploys \ {d} : ~Active(e)'
    BY <2>1, <2>2 DEF Active, ScriptOK
  <2>5. pc'[d] = "readlink"
    BY <2>2 DEF ScriptOK
  <2>6. ActiveOK(d)'
    BY <2>3, <2>5 DEF ActiveOK, LinkOK
  <2>7. (current # NoRelease => OnDisk(current))'
    <3>1. PICK r : r = current
      OBVIOUS
    <3>2. OnDisk(r) => OnDisk(r)'
      BY <2>3
    <3>3. OnDisk(r)' = OnDisk(current)'
      BY <2>2, <3>1 DEF OnDisk
    <3> QED BY <2>2, <3>1, <3>2, <3>3 DEF Tidy
  <2>8. \A e \in Deploys : OverOK(e)'
    BY <2>3, <2>5 DEF OverOK
  <2>9. \A e, f \in Deploys : Active(e)' /\ Active(f)' => e = f
    BY <2>4
  <2> QED BY <2>4, <2>6, <2>7, <2>8, <2>9 DEF Tidy
<1>2. ASSUME NEW d \in Deploys, ReadPrev(d) PROVE Tidy'
  <2>1. /\ pc[d] = "readlink" /\ pc' = [pc EXCEPT ![d] = "migrate"]
        /\ prev' = [prev EXCEPT ![d] = current] /\ UNCHANGED <<disk, current>>
    BY <1>2 DEF ReadPrev, files
  <2>2. Active(d) /\ pc'[d] = "migrate" /\ prev'[d] = current
    BY <2>1 DEF Active, Over, ScriptOK
  <2>3. (current # NoRelease => OnDisk(current))'
    BY <2>1 DEF Tidy, OnDisk, Range
  <2>4. disk' # <<>> /\ Last(disk)' = d
    BY <2>1, <2>2 DEF Tidy, ActiveOK, Last
  <2>5. OnDisk(prev[d])' = OnDisk(current)'
    BY <2>1, <2>2 DEF OnDisk
  <2>6. ActiveOK(d)' /\ OverOK(d)'
    BY <2>1, <2>2, <2>3, <2>4, <2>5 DEF ActiveOK, LinkOK, OverOK
  <2> QED BY <2>1, <2>2, <2>3, <2>4, <2>6, ActiveStep
<1>3. ASSUME NEW d \in Deploys, Migrate(d) \/ BuildPacks(d) \/ InstallUnit(d) PROVE Tidy'
  <2>1. /\ pc[d] \in {"migrate", "packs", "unit"} /\ UNCHANGED <<prev, disk, current>>
        /\ \E s \in {"packs", "unit", "link", "exited"} : pc' = [pc EXCEPT ![d] = s]
    BY <1>3 DEF Migrate, BuildPacks, InstallUnit, files
  <2>2. Active(d) /\ pc'[d] \in {"packs", "unit", "link", "exited"} /\ pc' = [pc EXCEPT ![d] = pc'[d]]
    BY <2>1 DEF Active, Over, ScriptOK
  <2>3. LinkOK(d)' /\ OverOK(d)'
    BY <2>2 DEF LinkOK, OverOK
  <2> QED BY <2>1, <2>2, <2>3, GoesOn
<1>4. ASSUME NEW d \in Deploys, LinkNew(d) \/ LinkPrev(d) PROVE Tidy'
  <2>1. /\ pc[d] \in {"link", "link back"} /\ UNCHANGED <<prev, disk, current>>
        /\ \E s \in {"move", "move back"} :
             pc' = [pc EXCEPT ![d] = s] /\ (s = "move" => tmp' = d) /\ (s = "move back" => tmp' = prev[d])
    BY <1>4 DEF LinkNew, LinkPrev, Link
  <2>2. Active(d) /\ pc' = [pc EXCEPT ![d] = pc'[d]]
        /\ ((pc'[d] = "move" /\ tmp' = d) \/ (pc'[d] = "move back" /\ tmp' = prev'[d]))
    BY <2>1 DEF Active, Over, ScriptOK
  <2>3. LinkOK(d)' /\ OverOK(d)'
    BY <2>2 DEF LinkOK, OverOK
  <2> QED BY <2>1, <2>2, <2>3, GoesOn
<1>5. ASSUME NEW d \in Deploys, MoveNew(d) \/ MovePrev(d) PROVE Tidy'
  <2>1. /\ UNCHANGED <<prev, disk>> /\ current' = tmp /\ tmp # NoRelease
        /\ \E s \in {"restart", "restart back"} :
             pc' = [pc EXCEPT ![d] = s] /\ pc[d] = IF s = "restart" THEN "move" ELSE "move back"
    BY <1>5 DEF MoveNew, MovePrev, Move
  <2>2. Active(d) /\ pc' = [pc EXCEPT ![d] = pc'[d]]
        /\ ((pc[d] = "move" /\ pc'[d] = "restart") \/ (pc[d] = "move back" /\ pc'[d] = "restart back"))
    BY <2>1 DEF Active, Over, ScriptOK
  <2>3. ActiveOK(d)
    BY <2>2 DEF Tidy
  <2>4. disk' # <<>> /\ Last(disk)' = d
    BY <2>1, <2>3 DEF ActiveOK, Last
  <2>5. (pc[d] = "move" => current' = d) /\ (pc[d] = "move back" => current' = prev[d])
    BY <2>1, <2>3 DEF ActiveOK, LinkOK
  <2>6. OnDisk(current)'
    <3>1. CASE pc[d] = "move"
      <4>1. Len(disk) \in DOMAIN disk
        BY <2>3 DEF ActiveOK, DiskOK
      <4>2. OnDisk(d)
        BY <2>3, <4>1 DEF ActiveOK, Last, OnDisk, Range
      <4> QED BY <2>1, <2>5, <3>1, <4>2 DEF OnDisk
    <3>2. CASE pc[d] = "move back"
      <4>1. OnDisk(prev[d])
        BY <2>1, <2>3, <2>5, <3>2 DEF ActiveOK
      <4> QED BY <2>1, <2>5, <3>2, <4>1 DEF OnDisk
    <3> QED BY <2>2, <3>1, <3>2
  <2>7. LinkOK(d)' /\ OverOK(d)'
    BY <2>1, <2>2, <2>5 DEF LinkOK, OverOK
  <2>8. (pc[d] # "readlink" /\ prev[d] # NoRelease => OnDisk(prev[d]))'
    BY <2>1, <2>2, <2>3 DEF ActiveOK, OnDisk
  <2>9. ActiveOK(d)'
    BY <2>4, <2>7, <2>8 DEF ActiveOK
  <2>10. pc'[d] # "ready"
    BY <2>2
  <2> QED BY <2>2, <2>4, <2>6, <2>7, <2>9, <2>10, ActiveStep
<1>6. ASSUME NEW d \in Deploys, RestartNew(d) \/ RestartPrev(d) PROVE Tidy'
  <2>1. /\ UNCHANGED <<prev, disk, current>>
        /\ \E s \in {"check", "rolled back"} :
             pc' = [pc EXCEPT ![d] = s] /\ pc[d] = IF s = "check" THEN "restart" ELSE "restart back"
    BY <1>6 DEF RestartNew, RestartPrev, Restart, files
  <2>2. Active(d) /\ pc' = [pc EXCEPT ![d] = pc'[d]]
        /\ ((pc[d] = "restart" /\ pc'[d] = "check") \/ (pc[d] = "restart back" /\ pc'[d] = "rolled back"))
    BY <2>1 DEF Active, Over, ScriptOK
  <2>3. LinkOK(d)
    BY <2>2 DEF Tidy, ActiveOK
  <2>4. LinkOK(d)' /\ OverOK(d)'
    BY <2>1, <2>2, <2>3 DEF LinkOK, OverOK
  <2> QED BY <2>1, <2>2, <2>4, GoesOn
<1>7. ASSUME NEW d \in Deploys, Check(d) PROVE Tidy'
  <2>1. /\ pc[d] = "check" /\ UNCHANGED <<prev, disk, current>>
        /\ \E s \in {"prune", "check", "exited", "link back"} : pc' = [pc EXCEPT ![d] = s]
    BY <1>7 DEF Check, files
  <2>2. Active(d) /\ pc'[d] \in {"prune", "check", "exited", "link back"} /\ pc' = [pc EXCEPT ![d] = pc'[d]]
    BY <2>1 DEF Active, Over, ScriptOK
  <2>3. current = d
    BY <2>1, <2>2 DEF Tidy, ActiveOK, LinkOK
  <2>4. LinkOK(d)' /\ OverOK(d)'
    BY <2>1, <2>2, <2>3 DEF LinkOK, OverOK
  <2> QED BY <2>1, <2>2, <2>4, GoesOn
<1>8. ASSUME NEW d \in Deploys, Prune(d) PROVE Tidy'
  <2>1. pc[d] = "prune" /\ pc' = [pc EXCEPT ![d] = "healthy"] /\ disk' = Kept /\ UNCHANGED <<current, prev>>
    BY <1>8 DEF Prune
  <2>2. Active(d) /\ pc'[d] = "healthy" /\ pc' = [pc EXCEPT ![d] = pc'[d]]
    BY <2>1 DEF Active, Over, ScriptOK
  <2>3. disk # <<>> /\ Last(disk) = d /\ current = d
    BY <2>1, <2>2 DEF Tidy, ActiveOK, LinkOK
  <2>4. disk' # <<>> /\ Last(disk)' = d /\ OnDisk(d)'
    BY <2>1, <2>3, Pruned
  <2>5. OnDisk(current)' = OnDisk(d)'
    BY <2>1, <2>3 DEF OnDisk
  <2>6. ~Active(d)' /\ OverOK(d)'
    BY <2>1, <2>2, <2>3 DEF Active, Over, OverOK
  <2>7. pc'[d] # "ready"
    BY <2>2
  <2> QED BY <2>2, <2>4, <2>5, <2>6, <2>7, ActiveStep
<1>9. ASSUME NEW d \in Deploys, LinkNewFails(d) \/ LinkPrevFails(d) PROVE FALSE
  BY <1>9 DEF LinkNewFails, LinkPrevFails, LinkFails, Orderly
<1>10. ASSUME NEW d \in Deploys, Exit(d) PROVE Tidy'
  <2>1. Active(d) /\ pc' = [pc EXCEPT ![d] = "exited"] /\ UNCHANGED <<prev, disk, current>>
    BY <1>10 DEF Exit, files
  <2>2. pc'[d] = "exited"
    BY <2>1 DEF ScriptOK
  <2>3. ~Active(d)' /\ OverOK(d)'
    BY <2>2 DEF Active, Over, OverOK
  <2>4. (current # NoRelease => OnDisk(current))'
    BY <2>1 DEF Tidy, OnDisk
  <2>5. disk' # <<>> /\ Last(disk)' = d
    BY <2>1 DEF Tidy, ActiveOK, Last
  <2>6. pc' = [pc EXCEPT ![d] = pc'[d]] /\ pc'[d] # "ready"
    BY <2>1, <2>2
  <2> QED BY <2>1, <2>3, <2>4, <2>5, <2>6, ActiveStep
<1>11. ASSUME UNCHANGED <<pc, prev, disk, current, tmp>> PROVE Tidy'
  BY <1>11 DEF Tidy, Active, ActiveOK, OverOK, LinkOK, OnDisk, Last
<1>12. ASSUME Start \/ Retry \/ Crash \/ DbDown \/ DbUp PROVE UNCHANGED <<pc, prev, disk, current, tmp>>
  BY <1>12 DEF Start, Retry, Crash, DbDown, DbUp, script, files
<1>13. CASE UNCHANGED vars
  BY <1>11, <1>13 DEF vars
<1> QED BY <1>1, <1>2, <1>3, <1>4, <1>5, <1>6, <1>7, <1>8, <1>9, <1>10, <1>11, <1>12, <1>13 DEF Next, Script

\* Two deploys that have overlapped stay so, and an ln that failed has failed.
LEMMA OrderlyBefore == [Next]_vars /\ NotesOK /\ Orderly' => Orderly
<1> SUFFICES ASSUME [Next]_vars, NotesOK, Orderly' PROVE Orderly
  OBVIOUS
<1>1. ASSUME NEW d \in Deploys, Upload(d) PROVE Orderly
  BY <1>1 DEF Upload, Orderly
<1>2. ASSUME NEW d \in Deploys,
             \/ ReadPrev(d) \/ Migrate(d) \/ BuildPacks(d) \/ InstallUnit(d) \/ Check(d) \/ Prune(d) \/ Exit(d)
             \/ LinkNew(d) \/ LinkPrev(d) \/ MoveNew(d) \/ MovePrev(d) \/ RestartNew(d) \/ RestartPrev(d)
      PROVE  UNCHANGED notes
  BY <1>2 DEF ReadPrev, Migrate, BuildPacks, InstallUnit, Check, Prune, Exit, LinkNew, LinkPrev, MoveNew, MovePrev,
              RestartNew, RestartPrev, Link, Move, Restart, Step, Then
<1>3. ASSUME NEW d \in Deploys, LinkNewFails(d) \/ LinkPrevFails(d) PROVE FALSE
  BY <1>3 DEF LinkNewFails, LinkPrevFails, LinkFails, Orderly
<1>4. ASSUME Start \/ Retry \/ Crash \/ DbDown \/ DbUp PROVE UNCHANGED notes
  BY <1>4 DEF Start, Retry, Crash, DbDown, DbUp
<1>5. CASE UNCHANGED vars
  BY <1>5 DEF vars, Orderly
<1> QED BY <1>1, <1>2, <1>3, <1>4, <1>5 DEF Next, Script, notes, Orderly

(* As long as deploys do not overlap and ln works, however they fail or are  *)
(* cut off, and whatever the unit and the database do: "healthy" means that   *)
(* the link is on the release of the deploy, "rolling back" that it is on the *)
(* one before, and pruning never takes the release that the link is on        *)
(* (deploy.sh:75-98).                                                        *)
THEOREM OutcomeTold == Spec => []OutcomeIsTrue
<1>1. Init => TypeOK /\ ReadyInv /\ (Orderly => Tidy)
  BY InitType, OutcomeInit
<1>2. TypeOK /\ ReadyInv /\ (Orderly => Tidy) /\ [Next]_vars => (TypeOK /\ ReadyInv /\ (Orderly => Tidy))'
  <2> SUFFICES ASSUME TypeOK, ReadyInv, Orderly => Tidy, [Next]_vars, Orderly' PROVE Tidy'
    BY InvStep
  <2>1. ScriptOK /\ DiskOK /\ NotesOK
    BY TypeParts
  <2>2. Tidy
    BY <2>1, OrderlyBefore
  <2> QED BY <2>1, <2>2, TidyStep
<1>3. (Orderly => Tidy) => OutcomeIsTrue
  BY DEF OutcomeIsTrue, Orderly, Tidy, OverOK
<1> QED BY <1>1, <1>2, <1>3, PTL DEF Spec
=============================================================================
