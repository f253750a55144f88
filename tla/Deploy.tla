------------------------------- MODULE Deploy -------------------------------
(***************************************************************************)
(* deploy/deploy.sh on the server, with what it runs: cmd/migrate, cmd/packs, *)
(* the neno-api unit and the start and stop of cmd/api. Every deploy brings a *)
(* release of its own. Deploys may overlap (nothing keeps them apart), fail at *)
(* every command and be cut off; the database goes down and comes back, and   *)
(* the API crashes. A restart of the unit returns when the process was        *)
(* started, not when it serves.                                             *)
(***************************************************************************)
EXTENDS Integers, Sequences, FiniteSets, SequencesExt

CONSTANTS
  Deploys,      \* runs of deploy.sh; each names its release
  Initial,      \* the release that is there at first, if any is
  NoRelease,    \* an empty readlink
  SchemaOf,     \* the last migration in each release
  Starts,       \* the releases that start when the database is there
  KEEP,         \* releases that are kept
  Checks,       \* health checks of a deploy, one a second
  MaxFaults     \* outages of the database and crashes of the API

Releases == Deploys \cup {Initial}

ASSUME DeployAssumption ==
  /\ Initial \notin Deploys /\ NoRelease \notin Releases
  /\ SchemaOf \in [Releases -> Nat] /\ Starts \subseteq Releases
  /\ KEEP \in Nat \ {0} /\ Checks \in Nat \ {0} /\ MaxFaults \in Nat

VARIABLES
  pc,        \* the command of each deploy that is next
  prev,      \* PREV
  tries,     \* health checks so far
  disk,      \* releases/, the oldest first
  current,   \* where the link points
  tmp,       \* where current.tmp points
  schema,    \* the migrations that were applied
  unit,      \* the release whose unit file is installed
  api,       \* the unit: stopped, starting, failed (until RestartSec is over) or serving
  running,   \* the release whose process serves
  dbUp,
  faults,    \* outages and crashes so far
  overlapped,\* two deploys have run at the same time
  unlinked   \* deploys whose ln failed

vars == <<pc, prev, tries, disk, current, tmp, schema, unit, api, running, dbUp, faults, overlapped, unlinked>>

script == <<pc, prev, tries>>
files  == <<disk, current, tmp, unit>>
host   == <<api, running>>
world  == <<dbUp, faults>>
notes  == <<overlapped, unlinked>>

Over == {"healthy", "rolled back", "exited"}
Active(d) == pc[d] \notin {"ready"} \cup Over

Init ==
  /\ pc = [d \in Deploys |-> "ready"]
  /\ prev = [d \in Deploys |-> NoRelease]
  /\ tries = [d \in Deploys |-> 0]
  /\ \/ disk = <<>> /\ current = NoRelease /\ schema = 0 /\ unit = NoRelease /\ api = "stopped" /\ running = NoRelease
     \/ /\ disk = <<Initial>> /\ current = Initial /\ schema = SchemaOf[Initial]
        /\ unit = Initial /\ api = "serving" /\ running = Initial
  /\ tmp = NoRelease
  /\ dbUp = TRUE /\ faults = 0 /\ overlapped = FALSE /\ unlinked = {}

-----------------------------------------------------------------------------
(* The script. A command that fails ends it (set -e). *)
OnDisk(r) == r \in Range(disk)
Goto(d, s) == pc' = [pc EXCEPT ![d] = s]
Then(d, s) == Goto(d, s) /\ UNCHANGED <<prev, tries, notes>>
Step(d, s, next) == pc[d] = s /\ Then(d, next)

Upload(d) ==
  /\ pc[d] = "ready"
  /\ Goto(d, "readlink")
  /\ disk' = Append(disk, d)
  /\ overlapped' = (overlapped \/ \E e \in Deploys : Active(e))
  /\ UNCHANGED <<prev, tries, current, tmp, schema, unit, host, world, unlinked>>

ReadPrev(d) ==
  /\ pc[d] = "readlink"
  /\ prev' = [prev EXCEPT ![d] = current]
  /\ Goto(d, "migrate")
  /\ UNCHANGED <<tries, files, schema, host, world, notes>>

(* goose up applies what the release has and the database lacks, one after    *)
(* the other; it may fail after some.                                       *)
MigrateAnyhow(d) ==     \* mutant: the script goes on when a migration fails
  /\ Step(d, "migrate", "packs")
  /\ dbUp
  /\ schema' \in {schema} \cup schema .. SchemaOf[d]
  /\ UNCHANGED <<files, host, world>>
Migrate(d) ==
  /\ pc[d] = "migrate"
  /\ dbUp
  /\ schema' \in {schema} \cup schema .. SchemaOf[d]
  /\ Then(d, IF SchemaOf[d] <= schema' THEN "packs" ELSE "exited")
  /\ UNCHANGED <<files, host, world>>

BuildPacks(d) ==
  /\ Step(d, "packs", "unit") /\ dbUp
  /\ UNCHANGED <<files, schema, host, world>>

InstallUnit(d) ==
  /\ Step(d, "unit", "link")
  /\ unit' = d
  /\ UNCHANGED <<disk, current, tmp, schema, host, world>>

(* ln -sfn R current.tmp && mv -T current.tmp current: two commands, and one  *)
(* name for all deploys.                                                    *)
Link(d, s, r, next) ==
  /\ Step(d, s, next)
  /\ tmp' = r
  /\ UNCHANGED <<disk, current, schema, unit, host, world>>
Move(d, s, next) ==
  /\ Step(d, s, next)
  /\ tmp # NoRelease
  /\ current' = tmp /\ tmp' = NoRelease
  /\ UNCHANGED <<disk, schema, unit, host, world>>
(* systemctl restart: SIGTERM, Shutdown within its ten seconds, a new process. *)
Restart(d, s, next) ==
  /\ Step(d, s, next)
  /\ api' = "starting" /\ running' = NoRelease
  /\ UNCHANGED <<files, schema, world>>

LinkNew(d)    == Link(d, "link", d, "move")
MoveNew(d)    == Move(d, "move", "restart")
RestartNew(d) == Restart(d, "restart", "check")

(* /healthz: a process serves and its ping reaches the database. *)
Healthy == api = "serving" /\ dbUp
CheckEver(d) ==      \* mutant: until curl succeeds
  /\ pc[d] = "check"
  /\ IF Healthy THEN Goto(d, "prune") ELSE UNCHANGED pc
  /\ UNCHANGED <<prev, tries, files, schema, host, world, notes>>
Check(d) ==
  /\ pc[d] = "check"
  /\ tries' = [tries EXCEPT ![d] = @ + 1]
  /\ Goto(d, IF Healthy THEN "prune" ELSE IF tries[d] + 1 < Checks THEN "check"
             ELSE IF prev[d] = NoRelease THEN "exited" ELSE "link back")
  /\ UNCHANGED <<prev, files, schema, host, world, notes>>

Newest(n) == IF Len(disk) <= n THEN disk ELSE SubSeq(disk, Len(disk) - n + 1, Len(disk))
KeptOneLess == Newest(KEEP - 1)   \* mutant: tail -n +KEEP
Kept == Newest(KEEP)
Prune(d) ==
  /\ Step(d, "prune", "healthy")
  /\ disk' = Kept
  /\ UNCHANGED <<current, tmp, schema, unit, host, world>>

LinkPrev(d)    == Link(d, "link back", prev[d], "move back")
MovePrev(d)    == Move(d, "move back", "restart back")
RestartPrev(d) == Restart(d, "restart back", "rolled back")

(* set -e does not see an ln that fails before &&: the script goes on, and   *)
(* restarts and checks what the link pointed at.                            *)
LinkFails(d, s, next) ==
  /\ pc[d] = s
  /\ Goto(d, next)
  /\ unlinked' = unlinked \cup {d}
  /\ UNCHANGED <<prev, tries, files, schema, host, world, overlapped>>
LinkNewFails(d)  == LinkFails(d, "link", "restart")
LinkPrevFails(d) == LinkFails(d, "link back", "restart back")

(* Another command fails, or the connection is cut. *)
Exit(d) ==
  /\ Active(d)
  /\ Then(d, "exited")
  /\ UNCHANGED <<files, schema, host, world>>

Script(d) ==
  \/ ReadPrev(d) \/ Migrate(d) \/ BuildPacks(d) \/ InstallUnit(d)
  \/ LinkNew(d) \/ MoveNew(d) \/ RestartNew(d) \/ Check(d) \/ Prune(d)
  \/ LinkPrev(d) \/ MovePrev(d) \/ RestartPrev(d)

-----------------------------------------------------------------------------
(* The unit: ExecStart is current/api, which needs the database to start, and *)
(* Restart=on-failure starts it again whenever it ends by itself.            *)
CanStart == dbUp /\ OnDisk(current) /\ current \in Starts
Start ==
  /\ api = "starting"
  /\ IF CanStart THEN api' = "serving" /\ running' = current
     ELSE api' = "failed" /\ UNCHANGED running
  /\ UNCHANGED <<script, files, schema, world, notes>>
RetryNever == FALSE /\ UNCHANGED vars      \* mutant: Restart=no
Retry ==
  /\ api = "failed"
  /\ api' = "starting"
  /\ UNCHANGED <<running, script, files, schema, world, notes>>
Crash ==
  /\ api = "serving" /\ faults < MaxFaults
  /\ api' = "failed" /\ running' = NoRelease /\ faults' = faults + 1
  /\ UNCHANGED <<script, files, schema, dbUp, notes>>

DbDown ==
  /\ dbUp /\ faults < MaxFaults
  /\ dbUp' = FALSE /\ faults' = faults + 1
  /\ UNCHANGED <<script, files, schema, host, notes>>
DbUp ==
  /\ ~dbUp /\ dbUp' = TRUE
  /\ UNCHANGED <<script, files, schema, host, faults, notes>>

Next ==
  \/ \E d \in Deploys : Upload(d) \/ Script(d) \/ LinkNewFails(d) \/ LinkPrevFails(d) \/ Exit(d)
  \/ Start \/ Retry \/ Crash \/ DbDown \/ DbUp

Spec == Init /\ [][Next]_vars

(* Commands of the script end, systemd does what the unit says, and outages   *)
(* do not last for ever.                                                    *)
FairSpec ==
  /\ Spec
  /\ \A d \in Deploys : WF_vars(Script(d) \/ (Exit(d) /\ ~ENABLED Script(d)))
  /\ WF_vars(Start) /\ WF_vars(Retry) /\ WF_vars(DbUp)

-----------------------------------------------------------------------------
TypeOK ==
  /\ pc \in [Deploys -> {"ready", "readlink", "migrate", "packs", "unit", "link", "move", "restart", "check",
                         "prune", "link back", "move back", "restart back"} \cup Over]
  /\ prev \in [Deploys -> Releases \cup {NoRelease}]
  /\ tries \in [Deploys -> Nat]
  /\ disk \in Seq(Releases)
  /\ {current, tmp, unit, running} \subseteq Releases \cup {NoRelease}
  /\ schema \in Nat /\ faults \in Nat
  /\ api \in {"stopped", "starting", "failed", "serving"}
  /\ dbUp \in BOOLEAN /\ overlapped \in BOOLEAN /\ unlinked \subseteq Deploys

(* The link never points to a release, and no process runs one, whose        *)
(* migrations the database lacks: migrate comes first (deploy.sh:69), and    *)
(* neither a failed migration, a rollback nor a deploy that moves the        *)
(* current.tmp of another gets past it.                                     *)
SchemaReady ==
  \A r \in Releases : r \in {current, tmp, running} => SchemaOf[r] <= schema

(* What the last deploy said is what was done, as long as deploys do not      *)
(* overlap and ln works: after "healthy" the link points to its release, after *)
(* "rolling back" to the one before, and in any case to one that pruning      *)
(* (deploy.sh:83) has left on the disk.                                     *)
OutcomeIsTrue ==
  ~overlapped /\ unlinked = {} =>
    /\ current # NoRelease => OnDisk(current)
    /\ \A d \in Deploys : disk # <<>> /\ Last(disk) = d =>
         /\ pc[d] = "healthy" => current = d
         /\ pc[d] = "rolled back" => current = prev[d]

(* A deploy ends whether its release starts or not, and however the database *)
(* and other deploys behave: the health check gives up (deploy.sh:80). Each   *)
(* command is taken to end; a release that accepts a connection and never     *)
(* answers would hold curl, which has no --max-time (deploy.sh:81).           *)
EveryDeployEnds == \A d \in Deploys : pc[d] = "readlink" ~> pc[d] \in Over

(* Whatever ended the API, a failed start without the database, a crash or a *)
(* deploy that was cut off before its restart, it comes back by itself once   *)
(* the link stays on a release that starts (neno-api.service:14).            *)
ServiceReturns ==
  \A r \in Starts : <>[](current = r /\ OnDisk(r) /\ api # "stopped") => <>[](api = "serving")
=============================================================================
