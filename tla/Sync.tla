-------------------------------- MODULE Sync --------------------------------
(***************************************************************************)
(* POST /v1/sync (internal/server/user.go, db/queries/sync.sql) and the    *)
(* devices that call it: a request validates its batch, opens a READ       *)
(* COMMITTED transaction whose now() is its start time, upserts marks,     *)
(* answers and progress one statement at a time, pulls the three tables    *)
(* with three more statements, commits, and answers with the start time as *)
(* the device's next cursor. Statements of different requests interleave;  *)
(* requests and responses may be lost, delayed and reordered, and a retry  *)
(* is one more request with the same batch.                                *)
(*                                                                         *)
(* A payload is abstracted to its updated_at: within the history of a row  *)
(* the timestamps grow strictly, so a timestamp names a version.           *)
(***************************************************************************)
EXTENDS Integers, Sequences

CONSTANTS
  Users, Devices, UserOf,     \* UserOf[d]: the account signed in on device d
  Marks, Answers, Targets,    \* client-made ids; progress rows have none
  Requests,                   \* the requests of a run, each sent at most once
  Batches,                    \* what a device may push
  Malformed,                  \* the batches with an invalid item or cursor
  MaxSyncItems, Overlap, MaxClockSkew,
  MaxTx,                      \* longest life of a transaction
  MaxClock,                   \* bound of the run: the clock stops there
  NoRow, NoRequest

Progress == Users \X Targets                     \* primary key of user_progress
Keys     == Marks \cup Answers \cup Progress
Ids      == Marks \cup Answers \cup Targets
Item     == [id : Ids, at : Nat \ {0}]
Rank(id) == IF id \in Marks THEN 1 ELSE IF id \in Answers THEN 2 ELSE 3

ASSUME SyncAssumption ==
  /\ UserOf \in [Devices -> Users]
  /\ MaxSyncItems \in Nat /\ MaxClockSkew \in Nat /\ MaxTx \in Nat /\ MaxClock \in Nat
  /\ Overlap \in Nat \ {0}
  /\ NoRequest \notin Requests
  /\ NoRow \notin [owner : Users, at : Nat, sua : Nat] \cup [owner : Users, at : Nat]
  /\ (Marks \cup Answers) \cap (Targets \cup Progress) = {}

\* The body holds three lists, handled in this order.
ASSUME BatchAssumption ==
  \A b \in Batches : /\ b \in Seq(Item)
                     /\ \A i, j \in 1 .. Len(b) : i < j => Rank(b[i].id) =< Rank(b[j].id)

VARIABLES
  clock,    \* the database's clock, in units that MaxTx and Overlap share
  rows,     \* committed rows: owner, at (updated_at), sua (server_updated_at)
  lock,     \* the transaction that holds a key's row lock
  phase,    \* where a request is
  req,      \* what the device sent
  start,    \* now() of the request's transaction
  pos,      \* the next item to upsert
  writes,   \* rows the transaction wrote, its own until it commits
  pulled,   \* versions read for the response, 0 for none
  cursor,   \* a device's stored cursor
  known     \* a device's newest received version of a key, 0 for none

clientVars == <<cursor, known>>
vars == <<clock, rows, lock, phase, req, start, pos, writes, pulled, cursor, known>>

NoCursor == 0
Row      == [owner : Users, at : Nat, sua : Nat]
Request  == [dev : Devices, cursor : Nat, batch : Batches]

InTx      == {"push", "answers", "progress", "commit"}
Committed == {"reply", "acked", "lost"}
Phases    == {"unsent", "sent", "error"} \cup InTx \cup Committed

User(r)      == UserOf[req[r].dev]
KeyOf(u, id) == IF id \in Targets THEN <<u, id>> ELSE id

TypeOK ==
  /\ clock \in Nat \ {0}
  /\ rows \in [Keys -> Row \cup {NoRow}]
  /\ lock \in [Keys -> Requests \cup {NoRequest}]
  /\ phase \in [Requests -> Phases]
  /\ req \in [Requests -> Request \cup {NoRequest}]
  /\ start \in [Requests -> Nat]
  /\ pos \in [Requests -> Nat \ {0}]
  /\ writes \in [Requests -> [Keys -> Row \cup {NoRow}]]
  /\ pulled \in [Requests -> [Keys -> Nat]]
  /\ cursor \in [Devices -> Nat]
  /\ known \in [Devices -> [Keys -> Nat]]

Init ==
  /\ clock = 1
  /\ rows = [k \in Keys |-> NoRow]
  /\ lock = [k \in Keys |-> NoRequest]
  /\ phase = [r \in Requests |-> "unsent"]
  /\ req = [r \in Requests |-> NoRequest]
  /\ start = [r \in Requests |-> 0]
  /\ pos = [r \in Requests |-> 1]
  /\ writes = [r \in Requests |-> [k \in Keys |-> NoRow]]
  /\ pulled = [r \in Requests |-> [k \in Keys |-> 0]]
  /\ cursor = [d \in Devices |-> NoCursor]
  /\ known = [d \in Devices |-> [k \in Keys |-> 0]]

-----------------------------------------------------------------------------
(* The parts of a request the handler computes. *)

\* Rejected before anything is written: too many items, or an item or the cursor invalid.
Valid(r) == req[r].batch \notin Malformed /\ Len(req[r].batch) =< MaxSyncItems

\* A client time too far ahead of now() becomes now().
Clamp(now, t) == IF t > now + MaxClockSkew THEN now ELSE t

ItemKey(r, i) == KeyOf(User(r), req[r].batch[i].id)
ItemAt(r, i)  == Clamp(start[r], req[r].batch[i].at)
NewRow(r, i)  == [owner |-> User(r), at |-> ItemAt(r, i), sua |-> start[r]]

\* A transaction sees its own writes over the committed rows.
Seen(r, k) == IF writes[r][k] # NoRow THEN writes[r][k] ELSE rows[k]

\* ON CONFLICT ... WHERE: progress needs no owner test, its key holds the user.
AcceptsAnyTime(k, old, new) == old = NoRow \/ k \in Progress \/ old.owner = new.owner
Accepts(k, old, new) ==
  \/ old = NoRow
  \/ (k \in Progress \/ old.owner = new.owner) /\ new.at > old.at

\* An upsert waits for the transaction that inserted or conflicted on the same key.
FreeAlways(r, k) == lock[k] \in Requests \cup {NoRequest}
Free(r, k) == lock[k] \in {r, NoRequest}

\* WHERE user_id = @user_id ...
MineAnyUser(r, row) == row # NoRow
Mine(r, row) == row # NoRow /\ row.owner = User(r)

\* ... AND (since IS NULL OR server_updated_at > since), since = cursor - syncOverlap.
RecentNoOverlap(r, row) == req[r].cursor = NoCursor \/ row.sua > req[r].cursor
Recent(r, row) == req[r].cursor = NoCursor \/ row.sua > req[r].cursor - Overlap

NextCursorEarlier(r) == start[r] - Overlap
NextCursor(r) == start[r]

Newest(s, t) == IF s >= t THEN s ELSE t

-----------------------------------------------------------------------------
(* The device and the network. *)

Goto(r, p) == phase' = [phase EXCEPT ![r] = p]

Unlock(r) == lock' = [k \in Keys |-> IF lock[k] = r THEN NoRequest ELSE lock[k]]

Send(r, d, b) ==
  /\ phase[r] = "unsent"
  /\ req' = [req EXCEPT ![r] = [dev |-> d, cursor |-> cursor[d], batch |-> b]]
  /\ Goto(r, "sent")
  /\ UNCHANGED <<clock, rows, lock, start, pos, writes, pulled, clientVars>>

\* The request never arrives, or the 200 does not: the device keeps its cursor
\* and may push the same batch again.
Lose(r) ==
  /\ phase[r] \in {"sent", "reply"}
  /\ Goto(r, IF phase[r] = "sent" THEN "error" ELSE "lost")
  /\ UNCHANGED <<clock, rows, lock, req, start, pos, writes, pulled, clientVars>>

\* The device merges by id with last-write-wins and stores the cursor.
Deliver(r) ==
  LET d == req[r].dev
  IN  /\ phase[r] = "reply"
      /\ Goto(r, "acked")
      /\ cursor' = [cursor EXCEPT ![d] = NextCursor(r)]
      /\ known' = [known EXCEPT ![d] = [k \in Keys |-> Newest(known[d][k], pulled[r][k])]]
      /\ UNCHANGED <<clock, rows, lock, req, start, pos, writes, pulled>>

-----------------------------------------------------------------------------
(* The handler. *)

\* 400: nothing was written.
Reject(r) ==
  /\ phase[r] = "sent"
  /\ ~Valid(r)
  /\ Goto(r, "error")
  /\ UNCHANGED <<clock, rows, lock, req, start, pos, writes, pulled, clientVars>>

Begin(r) ==
  /\ phase[r] = "sent"
  /\ Valid(r)
  /\ start' = [start EXCEPT ![r] = clock]
  /\ Goto(r, "push")
  /\ UNCHANGED <<clock, rows, lock, req, pos, writes, pulled, clientVars>>

\* One INSERT ... ON CONFLICT DO UPDATE: the row is locked even when its WHERE fails.
Upsert(r) ==
  /\ phase[r] = "push"
  /\ pos[r] =< Len(req[r].batch)
  /\ LET k   == ItemKey(r, pos[r])
         new == NewRow(r, pos[r])
     IN  /\ Free(r, k)
         /\ lock' = [lock EXCEPT ![k] = r]
         /\ writes' = IF Accepts(k, Seen(r, k), new)
                      THEN [writes EXCEPT ![r][k] = new]
                      ELSE writes
  /\ pos' = [pos EXCEPT ![r] = @ + 1]
  /\ UNCHANGED <<clock, rows, phase, req, start, pulled, clientVars>>

\* One SELECT over one table, with a snapshot of its own.
Read(r, table, next) ==
  /\ pulled' = [pulled EXCEPT ![r] = [k \in Keys |->
                  IF k \in table /\ Mine(r, Seen(r, k)) /\ Recent(r, Seen(r, k))
                  THEN Seen(r, k).at ELSE pulled[r][k]]]
  /\ Goto(r, next)
  /\ UNCHANGED <<clock, rows, lock, req, start, pos, writes, clientVars>>

PullMarks(r)    == phase[r] = "push" /\ pos[r] > Len(req[r].batch) /\ Read(r, Marks, "answers")
PullAnswers(r)  == phase[r] = "answers" /\ Read(r, Answers, "progress")
PullProgress(r) == phase[r] = "progress" /\ Read(r, Progress, "commit")

Commit(r) ==
  /\ phase[r] = "commit"
  /\ rows' = [k \in Keys |-> Seen(r, k)]
  /\ Unlock(r)
  /\ Goto(r, "reply")
  /\ UNCHANGED <<clock, req, start, pos, writes, pulled, clientVars>>

\* Any statement fails, the connection or the process goes away: rolled back, 4xx or 5xx.
Fail(r) ==
  /\ phase[r] \in InTx
  /\ Unlock(r)
  /\ Goto(r, "error")
  /\ UNCHANGED <<clock, rows, req, start, pos, writes, pulled, clientVars>>

\* r waits for s: s holds the lock of r's next key.
WaitsFor(r, s) ==
  /\ phase[r] = "push" /\ pos[r] =< Len(req[r].batch) /\ s # r
  /\ lock[ItemKey(r, pos[r])] = s

\* Postgres aborts a transaction of a cycle of waiters.
DeadlockedNever(r) == FALSE
Deadlocked(r) ==
  \E cycle \in SUBSET Requests :
    /\ r \in cycle
    /\ \A s \in cycle : \E t \in cycle : WaitsFor(s, t)
    /\ \A s \in cycle : \E t \in cycle : WaitsFor(t, s)

AbortDeadlock(r) == Deadlocked(r) /\ Fail(r)

\* Time passes, but no transaction outlives MaxTx.
Tick ==
  /\ clock < MaxClock
  /\ \A r \in Requests : phase[r] \in InTx => clock + 1 - start[r] =< MaxTx
  /\ clock' = clock + 1
  /\ UNCHANGED <<rows, lock, phase, req, start, pos, writes, pulled, clientVars>>

Server(r) ==
  \/ Reject(r) \/ Begin(r) \/ Upsert(r) \/ PullMarks(r) \/ PullAnswers(r) \/ PullProgress(r)
  \/ Commit(r) \/ AbortDeadlock(r)

Network(r) == Lose(r) \/ Deliver(r)

Next ==
  \/ Tick
  \/ \E r \in Requests :
       \/ \E d \in Devices, b \in Batches : Send(r, d, b)
       \/ Server(r)
       \/ Network(r)
       \/ Fail(r)

Spec == Init /\ [][Next]_vars

\* A handler that can run does, and a response arrives or is lost.
Fairness == \A r \in Requests : WF_vars(Server(r)) /\ WF_vars(Network(r))

FairSpec == Spec /\ Fairness

-----------------------------------------------------------------------------
(* Properties. *)

\* What a device has received of its user's row k is current, or the row is
\* among those its next pull re-sends (the comment on syncOverlap, user.go:240).
UpToDate(d, k) ==
  \/ known[d][k] >= rows[k].at
  \/ cursor[d] = NoCursor
  \/ rows[k].sua > cursor[d] - Overlap

\* No committed change is ever hidden from a device: it was received, or the
\* device's next sync re-reads it, although now() is fixed when a transaction
\* starts and its rows appear only when it commits (user.go:311, 346, 410).
NoMissedChange ==
  \A d \in Devices, k \in Keys :
    rows[k] # NoRow /\ rows[k].owner = UserOf[d] => UpToDate(d, k)

\* A device only learns versions that were committed, of rows of its own user:
\* neither writes that were rolled back nor another account's rows (the
\* response is built inside the transaction, user.go:382-423).
OnlyCommittedOwnRows ==
  \A d \in Devices, k \in Keys : known[d][k] > 0 =>
    /\ rows[k] # NoRow
    /\ rows[k].owner = UserOf[d]
    /\ known[d][k] =< rows[k].at

\* The versions of user u's batch b, as a transaction that starts now stores them.
Versions(u, b, now) ==
  {[user |-> u, key |-> KeyOf(u, b[i].id), at |-> Clamp(now, b[i].at)] : i \in 1 .. Len(b)}

PushedVersions ==
  UNION {Versions(UserOf[req[r].dev], req[r].batch, start[r]) :
         r \in {q \in Requests : phase[q] \in Committed}}

StoredVersions ==
  [k \in Keys |-> IF rows[k] = NoRow THEN NoRow
                  ELSE [owner |-> rows[k].owner, at |-> rows[k].at]]

Lww == INSTANCE LwwStore WITH store <- StoredVersions, pushed <- PushedVersions

\* The committed row of a key is the newest version its owner ever pushed, over
\* all interleavings of batches (user.go:357-380, the WHEREs of sync.sql).
LastWriteWins == Lww!LastWriteWins

\* The interleaved statements implement atomic last-write-wins batches: no
\* batch is half applied, no row changes owner or goes back to an older version.
ImplementsLwwStore == Lww!Spec

-----------------------------------------------------------------------------
(* The inductive invariant behind the properties: what is true of a request  *)
(* halfway.                                                                  *)

Alive == {"sent", "reply"} \cup InTx

\* Own(u, k): the committed row k is one of user u's.
Own(u, k) == rows[k] # NoRow /\ rows[k].owner = u

SentRequests == \A r \in Requests : phase[r] # "unsent" => req[r] \in Request

\* Cursors and transactions lie in the past, a transaction at most MaxTx of it.
TimesOK ==
  /\ \A d \in Devices : cursor[d] =< clock
  /\ \A r \in Requests :
       /\ phase[r] = "sent" => req[r].cursor =< clock
       /\ phase[r] \in InTx \cup {"reply"} => req[r].cursor =< start[r] /\ start[r] =< clock
       /\ phase[r] \in InTx => clock - start[r] =< MaxTx

\* A row an open transaction wrote is locked by it and supersedes the committed one.
LocksOK ==
  /\ \A k \in Keys : lock[k] # NoRequest => phase[lock[k]] \in InTx
  /\ \A k \in Progress : rows[k] # NoRow => rows[k].owner = k[1]
  /\ \A r \in Requests :
       /\ phase[r] \in {"unsent", "sent"} => pos[r] = 1 /\ \A k \in Keys : writes[r][k] = NoRow
       /\ phase[r] \in InTx => \A k \in Keys : writes[r][k] # NoRow =>
            /\ lock[k] = r
            /\ writes[r][k].owner = User(r)
            /\ writes[r][k].sua = start[r]
            /\ k \in Progress => k[1] = User(r)
            /\ rows[k] # NoRow => rows[k].owner = User(r) /\ rows[k].at < writes[r][k].at

\* What a request may still miss: rows its cursor makes it read, and, once a
\* table is read, rows the cursor it will return makes the device read again.
PulledKeys(p) ==
  IF p = "answers" THEN Marks
  ELSE IF p = "progress" THEN Marks \cup Answers
  ELSE IF p \in {"commit", "reply"} THEN Keys ELSE {}

Kept(r, k) == known[req[r].dev][k] >= rows[k].at

PullsOK ==
  \A r \in Requests, k \in Keys : phase[r] \in Alive /\ Own(User(r), k) =>
    /\ Kept(r, k) \/ Recent(r, rows[k])
    /\ k \in PulledKeys(phase[r]) =>
         \/ Kept(r, k)
         \/ pulled[r][k] >= rows[k].at
         \/ rows[k].sua > start[r] - Overlap

\* What a request read is committed when its response is.
ReadsOK ==
  \A r \in Requests, k \in Keys :
    /\ phase[r] \in {"unsent", "sent", "push"} => pulled[r][k] = 0
    /\ phase[r] \in InTx /\ pulled[r][k] > 0 =>
         Mine(r, Seen(r, k)) /\ pulled[r][k] =< Seen(r, k).at
    /\ phase[r] = "reply" /\ pulled[r][k] > 0 =>
         Own(User(r), k) /\ pulled[r][k] =< rows[k].at

\* The transaction sees a row at least as new as every item it has handled,
\* and every row it wrote is one of them.
Handled(r, i) ==
  LET k == ItemKey(r, i)
  IN  /\ lock[k] = r
      /\ Seen(r, k) # NoRow
      /\ Seen(r, k).owner = User(r) => ItemAt(r, i) =< Seen(r, k).at

PushesOK ==
  \A r \in Requests : phase[r] \in InTx =>
    /\ phase[r] # "push" => pos[r] > Len(req[r].batch)
    /\ \A i \in 1 .. Len(req[r].batch) : i < pos[r] => Handled(r, i)
    /\ \A k \in Keys : writes[r][k] # NoRow =>
         \E i \in 1 .. Len(req[r].batch) : ItemKey(r, i) = k /\ writes[r][k].at = ItemAt(r, i)

SyncInv == SentRequests /\ TimesOK /\ LocksOK /\ PullsOK /\ ReadsOK /\ PushesOK

\* A request that was sent ends, although batches may lock the same rows in
\* opposite orders (user.go:357-380 locks in the order of the client's lists).
EveryRequestEnds ==
  \A r \in Requests : phase[r] = "sent" ~> phase[r] \in {"acked", "lost", "error"}
=============================================================================
