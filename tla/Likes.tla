-------------------------------- MODULE Likes --------------------------------
(***************************************************************************)
(* Likes of one feed item (internal/server/user.go, setLike; db/queries/   *)
(* sync.sql): POST and DELETE /v1/feed/{id}/like check that the item is    *)
(* published, open a transaction, take an advisory lock for the user and   *)
(* the item, look or update, commit, and count. A like is a row of         *)
(* user_marks, so the user's devices read and write it through             *)
(* POST /v1/sync as well, which does not take the advisory lock. Module    *)
(* Sync shows that a sync is atomic to everybody else: here it is one step.*)
(***************************************************************************)
EXTENDS Integers, FiniteSets

CONSTANTS
  Users, Devices, UserOf,   \* UserOf[d]: the account signed in on device d
  Locks, HashText(_),       \* hashtext(user || item): two users may share a lock
  Calls,                    \* the calls of a run, each made at most once
  Marks,                    \* ids of user_marks
  MaxClock, MaxEdits,       \* bounds of the run: the clock, edits on devices
  NoRow, NoCall

Copy == [at : Nat, active : BOOLEAN, dirty : BOOLEAN]   \* on a device; dirty: to be pushed
Row  == [user : Users, at : Nat, active : BOOLEAN, by : {"api", "device"}]

ASSUME LikesAssumption ==
  /\ IsFiniteSet(Users)
  /\ UserOf \in [Devices -> Users]
  /\ \A u \in Users : HashText(u) \in Locks
  /\ NoCall \notin Calls
  /\ NoRow \notin Copy \cup Row
  /\ MaxClock \in Nat /\ MaxEdits \in Nat

VARIABLES
  clock,
  published,  \* whether the item is
  rows,       \* the committed likes: a deleted one keeps its row
  lock,       \* the call that holds an advisory lock
  phase,      \* where a call is
  user, like, \* whose it is, and what it asks for
  start,      \* now() of its transaction
  writes,     \* its uncommitted rows
  counted,    \* the users CountLikes found
  local,      \* what a device has stored
  edits,      \* edits on devices so far
  synced,     \* devices for which nothing changed since their last sync
  quiet,      \* calls during which no other write of their user committed
  applied,    \* calls whose transaction committed
  before      \* before[c]: the calls that were over when c began

txVars     == <<lock, writes>>
callVars   == <<phase, user, like, start, counted>>
deviceVars == <<local, edits, synced>>
ghostVars  == <<quiet, applied, before>>
vars == <<clock, published, rows, lock, phase, user, like, start, writes, counted,
          local, edits, synced, quiet, applied, before>>

InTx   == {"lock", "decide", "insert", "commit"}
Over   == {"done", "notfound", "error"}
Phases == {"idle", "check", "begin", "count"} \cup InTx \cup Over

TypeOK ==
  /\ clock \in Nat /\ published \in BOOLEAN
  /\ rows \in [Marks -> Row \cup {NoRow}]
  /\ lock \in [Locks -> Calls \cup {NoCall}]
  /\ phase \in [Calls -> Phases]
  /\ user \in [Calls -> Users] /\ like \in [Calls -> BOOLEAN]
  /\ start \in [Calls -> Nat]
  /\ writes \in [Calls -> [Marks -> Row \cup {NoRow}]]
  /\ counted \in [Calls -> SUBSET Users]
  /\ local \in [Devices -> [Marks -> Copy \cup {NoRow}]]
  /\ edits \in Nat
  /\ synced \in SUBSET Devices
  /\ quiet \in SUBSET Calls /\ applied \in SUBSET Calls
  /\ before \in [Calls -> SUBSET Calls]

Nothing == [m \in Marks |-> NoRow]

Init ==
  /\ clock = 1 /\ published \in BOOLEAN
  /\ rows = Nothing
  /\ lock = [l \in Locks |-> NoCall]
  /\ phase = [c \in Calls |-> "idle"]
  /\ user \in [Calls -> Users] /\ like \in [Calls -> BOOLEAN]
  /\ start = [c \in Calls |-> 0]
  /\ writes = [c \in Calls |-> Nothing]
  /\ counted = [c \in Calls |-> {}]
  /\ local = [d \in Devices |-> Nothing]
  /\ edits = 0
  /\ synced = {} /\ quiet = {} /\ applied = {}
  /\ before = [c \in Calls |-> {}]

-----------------------------------------------------------------------------
(* The statements of sync.sql. *)

Goto(c, p) == phase' = [phase EXCEPT ![c] = p]

\* deleted_at IS NULL.
Exists(m) == rows[m] # NoRow
ExistsActive(m) == rows[m] # NoRow /\ rows[m].active

LikesOfAnyState(u) == {m \in Marks : Exists(m) /\ rows[m].user = u}
Likes(u) == {m \in Marks : ExistsActive(m) /\ rows[m].user = u}

HasActiveLikeEver(u) == LikesOfAnyState(u) # {}
HasActiveLike(u) == Likes(u) # {}

\* DeleteLikes updates every active like of the user.
DeletedNewest(c) == {m \in Likes(user[c]) : \A n \in Likes(user[c]) : rows[n].at =< rows[m].at}
Deleted(c) == Likes(user[c])

\* CountLikes counts the users of active likes: count(DISTINCT user_id).
CountLikesRows == {m \in Marks : ExistsActive(m)}
CountLikes == {rows[m].user : m \in {n \in Marks : ExistsActive(n)}}

\* gen_random_uuid(): an id nobody has.
Fresh(m) ==
  /\ rows[m] = NoRow
  /\ \A d \in Devices : local[d][m] = NoRow
  /\ \A c \in Calls : writes[c][m] = NoRow

\* pg_advisory_xact_lock waits for its holder.
LockFreeAlways(c) == TRUE
LockFree(c) == lock[HashText(user[c])] = NoCall

\* The end of the transaction releases its locks.
UnlockCommitted(c) ==
  lock' = [l \in Locks |-> IF lock[l] = c /\ phase[c] = "commit" THEN NoCall ELSE lock[l]]
Unlock(c) == lock' = [l \in Locks |-> IF lock[l] = c THEN NoCall ELSE lock[l]]

\* A write of user u commits: other calls of u are not alone any more.
Disturbed(u, c) == quiet' = {o \in quiet : o = c \/ user[o] # u}

-----------------------------------------------------------------------------
(* setLike. *)

Call(c) ==
  /\ phase[c] = "idle"
  /\ Goto(c, "check")
  /\ quiet' = quiet \cup {c}
  /\ before' = [before EXCEPT ![c] = {o \in Calls : phase[o] \in Over}]
  /\ UNCHANGED <<clock, published, rows, txVars, user, like, start, counted, deviceVars, applied>>

\* A read of its own, before the transaction: the item may be withdrawn after it.
FeedItemPublished(c) ==
  /\ phase[c] = "check"
  /\ Goto(c, IF published THEN "begin" ELSE "notfound")
  /\ UNCHANGED <<clock, published, rows, txVars, user, like, start, counted, deviceVars, ghostVars>>

\* now() is the time of BEGIN, not of the statement that uses it.
Begin(c) ==
  /\ phase[c] = "begin"
  /\ start' = [start EXCEPT ![c] = clock]
  /\ Goto(c, "lock")
  /\ UNCHANGED <<clock, published, rows, txVars, user, like, counted, deviceVars, ghostVars>>

AdvisoryLock(c) ==
  /\ phase[c] = "lock" /\ LockFree(c)
  /\ lock' = [lock EXCEPT ![HashText(user[c])] = c]
  /\ Goto(c, "decide")
  /\ UNCHANGED <<clock, published, rows, user, like, start, writes, counted, deviceVars, ghostVars>>

\* The deleted rows are locked until the transaction ends.
DeleteLikes(c) ==
  /\ phase[c] = "decide" /\ ~like[c]
  /\ writes' = [writes EXCEPT ![c] = [m \in Marks |->
                  IF m \in Deleted(c)
                  THEN [rows[m] EXCEPT !.active = FALSE, !.at = start[c], !.by = "api"]
                  ELSE NoRow]]
  /\ Goto(c, "commit")
  /\ UNCHANGED <<clock, published, rows, lock, user, like, start, counted, deviceVars, ghostVars>>

Decide(c) ==
  /\ phase[c] = "decide" /\ like[c]
  /\ Goto(c, IF HasActiveLike(user[c]) THEN "commit" ELSE "insert")
  /\ UNCHANGED <<clock, published, rows, txVars, user, like, start, counted, deviceVars, ghostVars>>

InsertLike(c) ==
  /\ phase[c] = "insert"
  /\ \E m \in Marks :
       /\ Fresh(m)
       /\ writes' = [writes EXCEPT ![c][m] =
                       [user |-> user[c], at |-> start[c], active |-> TRUE, by |-> "api"]]
  /\ Goto(c, "commit")
  /\ UNCHANGED <<clock, published, rows, lock, user, like, start, counted, deviceVars, ghostVars>>

Commit(c) ==
  /\ phase[c] = "commit"
  /\ rows' = [m \in Marks |-> IF writes[c][m] # NoRow THEN writes[c][m] ELSE rows[m]]
  /\ writes' = [writes EXCEPT ![c] = Nothing]
  /\ Unlock(c)
  /\ Goto(c, "count")
  /\ synced' = IF writes[c] = Nothing THEN synced ELSE {d \in synced : UserOf[d] # user[c]}
  /\ Disturbed(user[c], c)
  /\ applied' = applied \cup {c}
  /\ UNCHANGED <<clock, published, user, like, start, counted, local, edits, before>>

Count(c) ==
  /\ phase[c] = "count"
  /\ counted' = [counted EXCEPT ![c] = CountLikes]
  /\ Goto(c, "done")
  /\ UNCHANGED <<clock, published, rows, txVars, user, like, start, deviceVars, ghostVars>>

\* A statement fails, or the connection goes away: the transaction is rolled
\* back. CountLikes may fail too, when the like has been committed.
Fail(c) ==
  /\ phase[c] \in {"check", "begin", "count"} \cup InTx
  /\ writes' = [writes EXCEPT ![c] = Nothing]
  /\ Unlock(c)
  /\ Goto(c, "error")
  /\ UNCHANGED <<clock, published, rows, user, like, start, counted, deviceVars, ghostVars>>

-----------------------------------------------------------------------------
(* The world around the calls. *)

Tick ==
  /\ clock < MaxClock
  /\ clock' = clock + 1
  /\ UNCHANGED <<published, rows, txVars, callVars, deviceVars, ghostVars>>

\* An editor publishes or withdraws the item.
Publish ==
  /\ published' = ~published
  /\ UNCHANGED <<clock, rows, txVars, callVars, deviceVars, ghostVars>>

\* The user likes, or takes a like back, on a device that may be offline. The
\* clocks of devices are right.
Edit(d, m) ==
  /\ edits < MaxEdits
  /\ local[d][m] # NoRow \/ Fresh(m)
  /\ local' = [local EXCEPT ![d][m] =
                 [at |-> clock, active |-> local[d][m] = NoRow \/ ~local[d][m].active,
                  dirty |-> TRUE]]
  /\ edits' = edits + 1
  /\ synced' = synced \ {d}
  /\ UNCHANGED <<clock, published, rows, txVars, callVars, ghostVars>>

Mine(d, m) == rows[m] = NoRow \/ rows[m].user = UserOf[d]

\* The edits since the last sync that win on the server, by the time of the edit.
Pushes(d) ==
  {m \in Marks : /\ local[d][m] # NoRow /\ local[d][m].dirty /\ Mine(d, m)
                 /\ rows[m] # NoRow => local[d][m].at > rows[m].at}

\* The device merges by id with last write wins; the server's row wins a tie.
Merged(d, m, row) ==
  LET old == local[d][m]
  IN  IF row # NoRow /\ row.user = UserOf[d] /\ (old = NoRow \/ old.at =< row.at)
      THEN [at |-> row.at, active |-> row.active, dirty |-> FALSE]
      ELSE IF old = NoRow THEN NoRow ELSE [old EXCEPT !.dirty = FALSE]

\* A push waits for the rows an open transaction has written.
Sync(d) ==
  LET pushed == [m \in Marks |->
        IF m \in Pushes(d)
        THEN [user |-> UserOf[d], at |-> local[d][m].at, active |-> local[d][m].active, by |-> "device"]
        ELSE rows[m]]
  IN  /\ \A m \in Marks, c \in Calls : writes[c][m] # NoRow => m \notin Pushes(d)
      /\ rows' = pushed
      /\ local' = [local EXCEPT ![d] = [m \in Marks |-> Merged(d, m, pushed[m])]]
      /\ synced' = {d} \cup (IF Pushes(d) = {} THEN synced
                             ELSE {e \in synced : UserOf[e] # UserOf[d]})
      /\ IF Pushes(d) = {} THEN quiet' = quiet ELSE Disturbed(UserOf[d], NoCall)
      /\ UNCHANGED <<clock, published, txVars, callVars, edits, applied, before>>

Handler(c) ==
  \/ FeedItemPublished(c) \/ Begin(c) \/ AdvisoryLock(c) \/ DeleteLikes(c) \/ Decide(c)
  \/ InsertLike(c) \/ Commit(c) \/ Count(c)

Next ==
  \/ Tick \/ Publish
  \/ \E c \in Calls : Call(c) \/ Handler(c) \/ Fail(c)
  \/ \E d \in Devices : Sync(d) \/ \E m \in Marks : Edit(d, m)

Spec == Init /\ [][Next]_vars

\* A handler that can run does; the holder of an advisory lock never waits for
\* another call.
FairSpec == Spec /\ \A c \in Calls : WF_vars(Handler(c))

-----------------------------------------------------------------------------
(* Properties. *)

\* Liking twice keeps one active like, however calls overlap: of two active
\* likes of a user at least one came from a device (user.go:43, 59-70).
OneActiveLike ==
  \A m, n \in Marks :
    m # n /\ ExistsActive(m) /\ ExistsActive(n) /\ rows[m].user = rows[n].user =>
      rows[m].by = "device" \/ rows[n].by = "device"

\* A call answers what is true: when no other write of its user committed while
\* it ran, its user is among those counted exactly if it was a like, whatever
\* likes and deleted rows it found (user.go:63-73).
AnswerIsTrue ==
  \A c \in quiet : phase[c] = "done" => (user[c] \in counted[c] <=> like[c])

\* The like count never exceeds the number of users who ever liked the item,
\* although devices may leave one user two active likes (00003_auth_sync_search.sql:15).
NeverInflated ==
  \A c \in Calls :
    Cardinality(counted[c]) =< Cardinality({rows[m].user : m \in {n \in Marks : Exists(n)}})

\* Without devices, the like of a user is what one of the calls asked for, and
\* no call that began after that one was over has committed since: calls take
\* effect one after the other, between their beginning and their end, even when
\* the answer to one is an error (user.go:57-74).
CallsInOrder ==
  edits = 0 =>
    \A u \in Users :
      LET done == {c \in applied : user[c] = u}
      IN  done # {} => \E c \in done :
            /\ Likes(u) # {} <=> like[c]
            /\ \A o \in done : c \notin before[o]

\* Every call ends.
EveryCallEnds == \A c \in Calls : phase[c] = "check" ~> phase[c] \in Over

\* What a device shows after a sync is what the server has: unliking deletes
\* softly so that sync sees it (user.go:43).
UnlikeReachesDevices ==
  \A d \in synced, m \in Marks :
    rows[m] # NoRow /\ rows[m].user = UserOf[d] => local[d][m].active = rows[m].active

-----------------------------------------------------------------------------
(* The inductive invariant behind OneActiveLike. *)

Holding  == {"decide", "insert", "commit"}
Adds(c, m) == writes[c][m] # NoRow /\ writes[c][m].active
ApiLikes(u) == {m \in Likes(u) : rows[m].by = "api"}

\* A call that decides or writes holds its user's lock, and nobody else does.
LocksOK ==
  /\ \A c \in Calls : phase[c] \in Holding => lock[HashText(user[c])] = c
  /\ \A l \in Locks : lock[l] # NoCall => phase[lock[l]] \in Holding

\* A call writes rows of its user: deletions, or one new like.
WritesOK ==
  \A c \in Calls, m \in Marks : writes[c][m] # NoRow =>
    /\ phase[c] = "commit"
    /\ writes[c][m].user = user[c]
    /\ Adds(c, m) => \A n \in Marks : n # m => writes[c][n] = NoRow

\* A call that inserts a like has seen no active one, and none can have come
\* from another call since.
InsertsOK ==
  \A c \in Calls :
    phase[c] = "insert" \/ (\E m \in Marks : Adds(c, m)) => ApiLikes(user[c]) = {}

LikesInv == LocksOK /\ WritesOK /\ InsertsOK /\ OneActiveLike
=============================================================================
