----------------------------- MODULE LikesProofs -----------------------------
(***************************************************************************)
(* Proofs about Likes, for any users, devices and calls, any hash of users *)
(* to advisory locks, and any bounds.                                      *)
(***************************************************************************)
EXTENDS Likes, FiniteSetTheorems, TLAPS

InvL == TypeOK /\ LikesInv

\* TypeOK in parts, by who writes them.
WorldOK ==
  /\ clock \in Nat /\ published \in BOOLEAN
  /\ user \in [Calls -> Users] /\ like \in [Calls -> BOOLEAN]
RowsOK ==
  /\ rows \in [Marks -> Row \cup {NoRow}]
  /\ writes \in [Calls -> [Marks -> Row \cup {NoRow}]]
CallsOK ==
  /\ lock \in [Locks -> Calls \cup {NoCall}]
  /\ phase \in [Calls -> Phases]
  /\ start \in [Calls -> Nat]
  /\ counted \in [Calls -> SUBSET Users]
DevicesOK ==
  /\ local \in [Devices -> [Marks -> Copy \cup {NoRow}]]
  /\ edits \in Nat /\ synced \in SUBSET Devices
GhostsOK ==
  /\ quiet \in SUBSET Calls /\ applied \in SUBSET Calls
  /\ before \in [Calls -> SUBSET Calls]

LEMMA TypeParts == TypeOK <=> WorldOK /\ RowsOK /\ CallsOK /\ DevicesOK /\ GhostsOK
BY DEF TypeOK, WorldOK, RowsOK, CallsOK, DevicesOK, GhostsOK

LEMMA NothingType == Nothing \in [Marks -> Row \cup {NoRow}]
BY DEF Nothing

LEMMA InitInv == Init => InvL
<1> SUFFICES ASSUME Init PROVE InvL
  OBVIOUS
<1>1. WorldOK /\ DevicesOK /\ GhostsOK
  BY NothingType DEF Init, WorldOK, DevicesOK, GhostsOK, Nothing
<1>2. RowsOK /\ CallsOK
  BY NothingType DEF Init, RowsOK, CallsOK, Phases, InTx, Over
<1>3. LocksOK
  BY DEF Init, LocksOK, Holding
<1>4. WritesOK /\ InsertsOK
  BY DEF Init, WritesOK, InsertsOK, Adds, Nothing
<1>5. OneActiveLike
  BY DEF Init, OneActiveLike, ExistsActive, Nothing
<1> QED BY <1>1, <1>2, <1>3, <1>4, <1>5, TypeParts DEF InvL, LikesInv

-----------------------------------------------------------------------------
(* Types. *)

LEMMA RowsStep ==
  ASSUME TypeOK, [Next]_vars
  PROVE  RowsOK'
<1> USE TypeParts, NothingType DEF RowsOK
<1>1. ASSUME NEW c \in Calls, DeleteLikes(c) PROVE RowsOK'
  <2>1. ASSUME NEW m \in Deleted(c)
        PROVE  [rows[m] EXCEPT !.active = FALSE, !.at = start[c], !.by = "api"] \in Row
    <3>1. m \in Marks /\ rows[m] \in Row
      BY <2>1 DEF Deleted, Likes, ExistsActive
    <3>2. start[c] \in Nat
      BY DEF CallsOK
    <3> QED BY <3>1, <3>2 DEF Row
  <2> QED BY <1>1, <2>1 DEF DeleteLikes
<1>2. ASSUME NEW c \in Calls, InsertLike(c) PROVE RowsOK'
  <2>1. [user |-> user[c], at |-> start[c], active |-> TRUE, by |-> "api"] \in Row
    BY DEF CallsOK, WorldOK, Row
  <2> QED BY <1>2, <2>1 DEF InsertLike
<1>3. ASSUME NEW c \in Calls, Commit(c) \/ Fail(c) PROVE RowsOK'
  BY <1>3 DEF Commit, Fail
<1>4. ASSUME NEW d \in Devices, Sync(d) PROVE RowsOK'
  <2>1. ASSUME NEW m \in Pushes(d)
        PROVE  [user |-> UserOf[d], at |-> local[d][m].at, active |-> local[d][m].active,
                by |-> "device"] \in Row
    <3>1. m \in Marks /\ local[d][m] \in Copy
      BY <2>1 DEF Pushes, DevicesOK
    <3> QED BY <3>1, LikesAssumption DEF Row, Copy
  <2> QED BY <1>4, <2>1 DEF Sync, txVars
<1>5. CASE UNCHANGED <<rows, writes>>
  BY <1>5
<1> QED
  BY <1>1, <1>2, <1>3, <1>4, <1>5
  DEF Next, Handler, Call, FeedItemPublished, Begin, AdvisoryLock, Decide, Count, Tick, Publish,
      Edit, vars, txVars

LEMMA CallsStep ==
  ASSUME TypeOK, [Next]_vars
  PROVE  CallsOK'
<1> USE TypeParts DEF CallsOK
<1> USE DEF Goto, Phases, InTx, Over
<1>1. ASSUME NEW c \in Calls, Call(c) \/ FeedItemPublished(c) \/ DeleteLikes(c) \/ Decide(c)
                               \/ InsertLike(c)
      PROVE  CallsOK'
  BY <1>1 DEF Call, FeedItemPublished, DeleteLikes, Decide, InsertLike, txVars
<1>2. ASSUME NEW c \in Calls, Begin(c) PROVE CallsOK'
  BY <1>2 DEF Begin, txVars, WorldOK
<1>3. ASSUME NEW c \in Calls, AdvisoryLock(c) PROVE CallsOK'
  BY <1>3 DEF AdvisoryLock
<1>4. ASSUME NEW c \in Calls, Commit(c) \/ Fail(c) PROVE CallsOK'
  BY <1>4 DEF Commit, Fail, Unlock
<1>5. ASSUME NEW c \in Calls, Count(c) PROVE CallsOK'
  <2>1. CountLikes \subseteq Users
    BY DEF CountLikes, ExistsActive, RowsOK, Row
  <2> QED BY <1>5, <2>1 DEF Count, txVars
<1>6. CASE UNCHANGED <<lock, phase, start, counted>>
  BY <1>6
<1> QED
  BY <1>1, <1>2, <1>3, <1>4, <1>5, <1>6
  DEF Next, Handler, Tick, Publish, Edit, Sync, vars, txVars, callVars

LEMMA DevicesStep ==
  ASSUME TypeOK, [Next]_vars
  PROVE  DevicesOK'
<1> USE TypeParts DEF DevicesOK
<1>1. ASSUME NEW d \in Devices, NEW m \in Marks, Edit(d, m) PROVE DevicesOK'
  <2>1. [at |-> clock, active |-> local[d][m] = NoRow \/ ~local[d][m].active, dirty |-> TRUE] \in Copy
    BY DEF WorldOK, Copy
  <2> QED BY <1>1, <2>1 DEF Edit
<1>2. ASSUME NEW d \in Devices, Sync(d) PROVE DevicesOK'
  <2>1. ASSUME NEW m \in Marks, NEW row \in Row \cup {NoRow}
        PROVE  Merged(d, m, row) \in Copy \cup {NoRow}
    <3>1. row # NoRow => [at |-> row.at, active |-> row.active, dirty |-> FALSE] \in Copy
      BY DEF Row, Copy
    <3>2. local[d][m] # NoRow => [local[d][m] EXCEPT !.dirty = FALSE] \in Copy
      <4> SUFFICES ASSUME NEW old \in Copy PROVE [old EXCEPT !.dirty = FALSE] \in Copy
        OBVIOUS
      <4> QED BY DEF Copy
    <3>3. CASE row # NoRow /\ row.user = UserOf[d] /\ (local[d][m] = NoRow \/ local[d][m].at =< row.at)
      BY <3>1, <3>3 DEF Merged
    <3>4. CASE ~(row # NoRow /\ row.user = UserOf[d] /\ (local[d][m] = NoRow \/ local[d][m].at =< row.at))
      <4>1. Merged(d, m, row) = IF local[d][m] = NoRow THEN NoRow
                                ELSE [local[d][m] EXCEPT !.dirty = FALSE]
        BY <3>4, Zenon DEF Merged
      <4> QED BY <3>2, <4>1
    <3> QED BY <3>3, <3>4
  <2>2. rows' \in [Marks -> Row \cup {NoRow}]
    BY RowsStep DEF RowsOK
  <2>3. [m \in Marks |-> Merged(d, m, rows'[m])] \in [Marks -> Copy \cup {NoRow}]
    BY <2>1, <2>2
  <2>4. local' = [local EXCEPT ![d] = [m \in Marks |-> Merged(d, m, rows'[m])]]
    BY <1>2 DEF Sync
  <2>5. local' \in [Devices -> [Marks -> Copy \cup {NoRow}]]
    BY <2>3, <2>4
  <2>6. edits' = edits /\ synced' \in SUBSET Devices
    BY <1>2 DEF Sync
  <2> QED BY <2>5, <2>6
<1>3. ASSUME NEW c \in Calls, Commit(c) PROVE DevicesOK'
  BY <1>3 DEF Commit
<1>4. CASE UNCHANGED deviceVars
  BY <1>4 DEF deviceVars
<1> QED
  BY <1>1, <1>2, <1>3, <1>4
  DEF Next, Handler, Call, FeedItemPublished, Begin, AdvisoryLock, DeleteLikes, Decide, InsertLike,
      Count, Fail, Tick, Publish, vars, deviceVars

LEMMA GhostsStep ==
  ASSUME TypeOK, [Next]_vars
  PROVE  GhostsOK' /\ WorldOK'
<1> USE TypeParts DEF GhostsOK, WorldOK
<1>1. ASSUME NEW c \in Calls, Call(c) PROVE GhostsOK' /\ WorldOK'
  BY <1>1 DEF Call
<1>2. ASSUME NEW c \in Calls, Commit(c) PROVE GhostsOK' /\ WorldOK'
  BY <1>2 DEF Commit, Disturbed
<1>3. ASSUME NEW d \in Devices, Sync(d) PROVE GhostsOK' /\ WorldOK'
  BY <1>3 DEF Sync, Disturbed, callVars
<1>4. CASE Tick
  BY <1>4 DEF Tick, callVars, ghostVars
<1>5. CASE Publish
  BY <1>5 DEF Publish, callVars, ghostVars
<1>6. CASE UNCHANGED <<clock, published, user, like, ghostVars>>
  BY <1>6 DEF ghostVars
<1> QED
  BY <1>1, <1>2, <1>3, <1>4, <1>5, <1>6
  DEF Next, Handler, FeedItemPublished, Begin, AdvisoryLock, DeleteLikes, Decide, InsertLike,
      Count, Fail, Edit, vars, callVars, ghostVars

LEMMA TypeStep == TypeOK /\ [Next]_vars => TypeOK'
<1> SUFFICES ASSUME TypeOK, [Next]_vars PROVE TypeOK'
  OBVIOUS
<1>1. WorldOK' /\ RowsOK' /\ CallsOK' /\ DevicesOK' /\ GhostsOK'
  BY RowsStep, CallsStep, DevicesStep, GhostsStep
<1> QED BY <1>1 DEF TypeOK, WorldOK, RowsOK, CallsOK, DevicesOK, GhostsOK

-----------------------------------------------------------------------------
(* The invariant. *)

\* The advisory lock: no two calls of a user decide or write at a time.
LEMMA HoldersDiffer ==
  ASSUME LocksOK, NEW c \in Calls, NEW o \in Calls, user[c] = user[o],
         phase[c] \in Holding, phase[o] \in Holding
  PROVE  c = o
BY DEF LocksOK

\* A step outside the locked part, of a call that holds nothing.
LEMMA PlainMove ==
  ASSUME InvL, NEW c \in Calls, NEW p \in Phases \ Holding, phase[c] \notin Holding, Goto(c, p),
         UNCHANGED <<rows, lock, user, writes>>
  PROVE  LikesInv'
<1> USE TypeParts DEF InvL, LikesInv
<1>1. phase'[c] = p /\ \A o \in Calls \ {c} : phase'[o] = phase[o]
  BY DEF Goto, CallsOK
<1>2. LocksOK'
  <2>1. \A o \in Calls : phase'[o] \in Holding => lock'[HashText(user'[o])] = o
    BY <1>1 DEF LocksOK
  <2>2. \A l \in Locks : lock'[l] # NoCall => phase'[lock'[l]] \in Holding
    BY <1>1 DEF LocksOK, CallsOK
  <2> QED BY <2>1, <2>2 DEF LocksOK
<1>3. WritesOK'
  BY <1>1 DEF WritesOK, Adds, Holding
<1>4. InsertsOK'
  BY <1>1 DEF InsertsOK, Adds, ApiLikes, Likes, ExistsActive, Holding
<1>5. OneActiveLike'
  BY DEF OneActiveLike, ExistsActive
<1> QED BY <1>2, <1>3, <1>4, <1>5

\* A step of a call that holds its lock and keeps it.
LEMMA HeldMove ==
  ASSUME InvL, NEW c \in Calls, NEW p \in Holding, phase[c] \in Holding, Goto(c, p),
         UNCHANGED <<lock, user>>
  PROVE  LocksOK' /\ phase'[c] = p /\ \A o \in Calls \ {c} : phase'[o] = phase[o]
<1>1. phase'[c] = p /\ \A o \in Calls \ {c} : phase'[o] = phase[o]
  BY TypeParts DEF InvL, Goto, CallsOK
<1>2. LocksOK
  BY DEF InvL, LikesInv
<1>3. \A o \in Calls : phase'[o] \in Holding => lock'[HashText(user'[o])] = o
  BY <1>1, <1>2 DEF LocksOK
<1>4. \A l \in Locks : lock'[l] # NoCall => phase'[lock'[l]] \in Holding
  BY <1>1, <1>2, TypeParts DEF InvL, LocksOK, CallsOK
<1> QED BY <1>1, <1>3, <1>4 DEF LocksOK

LEMMA LockStep ==
  ASSUME InvL, NEW c \in Calls, AdvisoryLock(c)
  PROVE  LikesInv'
<1> USE TypeParts DEF InvL, LikesInv
<1>1. /\ phase'[c] = "decide" /\ \A o \in Calls \ {c} : phase'[o] = phase[o]
      /\ lock' = [lock EXCEPT ![HashText(user[c])] = c]
      /\ lock[HashText(user[c])] = NoCall
      /\ HashText(user[c]) \in Locks
      /\ UNCHANGED <<rows, user, writes>>
  BY LikesAssumption DEF AdvisoryLock, LockFree, Goto, CallsOK, WorldOK
<1>2. phase[c] = "lock"
  BY DEF AdvisoryLock
<1>3. \A o \in Calls : phase'[o] \in Holding => lock'[HashText(user'[o])] = o
  <2> SUFFICES ASSUME NEW o \in Calls, phase'[o] \in Holding PROVE lock'[HashText(user[o])] = o
    BY <1>1
  <2>1. CASE o = c
    BY <1>1, <2>1 DEF CallsOK
  <2>2. CASE o # c
    <3>1. lock[HashText(user[o])] = o /\ HashText(user[o]) \in Locks
      BY <1>1, <2>2, LikesAssumption DEF LocksOK, WorldOK
    <3>2. HashText(user[o]) # HashText(user[c])
      BY <1>1, <3>1, LikesAssumption
    <3> QED BY <1>1, <3>1, <3>2 DEF CallsOK
  <2> QED BY <2>1, <2>2
<1>4. \A l \in Locks : lock'[l] # NoCall => phase'[lock'[l]] \in Holding
  BY <1>1 DEF LocksOK, CallsOK, Holding
<1>5. LocksOK'
  BY <1>3, <1>4 DEF LocksOK
<1>6. WritesOK'
  BY <1>1, <1>2 DEF WritesOK, Adds
<1>7. InsertsOK'
  BY <1>1, <1>2 DEF InsertsOK, Adds, ApiLikes, Likes, ExistsActive
<1>8. OneActiveLike'
  BY <1>1 DEF OneActiveLike, ExistsActive
<1> QED BY <1>5, <1>6, <1>7, <1>8

\* HasActiveLike finds none, or nothing is written.
LEMMA DecideStep ==
  ASSUME InvL, NEW c \in Calls, Decide(c)
  PROVE  LikesInv'
<1> USE TypeParts DEF InvL, LikesInv
<1> DEFINE p == IF HasActiveLike(user[c]) THEN "commit" ELSE "insert"
<1>1. phase[c] = "decide" /\ Goto(c, p) /\ UNCHANGED <<rows, lock, user, writes>>
  BY DEF Decide, txVars
<1>2. LocksOK' /\ phase'[c] = p /\ \A o \in Calls \ {c} : phase'[o] = phase[o]
  BY <1>1, HeldMove DEF Holding
<1>3. \A m \in Marks : writes[c][m] = NoRow
  BY <1>1 DEF WritesOK
<1>4. WritesOK'
  BY <1>1, <1>2, <1>3 DEF WritesOK, Adds
<1>5. phase'[c] = "insert" => ApiLikes(user[c]) = {}
  BY <1>2 DEF HasActiveLike, ApiLikes
<1>6. InsertsOK'
  <2> SUFFICES ASSUME NEW o \in Calls, phase'[o] = "insert" \/ \E m \in Marks : Adds(o, m)
               PROVE  ApiLikes(user[o]) = {}
    BY <1>1 DEF InsertsOK, Adds, ApiLikes, Likes, ExistsActive
  <2>1. CASE o = c
    BY <1>3, <1>5, <2>1 DEF Adds
  <2>2. CASE o # c
    BY <1>2, <2>2 DEF InsertsOK
  <2> QED BY <2>1, <2>2
<1>7. OneActiveLike'
  BY <1>1 DEF OneActiveLike, ExistsActive
<1> QED BY <1>2, <1>4, <1>6, <1>7

LEMMA DeleteStep ==
  ASSUME InvL, NEW c \in Calls, DeleteLikes(c)
  PROVE  LikesInv'
<1> USE TypeParts DEF InvL, LikesInv
<1>1. phase[c] = "decide" /\ Goto(c, "commit") /\ UNCHANGED <<rows, lock, user>>
  BY DEF DeleteLikes
<1>2. LocksOK' /\ phase'[c] = "commit" /\ \A o \in Calls \ {c} : phase'[o] = phase[o]
  BY <1>1, HeldMove DEF Holding
<1>3. \A o \in Calls \ {c} : writes'[o] = writes[o]
  BY DEF DeleteLikes, RowsOK
<1>4. ASSUME NEW m \in Marks, writes'[c][m] # NoRow
      PROVE  writes'[c][m].user = user[c] /\ ~writes'[c][m].active
  <2>1. m \in Deleted(c)
        /\ writes'[c][m] = [rows[m] EXCEPT !.active = FALSE, !.at = start[c], !.by = "api"]
    BY <1>4 DEF DeleteLikes, RowsOK
  <2>2. rows[m] \in Row /\ rows[m].user = user[c]
    BY <2>1 DEF Deleted, Likes, ExistsActive, RowsOK
  <2> QED BY <2>1, <2>2 DEF Row
<1>5. WritesOK'
  BY <1>1, <1>2, <1>3, <1>4 DEF WritesOK, Adds
<1>6. InsertsOK'
  <2> SUFFICES ASSUME NEW o \in Calls, phase'[o] = "insert" \/ \E m \in Marks : Adds(o, m)'
               PROVE  ApiLikes(user[o]) = {}
    BY <1>1 DEF InsertsOK, ApiLikes, Likes, ExistsActive
  <2>1. o # c
    BY <1>2, <1>4 DEF Adds
  <2> QED BY <1>2, <1>3, <2>1 DEF InsertsOK, Adds
<1>7. OneActiveLike'
  BY <1>1 DEF OneActiveLike, ExistsActive
<1> QED BY <1>2, <1>5, <1>6, <1>7

LEMMA InsertStep ==
  ASSUME InvL, NEW c \in Calls, InsertLike(c)
  PROVE  LikesInv'
<1> USE TypeParts DEF InvL, LikesInv
<1>1. phase[c] = "insert" /\ Goto(c, "commit") /\ UNCHANGED <<rows, lock, user>>
  BY DEF InsertLike
<1>2. LocksOK' /\ phase'[c] = "commit" /\ \A o \in Calls \ {c} : phase'[o] = phase[o]
  BY <1>1, HeldMove DEF Holding
<1>3. PICK m \in Marks : writes' = [writes EXCEPT ![c][m] =
            [user |-> user[c], at |-> start[c], active |-> TRUE, by |-> "api"]]
  BY DEF InsertLike
<1>4. \A n \in Marks : writes[c][n] = NoRow
  BY <1>1 DEF WritesOK
<1>5. /\ \A o \in Calls \ {c} : writes'[o] = writes[o]
      /\ writes'[c][m].user = user[c]
      /\ \A n \in Marks \ {m} : writes'[c][n] = NoRow
  BY <1>3, <1>4 DEF RowsOK
<1>6. WritesOK'
  <2> SUFFICES ASSUME NEW o \in Calls, NEW n \in Marks, writes'[o][n] # NoRow
               PROVE  /\ phase'[o] = "commit"
                      /\ writes'[o][n].user = user[o]
                      /\ Adds(o, n)' => \A k \in Marks : k # n => writes'[o][k] = NoRow
    BY <1>1 DEF WritesOK
  <2>1. CASE o = c
    BY <1>2, <1>5, <2>1
  <2>2. CASE o # c
    BY <1>2, <1>5, <2>2 DEF WritesOK, Adds
  <2> QED BY <2>1, <2>2
<1>7. InsertsOK'
  <2> SUFFICES ASSUME NEW o \in Calls, phase'[o] = "insert" \/ \E n \in Marks : Adds(o, n)'
               PROVE  ApiLikes(user[o]) = {}
    BY <1>1 DEF InsertsOK, ApiLikes, Likes, ExistsActive
  <2>1. CASE o = c
    BY <1>1, <2>1 DEF InsertsOK
  <2>2. CASE o # c
    BY <1>2, <1>5, <2>2 DEF InsertsOK, Adds
  <2> QED BY <2>1, <2>2
<1>8. OneActiveLike'
  BY <1>1 DEF OneActiveLike, ExistsActive
<1> QED BY <1>2, <1>6, <1>7, <1>8

\* A step that ends the transaction of c, and releases its lock.
LEMMA UnlockStep ==
  ASSUME InvL, NEW c \in Calls, NEW p \in Phases \ Holding, Goto(c, p), Unlock(c), user' = user
  PROVE  LocksOK' /\ phase'[c] = p /\ \A o \in Calls \ {c} : phase'[o] = phase[o]
<1> USE TypeParts DEF InvL, LikesInv
<1>1. phase'[c] = p /\ \A o \in Calls \ {c} : phase'[o] = phase[o]
  BY DEF Goto, CallsOK
<1>2. \A o \in Calls : phase'[o] \in Holding => lock'[HashText(user'[o])] = o
  BY <1>1, LikesAssumption DEF LocksOK, Unlock, WorldOK
<1>3. \A l \in Locks : lock'[l] # NoCall => phase'[lock'[l]] \in Holding
  BY <1>1 DEF LocksOK, Unlock, CallsOK
<1> QED BY <1>1, <1>2, <1>3 DEF LocksOK

LEMMA CommitStep ==
  ASSUME InvL, NEW c \in Calls, Commit(c)
  PROVE  LikesInv'
<1> USE TypeParts DEF InvL, LikesInv
<1>1. /\ phase[c] = "commit" /\ Goto(c, "count") /\ Unlock(c) /\ user' = user
      /\ "count" \in Phases \ Holding
  BY DEF Commit, Phases, Holding, InTx, Over
<1>2. LocksOK' /\ phase'[c] = "count" /\ \A o \in Calls \ {c} : phase'[o] = phase[o]
  BY <1>1, UnlockStep
<1>3. \A m \in Marks : rows'[m] = IF writes[c][m] # NoRow THEN writes[c][m] ELSE rows[m]
  BY DEF Commit
<1>4. /\ \A o \in Calls \ {c} : writes'[o] = writes[o]
      /\ \A m \in Marks : writes'[c][m] = NoRow
  BY DEF Commit, RowsOK, Nothing
<1>5. WritesOK'
  <2> SUFFICES ASSUME NEW o \in Calls, NEW m \in Marks, writes'[o][m] # NoRow
               PROVE  /\ phase'[o] = "commit"
                      /\ writes'[o][m].user = user[o]
                      /\ Adds(o, m)' => \A n \in Marks : n # m => writes'[o][n] = NoRow
    BY <1>1 DEF WritesOK
  <2>1. o # c
    BY <1>4
  <2> QED BY <1>2, <1>4, <2>1 DEF WritesOK, Adds
\* The new likes are active before, or the one that c inserted.
<1>6. ASSUME NEW u \in Users, NEW m \in ApiLikes(u)'
      PROVE  m \in ApiLikes(u) \/ (Adds(c, m) /\ user[c] = u)
  <2>1. m \in Marks /\ rows'[m] # NoRow /\ rows'[m].active /\ rows'[m].user = u /\ rows'[m].by = "api"
    BY <1>6 DEF ApiLikes, Likes, ExistsActive
  <2>2. CASE writes[c][m] # NoRow
    BY <1>3, <2>1, <2>2 DEF WritesOK, Adds
  <2>3. CASE writes[c][m] = NoRow
    BY <1>3, <2>1, <2>3 DEF ApiLikes, Likes, ExistsActive
  <2> QED BY <2>2, <2>3
<1>7. InsertsOK'
  <2> SUFFICES ASSUME NEW o \in Calls, phase'[o] = "insert" \/ \E m \in Marks : Adds(o, m)',
                      NEW u \in Users, u = user[o]
               PROVE  ApiLikes(u)' = {}
    BY <1>1 DEF InsertsOK, ApiLikes, Likes, WorldOK
  <2>1. o # c
    BY <1>2, <1>4 DEF Adds
  <2>2. (phase[o] = "insert" \/ \E m \in Marks : Adds(o, m)) /\ phase[o] \in Holding
    BY <1>2, <1>4, <2>1 DEF Adds, WritesOK, Holding
  <2>3. ApiLikes(u) = {}
    BY <2>2 DEF InsertsOK
  <2>4. u # user[c]
    BY <1>1, <2>1, <2>2, HoldersDiffer DEF Holding
  <2> QED BY <1>6, <2>3, <2>4
<1>8. OneActiveLike'
  <2> SUFFICES ASSUME NEW m \in Marks, NEW n \in Marks, m # n, ExistsActive(m)', ExistsActive(n)',
                      rows'[m].user = rows'[n].user, rows'[m].by # "device", rows'[n].by # "device"
               PROVE  FALSE
    BY DEF OneActiveLike, ExistsActive
  <2>1. rows'[m] \in Row /\ rows'[n] \in Row
    BY RowsStep DEF ExistsActive, RowsOK, Next, Handler
  <2>2. PICK u \in Users : u = rows'[m].user
    BY <2>1 DEF Row
  <2>3. m \in ApiLikes(u)' /\ n \in ApiLikes(u)'
    BY <2>1, <2>2 DEF ApiLikes, Likes, Row
  <2>4. (m \in ApiLikes(u) \/ (Adds(c, m) /\ user[c] = u))
        /\ (n \in ApiLikes(u) \/ (Adds(c, n) /\ user[c] = u))
    BY <1>6, <2>3
  <2>5. ~(m \in ApiLikes(u) /\ n \in ApiLikes(u))
    BY DEF OneActiveLike, ApiLikes, Likes
  <2>6. ~(Adds(c, m) /\ Adds(c, n))
    BY DEF WritesOK, Adds
  <2>7. (Adds(c, m) \/ Adds(c, n)) => ApiLikes(user[c]) = {}
    BY DEF InsertsOK
  <2> QED BY <2>4, <2>5, <2>6, <2>7
<1> QED BY <1>2, <1>5, <1>7, <1>8

LEMMA FailStep ==
  ASSUME InvL, NEW c \in Calls, Fail(c)
  PROVE  LikesInv'
<1> USE TypeParts DEF InvL, LikesInv
<1>1. Goto(c, "error") /\ Unlock(c) /\ UNCHANGED <<rows, user>> /\ "error" \in Phases \ Holding
  BY DEF Fail, Phases, Holding, InTx, Over
<1>2. LocksOK' /\ phase'[c] = "error" /\ \A o \in Calls \ {c} : phase'[o] = phase[o]
  BY <1>1, UnlockStep
<1>3. /\ \A o \in Calls \ {c} : writes'[o] = writes[o]
      /\ \A m \in Marks : writes'[c][m] = NoRow
  BY DEF Fail, RowsOK, Nothing
<1>4. WritesOK'
  <2> SUFFICES ASSUME NEW o \in Calls, NEW m \in Marks, writes'[o][m] # NoRow
               PROVE  /\ phase'[o] = "commit"
                      /\ writes'[o][m].user = user[o]
                      /\ Adds(o, m)' => \A n \in Marks : n # m => writes'[o][n] = NoRow
    BY <1>1 DEF WritesOK
  <2>1. o # c
    BY <1>3
  <2> QED BY <1>2, <1>3, <2>1 DEF WritesOK, Adds
<1>5. InsertsOK'
  <2> SUFFICES ASSUME NEW o \in Calls, phase'[o] = "insert" \/ \E m \in Marks : Adds(o, m)'
               PROVE  ApiLikes(user[o]) = {}
    BY <1>1 DEF InsertsOK, ApiLikes, Likes, ExistsActive
  <2>1. o # c
    BY <1>2, <1>3 DEF Adds
  <2> QED BY <1>2, <1>3, <2>1 DEF InsertsOK, Adds
<1>6. OneActiveLike'
  BY <1>1 DEF OneActiveLike, ExistsActive
<1> QED BY <1>2, <1>4, <1>5, <1>6

\* A sync writes rows of devices only.
LEMMA SyncStep ==
  ASSUME InvL, NEW d \in Devices, Sync(d)
  PROVE  LikesInv'
<1> USE TypeParts DEF InvL, LikesInv
<1>1. UNCHANGED <<phase, lock, user, writes>>
  BY DEF Sync, txVars, callVars
<1>2. ASSUME NEW m \in Marks, rows'[m] # rows[m]
      PROVE  rows'[m].by = "device"
  BY <1>2 DEF Sync
<1>3. ASSUME NEW m \in Marks, ExistsActive(m)', rows'[m].by # "device"
      PROVE  ExistsActive(m) /\ rows'[m] = rows[m]
  BY <1>2, <1>3 DEF ExistsActive
<1>4. \A u \in Users : ApiLikes(u)' \subseteq ApiLikes(u)
  BY <1>3 DEF ApiLikes, Likes
<1>5. LocksOK'
  BY <1>1 DEF LocksOK
<1>6. WritesOK'
  BY <1>1 DEF WritesOK, Adds
<1>7. InsertsOK'
  <2> SUFFICES ASSUME NEW o \in Calls, phase'[o] = "insert" \/ \E m \in Marks : Adds(o, m)',
                      NEW u \in Users, u = user[o]
               PROVE  ApiLikes(u)' = {}
    BY <1>1 DEF InsertsOK, ApiLikes, Likes, WorldOK
  <2>1. ApiLikes(u) = {}
    BY <1>1 DEF InsertsOK, Adds
  <2> QED BY <1>4, <2>1
<1>8. OneActiveLike'
  BY <1>3 DEF OneActiveLike
<1> QED BY <1>5, <1>6, <1>7, <1>8

LEMMA InvStep == InvL /\ [Next]_vars => InvL'
<1> SUFFICES ASSUME InvL, [Next]_vars PROVE LikesInv'
  BY TypeStep DEF InvL
<1>1. ASSUME NEW c \in Calls, Call(c) \/ FeedItemPublished(c) \/ Begin(c) \/ Count(c)
      PROVE  LikesInv'
  <2>1. PICK p \in {"check", "begin", "notfound", "lock", "done"} : Goto(c, p)
    BY <1>1 DEF Call, FeedItemPublished, Begin, Count
  <2>2. phase[c] \notin Holding /\ UNCHANGED <<rows, lock, user, writes>>
    BY <1>1 DEF Call, FeedItemPublished, Begin, Count, txVars, Holding
  <2>3. p \in Phases \ Holding
    BY DEF Phases, Holding, InTx, Over
  <2> QED BY <2>1, <2>2, <2>3, PlainMove
<1>2. CASE UNCHANGED <<rows, lock, phase, user, writes>>
  BY <1>2
  DEF InvL, LikesInv, LocksOK, WritesOK, InsertsOK, OneActiveLike, Adds, ApiLikes, Likes, ExistsActive
<1>3. CASE Tick \/ Publish \/ \E d \in Devices, m \in Marks : Edit(d, m)
  BY <1>2, <1>3 DEF Tick, Publish, Edit, txVars, callVars
<1>4. CASE UNCHANGED vars
  BY <1>2, <1>4 DEF vars
<1> QED
  BY <1>1, <1>3, <1>4, LockStep, DecideStep, DeleteStep, InsertStep, CommitStep, FailStep, SyncStep
  DEF Next, Handler

\* The variables keep their types.
THEOREM LikesTypeCorrect == Spec => []TypeOK
<1>1. InvL => TypeOK
  BY DEF InvL
<1> QED BY <1>1, InitInv, InvStep, PTL DEF Spec

\* However many likes, unlikes and syncs of a user overlap and fail, the API
\* never leaves the user two active likes of its own: the advisory lock holds
\* from the test for an active like to the commit of the new one.
THEOREM OneLikePerUser == Spec => []OneActiveLike
<1>1. InvL => OneActiveLike
  BY DEF InvL, LikesInv
<1> QED BY <1>1, InitInv, InvStep, PTL DEF Spec

\* A call that decides or writes holds its user's advisory lock, and what it saw
\* under it is still so at its commit: no other call has liked meanwhile.
THEOREM LikesInvariant == Spec => []LikesInv
<1>1. InvL => LikesInv
  BY DEF InvL
<1> QED BY <1>1, InitInv, InvStep, PTL DEF Spec

-----------------------------------------------------------------------------
(* What a call leaves and answers. *)

\* A row that is being written keeps its owner, and is written by one call.
OwnersOK ==
  \A c \in Calls, m \in Marks : writes[c][m] # NoRow =>
    /\ rows[m] = NoRow \/ rows[m].user = user[c]
    /\ \A o \in Calls \ {c} : writes[o][m] = NoRow

\* A call deletes or inserts, as it was asked to.
AskedOK ==
  \A c \in Calls :
    /\ phase[c] = "insert" => like[c]
    /\ \A m \in Marks : writes[c][m] # NoRow => (writes[c][m].active <=> like[c])

\* No other write of its user committed since c began, or devices never wrote.
Undisturbed(c) == c \in quiet \/ edits = 0

\* With its commit the like will be as c was asked for; with it done, it is.
ToCommit(c) ==
  IF like[c] THEN HasActiveLike(user[c]) \/ \E m \in Marks : Adds(c, m)
             ELSE \A m \in Likes(user[c]) : writes[c][m] # NoRow
Committed(c) == HasActiveLike(user[c]) <=> like[c]
EffectOf(c) ==
  /\ phase[c] = "commit" /\ Undisturbed(c) => ToCommit(c)
  /\ phase[c] = "count" /\ c \in quiet => Committed(c)
  /\ phase[c] = "done" /\ c \in quiet => (user[c] \in counted[c] <=> like[c])
EffectOK == \A c \in Calls : EffectOf(c)

BeforeOK ==
  /\ \A c \in Calls : before[c] \subseteq {o \in Calls : phase[o] \in Over}
  /\ \A c \in applied : phase[c] = "count" \/ phase[c] \in Over

\* c is the last of u's calls to have committed.
LastOf(u, c) ==
  /\ c \in applied /\ user[c] = u
  /\ HasActiveLike(u) <=> like[c]
  /\ \A o \in applied : user[o] = u => c \notin before[o]
OrderOK ==
  edits = 0 => \A u \in Users : (\E c \in applied : user[c] = u) => \E c \in applied : LastOf(u, c)

NothingToPush ==
  edits = 0 => \A d \in Devices, m \in Marks : local[d][m] # NoRow => ~local[d][m].dirty

Owners == {rows[m].user : m \in {n \in Marks : Exists(n)}}
CountedOK == \A c \in Calls : counted[c] \subseteq Owners

InvT == InvL /\ OwnersOK /\ AskedOK /\ EffectOK /\ BeforeOK /\ NothingToPush
        /\ OrderOK /\ CountedOK

LEMMA TruthInit == Init => InvT
<1> SUFFICES ASSUME Init PROVE InvT
  OBVIOUS
<1>1. InvL
  BY InitInv
<1>2. \A c \in Calls, m \in Marks : writes[c][m] = NoRow
  BY DEF Init, Nothing
<1>3. OwnersOK /\ AskedOK
  BY <1>2 DEF OwnersOK, AskedOK, Init
<1>4. EffectOK /\ BeforeOK
  BY DEF Init, EffectOK, EffectOf, BeforeOK
<1>5. NothingToPush /\ OrderOK /\ CountedOK
  BY DEF Init, NothingToPush, OrderOK, CountedOK, Nothing
<1> QED BY <1>1, <1>3, <1>4, <1>5 DEF InvT

LEMMA OwnersStep ==
  ASSUME InvT, [Next]_vars
  PROVE  OwnersOK'
<1> USE TypeParts DEF InvT, InvL, LikesInv
<1>1. CASE UNCHANGED <<rows, writes, user>>
  BY <1>1 DEF OwnersOK
<1>2. ASSUME NEW c \in Calls, DeleteLikes(c) PROVE OwnersOK'
  <2>1. /\ \A o \in Calls \ {c} : writes'[o] = writes[o]
        /\ \A m \in Marks : writes'[c][m] # NoRow => m \in Likes(user[c])
        /\ UNCHANGED <<rows, user>> /\ phase[c] \in Holding
    BY <1>2 DEF DeleteLikes, RowsOK, Deleted, Holding
  <2>2. ASSUME NEW m \in Likes(user[c]), NEW o \in Calls \ {c} PROVE writes[o][m] = NoRow
    <3>1. m \in Marks /\ rows[m] # NoRow /\ rows[m].user = user[c]
      BY DEF Likes, ExistsActive
    <3> SUFFICES ASSUME writes[o][m] # NoRow PROVE FALSE
      OBVIOUS
    <3>2. user[o] = user[c] /\ phase[o] \in Holding
      BY <3>1 DEF OwnersOK, WritesOK, Holding
    <3> QED BY <2>1, <3>2, HoldersDiffer
  <2>3. \A m \in Likes(user[c]) : rows[m].user = user[c]
    BY DEF Likes
  <2> SUFFICES ASSUME NEW k \in Calls, NEW m \in Marks, writes'[k][m] # NoRow
               PROVE  /\ rows[m] = NoRow \/ rows[m].user = user[k]
                      /\ \A o \in Calls \ {k} : writes'[o][m] = NoRow
    BY <2>1 DEF OwnersOK
  <2>4. CASE k = c
    BY <2>1, <2>2, <2>3, <2>4
  <2>5. CASE k # c
    <3>1. writes[k][m] # NoRow
      BY <2>1, <2>5
    <3>2. writes'[c][m] = NoRow
      BY <2>1, <2>2, <2>5, <3>1
    <3> QED BY <2>1, <3>1, <3>2 DEF OwnersOK
  <2> QED BY <2>4, <2>5
<1>3. ASSUME NEW c \in Calls, InsertLike(c) PROVE OwnersOK'
  <2>1. PICK m \in Marks : Fresh(m) /\ writes' = [writes EXCEPT ![c][m] =
            [user |-> user[c], at |-> start[c], active |-> TRUE, by |-> "api"]]
    BY <1>3 DEF InsertLike
  <2>2. /\ rows[m] = NoRow /\ \A o \in Calls : writes[o][m] = NoRow
        /\ UNCHANGED <<rows, user>>
    BY <1>3, <2>1 DEF Fresh, InsertLike
  <2>3. \A o \in Calls, n \in Marks : (o # c \/ n # m) => writes'[o][n] = writes[o][n]
    BY <2>1 DEF RowsOK
  <2> QED BY <2>2, <2>3 DEF OwnersOK
<1>4. ASSUME NEW c \in Calls, Commit(c) \/ Fail(c) PROVE OwnersOK'
  <2>1. /\ \A o \in Calls \ {c} : writes'[o] = writes[o]
        /\ \A m \in Marks : writes'[c][m] = NoRow
        /\ \A m \in Marks : writes[c][m] = NoRow => rows'[m] = rows[m]
        /\ user' = user
    BY <1>4 DEF Commit, Fail, RowsOK, Nothing
  <2>2. ASSUME NEW o \in Calls, NEW m \in Marks, writes'[o][m] # NoRow
        PROVE  o # c /\ writes[o][m] # NoRow /\ rows'[m] = rows[m]
    <3>1. o # c /\ writes[o][m] # NoRow
      BY <2>1, <2>2
    <3> QED BY <2>1, <3>1 DEF OwnersOK
  <2> QED BY <2>1, <2>2 DEF OwnersOK
<1>5. ASSUME NEW d \in Devices, Sync(d) PROVE OwnersOK'
  <2>1. UNCHANGED <<writes, user>>
    BY <1>5 DEF Sync, txVars, callVars
  <2>2. ASSUME NEW c \in Calls, NEW m \in Marks, writes[c][m] # NoRow PROVE rows'[m] = rows[m]
    BY <1>5, <2>2 DEF Sync
  <2> QED BY <2>1, <2>2 DEF OwnersOK
<1> QED
  BY <1>1, <1>2, <1>3, <1>4, <1>5
  DEF Next, Handler, Call, FeedItemPublished, Begin, AdvisoryLock, Decide, Count, Tick, Publish,
      Edit, vars, txVars, callVars

LEMMA AskedStep ==
  ASSUME InvT, [Next]_vars
  PROVE  AskedOK'
<1> USE TypeParts DEF InvT, InvL, LikesInv
<1>1. like' = like
  BY DEF Next, Handler, Call, FeedItemPublished, Begin, AdvisoryLock, DeleteLikes, Decide, InsertLike,
         Commit, Count, Fail, Tick, Publish, Edit, Sync, vars, callVars
<1>2. CASE UNCHANGED <<phase, writes>>
  BY <1>1, <1>2 DEF AskedOK
<1>3. ASSUME NEW c \in Calls, Call(c) \/ FeedItemPublished(c) \/ Begin(c) \/ AdvisoryLock(c) \/ Decide(c)
                              \/ Count(c)
      PROVE  AskedOK'
  <2>1. writes' = writes /\ \A o \in Calls \ {c} : phase'[o] = phase[o]
    BY <1>3 DEF Call, FeedItemPublished, Begin, AdvisoryLock, Decide, Count, txVars, Goto, CallsOK
  <2>2. phase'[c] = "insert" => like[c]
    BY <1>3 DEF Call, FeedItemPublished, Begin, AdvisoryLock, Decide, Count, Goto, CallsOK
  <2> QED BY <1>1, <2>1, <2>2 DEF AskedOK
<1>4. ASSUME NEW c \in Calls, DeleteLikes(c) PROVE AskedOK'
  <2>1. /\ ~like[c] /\ phase'[c] = "commit"
        /\ \A o \in Calls \ {c} : writes'[o] = writes[o] /\ phase'[o] = phase[o]
    BY <1>4 DEF DeleteLikes, Goto, CallsOK, RowsOK
  <2>2. ASSUME NEW m \in Marks, writes'[c][m] # NoRow PROVE writes'[c][m].active = FALSE
    <3>1. m \in Deleted(c)
          /\ writes'[c][m] = [rows[m] EXCEPT !.active = FALSE, !.at = start[c], !.by = "api"]
      BY <1>4, <2>2 DEF DeleteLikes, RowsOK
    <3>2. rows[m] \in Row
      BY <3>1 DEF Deleted, Likes, ExistsActive, RowsOK
    <3> QED BY <3>1, <3>2 DEF Row
  <2> QED BY <1>1, <2>1, <2>2 DEF AskedOK
<1>5. ASSUME NEW c \in Calls, InsertLike(c) PROVE AskedOK'
  <2>1. PICK m \in Marks : writes' = [writes EXCEPT ![c][m] =
            [user |-> user[c], at |-> start[c], active |-> TRUE, by |-> "api"]]
    BY <1>5 DEF InsertLike
  <2>2. /\ phase[c] = "insert" /\ phase'[c] = "commit"
        /\ \A o \in Calls \ {c} : phase'[o] = phase[o]
    BY <1>5 DEF InsertLike, Goto, CallsOK
  <2>3. /\ \A o \in Calls, n \in Marks : (o # c \/ n # m) => writes'[o][n] = writes[o][n]
        /\ writes'[c][m].active = TRUE
    BY <2>1 DEF RowsOK
  <2>4. like[c]
    BY <2>2 DEF AskedOK
  <2> QED BY <1>1, <2>2, <2>3, <2>4 DEF AskedOK
<1>6. ASSUME NEW c \in Calls, Commit(c) \/ Fail(c) PROVE AskedOK'
  <2>1. /\ \A o \in Calls \ {c} : writes'[o] = writes[o] /\ phase'[o] = phase[o]
        /\ \A m \in Marks : writes'[c][m] = NoRow
        /\ phase'[c] # "insert"
    BY <1>6 DEF Commit, Fail, RowsOK, Nothing, Goto, CallsOK
  <2> QED BY <1>1, <2>1 DEF AskedOK
<1> QED
  BY <1>2, <1>3, <1>4, <1>5, <1>6
  DEF Next, Handler, Tick, Publish, Edit, Sync, vars, txVars, callVars

\* The step of another call, or of a device, that leaves o's likes alone.
LEMMA EffectKept ==
  ASSUME InvT, NEW o \in Calls, UNCHANGED <<user, like>>,
         phase'[o] = phase[o], writes'[o] = writes[o], counted'[o] = counted[o],
         Likes(user[o])' = Likes(user[o]),
         o \in quiet' => o \in quiet, Undisturbed(o)' => Undisturbed(o)
  PROVE  EffectOf(o)'
<1>1. EffectOf(o)
  BY DEF InvT, EffectOK
<1>2. ToCommit(o)' <=> ToCommit(o)
  BY DEF ToCommit, HasActiveLike, Adds
<1>3. Committed(o)' <=> Committed(o)
  BY DEF Committed, HasActiveLike
<1> QED BY <1>1, <1>2, <1>3 DEF EffectOf

\* A commit writes no row of another user, and what c was to do is done.
LEMMA CommitEffect ==
  ASSUME InvT, NEW c \in Calls, Commit(c)
  PROVE  /\ \A u \in Users : u # user[c] => Likes(u)' = Likes(u)
         /\ ToCommit(c) => Committed(c)'
<1> USE TypeParts DEF InvT, InvL, LikesInv
<1>1. /\ \A m \in Marks : rows'[m] = IF writes[c][m] # NoRow THEN writes[c][m] ELSE rows[m]
      /\ phase[c] = "commit" /\ UNCHANGED <<user, like>>
  BY DEF Commit
<1>2. ASSUME NEW m \in Marks, writes[c][m] # NoRow
      PROVE  /\ rows'[m].user = user[c] /\ rows'[m] # NoRow
             /\ rows[m] = NoRow \/ rows[m].user = user[c]
  BY <1>1, <1>2 DEF WritesOK, OwnersOK
<1>3. ASSUME NEW u \in Users, u # user[c] PROVE Likes(u)' = Likes(u)
  <2>1. ASSUME NEW m \in Marks PROVE m \in Likes(u)' <=> m \in Likes(u)
    <3>1. CASE writes[c][m] # NoRow
      BY <1>2, <1>3, <3>1 DEF Likes, ExistsActive
    <3>2. CASE writes[c][m] = NoRow
      BY <1>1, <3>2 DEF Likes, ExistsActive
    <3> QED BY <3>1, <3>2
  <2> QED BY <2>1 DEF Likes
<1>4. ASSUME ToCommit(c), like[c] PROVE HasActiveLike(user[c])'
  <2>1. CASE \E m \in Marks : Adds(c, m)
    <3>1. PICK m \in Marks : Adds(c, m)
      BY <2>1
    <3>2. m \in Likes(user[c])'
      BY <1>1, <1>2, <3>1 DEF Adds, Likes, ExistsActive
    <3> QED BY <1>1, <3>2 DEF HasActiveLike
  <2>2. CASE HasActiveLike(user[c])
    <3>1. PICK m \in Marks : m \in Likes(user[c])
      BY <2>2 DEF HasActiveLike, Likes
    <3>2. writes[c][m] # NoRow => writes[c][m].active
      BY <1>4 DEF AskedOK
    <3>3. m \in Likes(user[c])'
      BY <1>1, <1>2, <3>1, <3>2 DEF Likes, ExistsActive
    <3> QED BY <1>1, <3>3 DEF HasActiveLike
  <2> QED BY <1>4, <2>1, <2>2 DEF ToCommit
<1>5. ASSUME ToCommit(c), ~like[c] PROVE ~HasActiveLike(user[c])'
  <2> SUFFICES ASSUME NEW m \in Likes(user[c])' PROVE FALSE
    BY <1>1 DEF HasActiveLike
  <2>1. m \in Marks /\ rows'[m] # NoRow /\ rows'[m].active /\ rows'[m].user = user[c]
    BY <1>1 DEF Likes, ExistsActive
  <2>2. CASE writes[c][m] # NoRow
    <3>1. writes[c][m].active <=> like[c]
      BY <2>1, <2>2 DEF AskedOK
    <3> QED BY <1>1, <1>5, <2>1, <2>2, <3>1
  <2>3. CASE writes[c][m] = NoRow
    <3>1. m \in Likes(user[c])
      BY <1>1, <2>1, <2>3 DEF Likes, ExistsActive
    <3> QED BY <1>5, <2>3, <3>1 DEF ToCommit
  <2> QED BY <2>2, <2>3
<1>6. ToCommit(c) => Committed(c)'
  BY <1>1, <1>4, <1>5 DEF Committed
<1> QED BY <1>3, <1>6

LEMMA EffectStep ==
  ASSUME InvT, [Next]_vars
  PROVE  EffectOK'
<1> USE TypeParts DEF InvT, InvL, LikesInv
<1>1. CASE UNCHANGED <<rows, writes, phase, user, like, counted, quiet, edits>>
  <2>1. \A o \in Calls : Likes(user[o])' = Likes(user[o])
    BY <1>1 DEF Likes, ExistsActive
  <2>2. \A o \in Calls : Undisturbed(o)' => Undisturbed(o)
    BY <1>1 DEF Undisturbed
  <2> QED BY <1>1, <2>1, <2>2, EffectKept DEF EffectOK
\* The step of a call that commits nothing touches no other.
<1>2. ASSUME NEW c \in Calls, UNCHANGED <<rows, user, like, edits>>,
             quiet' \subseteq quiet \cup {c},
             \A o \in Calls \ {c} : /\ phase'[o] = phase[o] /\ writes'[o] = writes[o]
                                    /\ counted'[o] = counted[o],
             EffectOf(c)'
      PROVE  EffectOK'
  <2> SUFFICES ASSUME NEW o \in Calls, o # c PROVE EffectOf(o)'
    BY <1>2 DEF EffectOK
  <2>1. Likes(user[o])' = Likes(user[o])
    BY <1>2 DEF Likes, ExistsActive
  <2>2. /\ o \in quiet' => o \in quiet
        /\ Undisturbed(o)' => Undisturbed(o)
    BY <1>2 DEF Undisturbed
  <2> QED BY <1>2, <2>1, <2>2, EffectKept
<1>3. ASSUME NEW c \in Calls, Call(c) \/ FeedItemPublished(c) \/ Begin(c) \/ AdvisoryLock(c) \/ Fail(c)
      PROVE  EffectOK'
  <2>1. phase'[c] \notin {"commit", "count", "done"}
    BY <1>3 DEF Call, FeedItemPublished, Begin, AdvisoryLock, Fail, Goto, CallsOK
  <2>2. EffectOf(c)'
    BY <2>1 DEF EffectOf
  <2>3. /\ UNCHANGED <<rows, user, like, edits>> /\ quiet' \subseteq quiet \cup {c}
        /\ \A o \in Calls \ {c} : /\ phase'[o] = phase[o] /\ writes'[o] = writes[o]
                                  /\ counted'[o] = counted[o]
    BY <1>3 DEF Call, FeedItemPublished, Begin, AdvisoryLock, Fail, Goto, CallsOK, RowsOK, txVars,
                deviceVars, ghostVars
  <2> QED BY <1>2, <2>2, <2>3
<1>4. ASSUME NEW c \in Calls, Decide(c) PROVE EffectOK'
  <2>1. /\ UNCHANGED <<rows, user, like, edits, quiet, writes, counted>> /\ like[c]
        /\ phase' = [phase EXCEPT ![c] = IF HasActiveLike(user[c]) THEN "commit" ELSE "insert"]
    BY <1>4 DEF Decide, Goto, txVars, deviceVars, ghostVars
  <2>2. \A o \in Calls \ {c} : phase'[o] = phase[o]
    BY <2>1 DEF CallsOK
  <2>3. phase'[c] = "insert" \/ (phase'[c] = "commit" /\ HasActiveLike(user[c]))
    BY <2>1 DEF CallsOK
  <2>4. HasActiveLike(user[c])' <=> HasActiveLike(user[c])
    BY <2>1 DEF HasActiveLike, Likes, ExistsActive
  <2>5. EffectOf(c)'
    BY <2>1, <2>3, <2>4 DEF EffectOf, ToCommit
  <2> QED BY <1>2, <2>1, <2>2, <2>5
<1>5. ASSUME NEW c \in Calls, DeleteLikes(c) PROVE EffectOK'
  <2>1. /\ UNCHANGED <<rows, user, like, edits, quiet, counted>> /\ ~like[c]
        /\ phase'[c] = "commit"
        /\ \A o \in Calls \ {c} : phase'[o] = phase[o] /\ writes'[o] = writes[o]
    BY <1>5 DEF DeleteLikes, Goto, deviceVars, ghostVars, CallsOK, RowsOK
  <2>2. ASSUME NEW m \in Likes(user[c])' PROVE writes'[c][m] # NoRow
    <3>1. m \in Likes(user[c]) /\ m \in Marks
      BY <2>1 DEF Likes, ExistsActive
    <3>2. writes'[c][m] = [rows[m] EXCEPT !.active = FALSE, !.at = start[c], !.by = "api"]
      BY <1>5, <3>1 DEF DeleteLikes, RowsOK, Deleted
    <3>3. rows[m] \in Row /\ start[c] \in Nat
      BY <3>1 DEF Likes, ExistsActive, RowsOK, CallsOK
    <3>4. [rows[m] EXCEPT !.active = FALSE, !.at = start[c], !.by = "api"] \in Row
      BY <3>3 DEF Row
    <3> QED BY <3>2, <3>4, LikesAssumption
  <2>3. EffectOf(c)'
    BY <2>1, <2>2 DEF EffectOf, ToCommit
  <2> QED BY <1>2, <2>1, <2>3
<1>6. ASSUME NEW c \in Calls, InsertLike(c) PROVE EffectOK'
  <2>1. /\ UNCHANGED <<rows, user, like, edits, quiet, counted>>
        /\ phase[c] = "insert" /\ phase'[c] = "commit"
        /\ \A o \in Calls \ {c} : phase'[o] = phase[o] /\ writes'[o] = writes[o]
    BY <1>6 DEF InsertLike, Goto, deviceVars, ghostVars, CallsOK, RowsOK
  <2>2. PICK m \in Marks : writes' = [writes EXCEPT ![c][m] =
            [user |-> user[c], at |-> start[c], active |-> TRUE, by |-> "api"]]
    BY <1>6 DEF InsertLike
  <2>3. writes'[c][m] = [user |-> user[c], at |-> start[c], active |-> TRUE, by |-> "api"]
    BY <2>2 DEF RowsOK
  <2>4. writes'[c][m] \in Row
    BY <2>3 DEF CallsOK, WorldOK, Row
  <2>5. writes'[c][m] # NoRow
    BY <2>4, LikesAssumption
  <2>6. writes'[c][m].active = TRUE
    BY <2>3
  <2>7. Adds(c, m)' /\ like[c]
    BY <2>1, <2>5, <2>6 DEF Adds, AskedOK
  <2>8. EffectOf(c)'
    BY <2>1, <2>7 DEF EffectOf, ToCommit
  <2> QED BY <1>2, <2>1, <2>8
<1>7. ASSUME NEW c \in Calls, Count(c) PROVE EffectOK'
  <2>1. /\ UNCHANGED <<rows, user, like, edits, quiet, writes>>
        /\ phase[c] = "count" /\ phase'[c] = "done" /\ counted'[c] = CountLikes
        /\ \A o \in Calls \ {c} : phase'[o] = phase[o] /\ counted'[o] = counted[o]
    BY <1>7 DEF Count, Goto, txVars, deviceVars, ghostVars, CallsOK
  <2>2. user[c] \in CountLikes <=> HasActiveLike(user[c])
    BY DEF CountLikes, HasActiveLike, Likes
  <2>3. c \in quiet => Committed(c)
    BY <2>1 DEF EffectOK, EffectOf
  <2>4. EffectOf(c)'
    BY <2>1, <2>2, <2>3 DEF EffectOf, Committed
  <2> QED BY <1>2, <2>1, <2>4
<1>8. ASSUME NEW c \in Calls, Commit(c) PROVE EffectOK'
  <2>1. /\ UNCHANGED <<user, like, edits, counted>>
        /\ phase[c] = "commit" /\ phase'[c] = "count"
        /\ \A o \in Calls \ {c} : phase'[o] = phase[o] /\ writes'[o] = writes[o]
        /\ quiet' = {o \in quiet : o = c \/ user[o] # user[c]}
    BY <1>8 DEF Commit, Goto, CallsOK, RowsOK, Disturbed
  <2>2. EffectOf(c)'
    <3>1. c \in quiet => ToCommit(c)
      BY <2>1 DEF EffectOK, EffectOf, Undisturbed
    <3>2. c \in quiet => Committed(c)'
      BY <1>8, <3>1, CommitEffect
    <3> QED BY <2>1, <3>2 DEF EffectOf
  <2>3. ASSUME NEW o \in Calls, o # c PROVE EffectOf(o)'
    <3>1. CASE user[o] = user[c]
      <4>1. o \notin quiet'
        BY <2>1, <2>3, <3>1
      <4>2. phase[o] # "commit"
        BY <2>1, <2>3, <3>1, HoldersDiffer DEF Holding
      <4> QED BY <2>1, <2>3, <4>1, <4>2 DEF EffectOf
    <3>2. CASE user[o] # user[c]
      <4>1. PICK u \in Users : u = user[o]
        BY DEF WorldOK
      <4>2. Likes(u)' = Likes(u)
        BY <1>8, <3>2, <4>1, CommitEffect
      <4>3. Likes(user[o])' = Likes(user[o])
        BY <2>1, <4>1, <4>2 DEF Likes
      <4>4. /\ o \in quiet' => o \in quiet
            /\ Undisturbed(o)' => Undisturbed(o)
        BY <2>1 DEF Undisturbed
      <4> QED BY <2>1, <2>3, <4>3, <4>4, EffectKept
    <3> QED BY <3>1, <3>2
  <2> QED BY <2>2, <2>3 DEF EffectOK
<1>9. ASSUME NEW d \in Devices, Sync(d) PROVE EffectOK'
  <2>1. UNCHANGED <<user, like, edits, counted, phase, writes>>
    BY <1>9 DEF Sync, txVars, callVars
  <2>2. \A m \in Marks : rows'[m] = IF m \in Pushes(d)
          THEN [user |-> UserOf[d], at |-> local[d][m].at, active |-> local[d][m].active, by |-> "device"]
          ELSE rows[m]
    BY <1>9 DEF Sync
  <2>3. ASSUME NEW o \in Calls PROVE EffectOf(o)'
    <3>1. CASE Pushes(d) # {} /\ user[o] = UserOf[d]
      <4>1. PICK m \in Marks : m \in Pushes(d)
        BY <3>1 DEF Pushes
      <4>2. local[d][m] # NoRow /\ local[d][m].dirty
        BY <4>1 DEF Pushes
      <4>3. edits # 0
        BY <4>2 DEF NothingToPush
      <4>4. quiet' = {k \in quiet : k = NoCall \/ user[k] # UserOf[d]}
        BY <1>9, <3>1 DEF Sync, Disturbed
      <4>5. o \notin quiet'
        BY <3>1, <4>4, LikesAssumption
      <4>6. ~Undisturbed(o)'
        BY <2>1, <4>3, <4>5 DEF Undisturbed
      <4> QED BY <4>5, <4>6 DEF EffectOf
    <3>2. CASE Pushes(d) = {} \/ user[o] # UserOf[d]
      <4>1. quiet' \subseteq quiet
        BY <1>9 DEF Sync, Disturbed
      <4>2. ASSUME NEW m \in Marks PROVE m \in Likes(user[o])' <=> m \in Likes(user[o])
        <5>1. CASE m \in Pushes(d)
          <6>1. user[o] # UserOf[d] /\ (rows[m] = NoRow \/ rows[m].user = UserOf[d])
            BY <3>2, <5>1 DEF Pushes, Mine
          <6>2. rows'[m] = [user |-> UserOf[d], at |-> local[d][m].at, active |-> local[d][m].active,
                            by |-> "device"]
            BY <2>2, <5>1
          <6>3. rows'[m].user = UserOf[d]
            BY <6>2
          <6> QED BY <2>1, <6>1, <6>3 DEF Likes, ExistsActive
        <5>2. CASE m \notin Pushes(d)
          BY <2>1, <2>2, <5>2 DEF Likes, ExistsActive
        <5> QED BY <5>1, <5>2
      <4>3. Likes(user[o])' = Likes(user[o])
        BY <4>2 DEF Likes
      <4>4. Undisturbed(o)' => Undisturbed(o)
        BY <2>1, <4>1 DEF Undisturbed
      <4> QED BY <2>1, <4>1, <4>3, <4>4, EffectKept
    <3> QED BY <3>1, <3>2
  <2> QED BY <2>3 DEF EffectOK
<1>10. ASSUME NEW d \in Devices, NEW m \in Marks, Edit(d, m) PROVE EffectOK'
  <2>1. UNCHANGED <<rows, writes, phase, user, like, counted, quiet>> /\ edits' # 0
    BY <1>10 DEF Edit, txVars, callVars, ghostVars, DevicesOK
  <2>2. \A o \in Calls : Likes(user[o])' = Likes(user[o])
    BY <2>1 DEF Likes, ExistsActive
  <2>3. \A o \in Calls : Undisturbed(o)' => Undisturbed(o)
    BY <2>1 DEF Undisturbed
  <2> QED BY <2>1, <2>2, <2>3, EffectKept DEF EffectOK
<1>11. CASE Tick \/ Publish \/ UNCHANGED vars
  BY <1>1, <1>11 DEF Tick, Publish, vars, txVars, callVars, deviceVars, ghostVars
<1> QED
  BY <1>3, <1>4, <1>5, <1>6, <1>7, <1>8, <1>9, <1>10, <1>11 DEF Next, Handler

\* A call that was over before another began is over; the devices' edits are
\* what they have to push.
LEMMA BeforeStep ==
  ASSUME InvT, [Next]_vars
  PROVE  BeforeOK'
<1> USE TypeParts DEF InvT, InvL
<1>1. \A o \in Calls : phase[o] \in Over => phase'[o] \in Over
  <2>1. ASSUME NEW c \in Calls, Call(c) \/ Handler(c) \/ Fail(c)
        PROVE  phase[c] \notin Over /\ \A o \in Calls \ {c} : phase'[o] = phase[o]
    BY <2>1 DEF Handler, Call, FeedItemPublished, Begin, AdvisoryLock, DeleteLikes, Decide, InsertLike,
         Commit, Count, Fail, Goto, CallsOK, Over, InTx
  <2>2. CASE phase' = phase
    BY <2>2
  <2> QED
    BY <2>1, <2>2 DEF Next, Tick, Publish, Edit, Sync, vars, callVars
<1>2. \A o \in applied' : phase'[o] = "count" \/ phase'[o] \in Over
  <2>1. ASSUME NEW c \in Calls, Commit(c) PROVE applied' = applied \cup {c} /\ phase'[c] = "count"
                                             /\ \A o \in Calls \ {c} : phase'[o] = phase[o]
    BY <2>1 DEF Commit, Goto, CallsOK
  <2>2. ASSUME NEW c \in Calls, Count(c) \/ Fail(c)
        PROVE applied' = applied /\ phase'[c] \in Over /\ \A o \in Calls \ {c} : phase'[o] = phase[o]
    BY <2>2 DEF Count, Fail, Goto, CallsOK, Over, ghostVars
  <2>3. ASSUME NEW c \in Calls, Call(c) \/ FeedItemPublished(c) \/ Begin(c) \/ AdvisoryLock(c) \/ DeleteLikes(c)
                                \/ Decide(c) \/ InsertLike(c)
        PROVE  applied' = applied /\ phase[c] # "count" /\ phase[c] \notin Over
               /\ \A o \in Calls \ {c} : phase'[o] = phase[o]
    BY <2>3 DEF Call, FeedItemPublished, Begin, AdvisoryLock, DeleteLikes, Decide, InsertLike, Goto, CallsOK,
         Over, ghostVars
  <2>4. CASE UNCHANGED <<phase, applied>>
    BY <2>4 DEF BeforeOK
  <2> QED
    BY <2>1, <2>2, <2>3, <2>4 DEF BeforeOK, GhostsOK, Next, Handler, Tick, Publish, Edit, Sync, vars, callVars,
        ghostVars
<1>3. CASE before' = before
  BY <1>1, <1>2, <1>3 DEF BeforeOK
<1>4. ASSUME NEW c \in Calls, Call(c) PROVE BeforeOK'
  <2>1. before' = [before EXCEPT ![c] = {o \in Calls : phase[o] \in Over}]
    BY <1>4 DEF Call
  <2>2. \A k \in Calls : before'[k] \subseteq {o \in Calls : phase[o] \in Over}
    BY <2>1 DEF BeforeOK, GhostsOK
  <2> QED BY <1>1, <1>2, <2>2 DEF BeforeOK
<1> QED
  BY <1>3, <1>4
  DEF Next, Handler, FeedItemPublished, Begin, AdvisoryLock, DeleteLikes, Decide, InsertLike,
      Commit, Count, Fail, Tick, Publish, Edit, Sync, vars, ghostVars

LEMMA PushStep ==
  ASSUME InvT, [Next]_vars
  PROVE  NothingToPush'
<1> USE TypeParts DEF InvT, InvL
<1>1. CASE UNCHANGED <<local, edits>>
  BY <1>1 DEF NothingToPush
<1>2. ASSUME NEW d \in Devices, NEW m \in Marks, Edit(d, m) PROVE NothingToPush'
  <2>1. edits' # 0
    BY <1>2 DEF Edit, DevicesOK
  <2> QED BY <2>1 DEF NothingToPush
<1>3. ASSUME NEW d \in Devices, Sync(d) PROVE NothingToPush'
  <2>1. edits' = edits /\ \A e \in Devices \ {d} : local'[e] = local[e]
    BY <1>3 DEF Sync, DevicesOK
  <2>2. ASSUME NEW m \in Marks, NEW row, Merged(d, m, row) # NoRow
        PROVE  ~Merged(d, m, row).dirty
    <3>1. CASE row # NoRow /\ row.user = UserOf[d] /\ (local[d][m] = NoRow \/ local[d][m].at =< row.at)
      <4>1. Merged(d, m, row) = [at |-> row.at, active |-> row.active, dirty |-> FALSE]
        BY <3>1, Zenon DEF Merged
      <4> QED BY <4>1
    <3>2. CASE ~(row # NoRow /\ row.user = UserOf[d] /\ (local[d][m] = NoRow \/ local[d][m].at =< row.at))
      <4>1. Merged(d, m, row) = IF local[d][m] = NoRow THEN NoRow
                                ELSE [local[d][m] EXCEPT !.dirty = FALSE]
        BY <3>2, Zenon DEF Merged
      <4>2. local[d][m] # NoRow => local[d][m] \in Copy
        BY DEF DevicesOK
      <4> QED BY <2>2, <4>1, <4>2 DEF Copy
    <3> QED BY <3>1, <3>2
  <2>3. local' = [local EXCEPT ![d] = [m \in Marks |-> Merged(d, m, rows'[m])]]
    BY <1>3 DEF Sync
  <2>4. \A m \in Marks : local'[d][m] = Merged(d, m, rows'[m])
    BY <2>3 DEF DevicesOK
  <2> QED BY <2>1, <2>2, <2>4 DEF NothingToPush
<1> QED
  BY <1>1, <1>2, <1>3
  DEF Next, Handler, Call, FeedItemPublished, Begin, AdvisoryLock, DeleteLikes, Decide, InsertLike,
      Commit, Count, Fail, Tick, Publish, vars, deviceVars

\* The call that commits last is the one that the like is as it asked for.
LEMMA OrderStep ==
  ASSUME InvT, [Next]_vars
  PROVE  OrderOK'
<1> USE TypeParts DEF InvT, InvL, LikesInv
\* The last of u's calls stays it, unless u's rows change or another commits.
<1>1. ASSUME NEW u \in Users, NEW c \in applied, LastOf(u, c), UNCHANGED <<user, like>>, Likes(u)' = Likes(u),
             applied \subseteq applied', \A o \in applied' : user[o] = u => o \in applied /\ before'[o] = before[o]
      PROVE  LastOf(u, c)'
  BY <1>1 DEF LastOf, HasActiveLike
<1>2. ASSUME UNCHANGED <<user, like, rows, applied, edits>>, \A o \in applied : before'[o] = before[o]
      PROVE  OrderOK'
  <2>1. \A u \in Users : Likes(u)' = Likes(u)
    BY <1>2 DEF Likes, ExistsActive
  <2> QED BY <1>1, <1>2, <2>1 DEF OrderOK
<1>3. ASSUME NEW c \in Calls, Call(c) PROVE OrderOK'
  <2>1. /\ UNCHANGED <<user, like, rows, applied, edits>> /\ phase[c] = "idle"
        /\ \A o \in Calls \ {c} : before'[o] = before[o]
    BY <1>3 DEF Call, GhostsOK, deviceVars
  <2>2. c \notin applied
    BY <2>1 DEF BeforeOK, Over
  <2> QED BY <1>2, <2>1, <2>2 DEF GhostsOK
<1>4. ASSUME NEW c \in Calls, Commit(c) PROVE OrderOK'
  <2>1. /\ UNCHANGED <<user, like, before, edits>> /\ phase[c] = "commit"
        /\ applied' = applied \cup {c}
    BY <1>4 DEF Commit
  <2> SUFFICES ASSUME edits = 0, NEW u \in Users, \E o \in applied' : user[o] = u
               PROVE  \E o \in applied' : LastOf(u, o)'
    BY <2>1 DEF OrderOK
  <2>2. CASE user[c] = u
    <3>1. ToCommit(c)
      BY <2>1 DEF EffectOK, EffectOf, Undisturbed
    <3>2. HasActiveLike(u)' <=> like[c]
      BY <1>4, <2>1, <2>2, <3>1, CommitEffect DEF Committed, HasActiveLike, Likes
    <3>3. \A o \in Calls : c \notin before[o]
      BY <2>1 DEF BeforeOK, Over
    <3>4. LastOf(u, c)'
      BY <2>1, <2>2, <3>2, <3>3 DEF LastOf, GhostsOK
    <3> QED BY <2>1, <3>4
  <2>3. CASE user[c] # u
    <3>1. PICK o \in applied : LastOf(u, o)
      BY <2>1, <2>3 DEF OrderOK
    <3>2. Likes(u)' = Likes(u)
      BY <1>4, <2>3, CommitEffect
    <3>3. LastOf(u, o)'
      BY <1>1, <2>1, <2>3, <3>1, <3>2
    <3> QED BY <2>1, <3>1, <3>3
  <2> QED BY <2>2, <2>3
<1>5. ASSUME NEW d \in Devices, Sync(d) PROVE OrderOK'
  <2>1. /\ UNCHANGED <<user, like, before, applied, edits>>
        /\ rows' = [m \in Marks |-> IF m \in Pushes(d)
             THEN [user |-> UserOf[d], at |-> local[d][m].at, active |-> local[d][m].active, by |-> "device"]
             ELSE rows[m]]
    BY <1>5 DEF Sync, callVars
  <2>2. CASE edits = 0
    <3>1. Pushes(d) = {}
      BY <2>2 DEF NothingToPush, Pushes
    <3>2. rows' = rows
      BY <2>1, <3>1 DEF RowsOK
    <3> QED BY <1>2, <2>1, <3>2
  <2>3. CASE edits # 0
    BY <2>1, <2>3 DEF OrderOK
  <2> QED BY <2>2, <2>3
<1>6. ASSUME NEW d \in Devices, NEW m \in Marks, Edit(d, m) PROVE OrderOK'
  <2>1. edits' # 0
    BY <1>6 DEF Edit, DevicesOK
  <2> QED BY <2>1 DEF OrderOK
<1>7. CASE UNCHANGED <<user, like, rows, applied, edits, before>>
  BY <1>2, <1>7
<1> QED
  BY <1>3, <1>4, <1>5, <1>6, <1>7
  DEF Next, Handler, FeedItemPublished, Begin, AdvisoryLock, DeleteLikes, Decide, InsertLike,
      Count, Fail, Tick, Publish, vars, txVars, callVars, deviceVars, ghostVars

\* Who ever liked the item is known for ever by the rows.
LEMMA CountedStep ==
  ASSUME InvT, [Next]_vars
  PROVE  CountedOK'
<1> USE TypeParts DEF InvT, InvL, LikesInv
<1>1. ASSUME NEW m \in Marks, rows[m] # NoRow
      PROVE  rows'[m] # NoRow /\ rows'[m].user = rows[m].user
  <2>1. CASE rows' = rows
    BY <1>1, <2>1
  <2>2. ASSUME NEW c \in Calls, Commit(c) PROVE rows'[m] # NoRow /\ rows'[m].user = rows[m].user
    <3>1. rows'[m] = IF writes[c][m] # NoRow THEN writes[c][m] ELSE rows[m]
      BY <2>2 DEF Commit
    <3>2. writes[c][m] # NoRow => writes[c][m].user = user[c] /\ rows[m].user = user[c]
      BY <1>1 DEF WritesOK, OwnersOK
    <3> QED BY <1>1, <3>1, <3>2
  <2>3. ASSUME NEW d \in Devices, Sync(d) PROVE rows'[m] # NoRow /\ rows'[m].user = rows[m].user
    <3>1. rows'[m] = IF m \in Pushes(d)
            THEN [user |-> UserOf[d], at |-> local[d][m].at, active |-> local[d][m].active, by |-> "device"]
            ELSE rows[m]
      BY <2>3 DEF Sync
    <3>2. CASE m \notin Pushes(d)
      BY <1>1, <3>1, <3>2
    <3>3. CASE m \in Pushes(d)
      <4>1. rows[m].user = UserOf[d]
        BY <1>1, <3>3 DEF Pushes, Mine
      <4>2. rows'[m] = [user |-> UserOf[d], at |-> local[d][m].at, active |-> local[d][m].active, by |-> "device"]
        BY <3>1, <3>3
      <4>3. rows'[m].user = UserOf[d]
        BY <4>2
      <4>4. local[d][m] \in Copy
        BY <3>3 DEF Pushes, DevicesOK
      <4>5. rows'[m] \in Row
        BY <4>2, <4>4, LikesAssumption DEF Row, Copy
      <4> QED BY <4>1, <4>3, <4>5, LikesAssumption
    <3> QED BY <3>2, <3>3
  <2> QED
    BY <2>1, <2>2, <2>3
    DEF Next, Handler, Call, FeedItemPublished, Begin, AdvisoryLock, DeleteLikes, Decide, InsertLike,
        Count, Fail, Tick, Publish, Edit, vars
<1>2. Owners \subseteq Owners'
  BY <1>1 DEF Owners, Exists
<1>3. CountLikes \subseteq Owners
  BY DEF CountLikes, Owners, Exists, ExistsActive
<1>4. ASSUME NEW c \in Calls PROVE counted'[c] = counted[c] \/ counted'[c] = CountLikes
  <2>1. ASSUME NEW o \in Calls, Count(o) PROVE counted'[c] = counted[c] \/ counted'[c] = CountLikes
    BY <2>1 DEF Count, CallsOK
  <2>2. CASE counted' = counted
    BY <2>2
  <2> QED
    BY <2>1, <2>2
    DEF Next, Handler, Call, FeedItemPublished, Begin, AdvisoryLock, DeleteLikes, Decide, InsertLike,
        Commit, Fail, Tick, Publish, Edit, Sync, vars, callVars
<1> QED BY <1>2, <1>3, <1>4 DEF CountedOK

LEMMA TruthStep == InvT /\ [Next]_vars => InvT'
<1> SUFFICES ASSUME InvT, [Next]_vars PROVE InvT'
  OBVIOUS
<1>1. InvL'
  BY InvStep DEF InvT
<1> QED
  BY <1>1, OwnersStep, AskedStep, EffectStep, BeforeStep, PushStep, OrderStep, CountedStep DEF InvT

LEMMA TruthIsInvariant == Spec => []InvT
BY TruthInit, TruthStep, PTL DEF Spec

\* The answer to a call is true of its user, whatever it found: as long as no
\* other write of the user committed while it ran (user.go:57-74).
THEOREM AnswersAreTrue == Spec => []AnswerIsTrue
<1>1. InvT => AnswerIsTrue
  <2> SUFFICES ASSUME InvT, NEW c \in quiet, phase[c] = "done"
               PROVE  user[c] \in counted[c] <=> like[c]
    BY DEF AnswerIsTrue
  <2>1. c \in Calls
    BY TypeParts DEF InvT, InvL, GhostsOK
  <2> QED BY <2>1 DEF InvT, EffectOK, EffectOf
<1> QED BY <1>1, TruthIsInvariant, PTL

\* Without devices, calls of a user take effect one after the other, each
\* between its beginning and its end, errors after the commit included.
THEOREM CallsTakeEffectInOrder == Spec => []CallsInOrder
<1>1. InvT => CallsInOrder
  BY DEF InvT, OrderOK, LastOf, CallsInOrder, HasActiveLike
<1> QED BY <1>1, TruthIsInvariant, PTL

\* The count never exceeds the users who ever liked the item: it counts users
\* and not rows, and rows keep their owners (sync.sql:18).
THEOREM CountNotInflated == Spec => []NeverInflated
<1>1. InvT => NeverInflated
  <2> SUFFICES ASSUME InvT, NEW c \in Calls PROVE Cardinality(counted[c]) =< Cardinality(Owners)
    BY DEF NeverInflated, Owners
  <2>1. Owners \subseteq Users
    BY TypeParts DEF InvT, InvL, RowsOK, Owners, Exists, Row
  <2>2. IsFiniteSet(Owners)
    BY <2>1, LikesAssumption, FS_Subset DEF LikesAssumption
  <2>3. counted[c] \subseteq Owners
    BY DEF InvT, CountedOK
  <2> QED BY <2>2, <2>3, FS_Subset
<1> QED BY <1>1, TruthIsInvariant, PTL
=============================================================================
