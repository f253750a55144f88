----------------------------- MODULE SyncProofs -----------------------------
(***************************************************************************)
(* Proofs about Sync, for any users, devices, keys, batches and requests,  *)
(* and any values of the time constants.                                   *)
(***************************************************************************)
EXTENDS Sync, TLAPS

TypeInv == TypeOK /\ SentRequests

\* The next item of a request, its key and its row have their types.
LEMMA ItemTypes ==
  ASSUME TypeOK, NEW r \in Requests, req[r] \in Request,
         NEW i \in 1 .. Len(req[r].batch)
  PROVE  /\ User(r) \in Users
         /\ req[r].batch[i] \in Item
         /\ ItemKey(r, i) \in Keys
         /\ ItemAt(r, i) \in Nat
         /\ NewRow(r, i) \in Row
<1>1. User(r) \in Users
  BY SyncAssumption DEF User, Request
<1>2. req[r].batch[i] \in Item
  BY BatchAssumption DEF Request
<1>3. ItemKey(r, i) \in Keys
  BY <1>1, <1>2 DEF ItemKey, KeyOf, Keys, Item, Ids, Progress
<1>4. ItemAt(r, i) \in Nat
  BY <1>2 DEF ItemAt, Clamp, Item, TypeOK
<1>5. NewRow(r, i) \in Row
  BY <1>1, <1>4 DEF NewRow, Row, TypeOK
<1> QED BY <1>1, <1>2, <1>3, <1>4, <1>5

LEMMA SeenType ==
  ASSUME TypeOK, NEW r \in Requests, NEW k \in Keys
  PROVE  Seen(r, k) \in Row \cup {NoRow}
BY DEF TypeOK, Seen

LEMMA TypeInit == Init => TypeInv
BY SyncAssumption DEF Init, TypeInv, TypeOK, SentRequests, NoCursor, Phases, InTx, Committed

LEMMA TypeStep == TypeInv /\ [Next]_vars => TypeInv'
<1> SUFFICES ASSUME TypeInv, [Next]_vars PROVE TypeInv'
  OBVIOUS
<1> USE DEF TypeInv, TypeOK, SentRequests
<1>1. CASE Tick
  BY <1>1 DEF Tick, clientVars
<1>2. ASSUME NEW r \in Requests, NEW d \in Devices, NEW b \in Batches, Send(r, d, b)
      PROVE  TypeInv'
  BY <1>2 DEF Send, Goto, Request, Phases, clientVars
<1>3. ASSUME NEW r \in Requests, Lose(r) \/ Reject(r) PROVE TypeInv'
  BY <1>3 DEF Lose, Reject, Goto, Phases, Committed, clientVars
<1>4. ASSUME NEW r \in Requests, Deliver(r) PROVE TypeInv'
  <2> DEFINE d == req[r].dev
  <2>1. d \in Devices
    BY <1>4 DEF Deliver, Request
  <2>2. [k \in Keys |-> Newest(known[d][k], pulled[r][k])] \in [Keys -> Nat]
    BY <2>1 DEF Newest
  <2> QED BY <1>4, <2>1, <2>2 DEF Deliver, Goto, Phases, Committed, NextCursor
<1>5. ASSUME NEW r \in Requests, Begin(r) PROVE TypeInv'
  BY <1>5 DEF Begin, Goto, Phases, InTx, clientVars
<1>6. ASSUME NEW r \in Requests, Upsert(r) PROVE TypeInv'
  <2> DEFINE k == ItemKey(r, pos[r])
             new == NewRow(r, pos[r])
  <2>1. req[r] \in Request /\ pos[r] \in 1 .. Len(req[r].batch)
    BY <1>6, BatchAssumption DEF Upsert, Request
  <2>2. k \in Keys /\ new \in Row
    BY <2>1, ItemTypes
  <2>3. lock' \in [Keys -> Requests \cup {NoRequest}]
    BY <1>6, <2>2 DEF Upsert
  <2>4. writes' \in [Requests -> [Keys -> Row \cup {NoRow}]]
    BY <1>6, <2>2 DEF Upsert
  <2> QED BY <1>6, <2>3, <2>4 DEF Upsert, clientVars
<1>7. ASSUME NEW r \in Requests, NEW table \in SUBSET Keys, NEW next \in InTx, Read(r, table, next),
             phase[r] # "unsent"
      PROVE  TypeInv'
  <2>1. [k \in Keys |-> IF k \in table /\ Mine(r, Seen(r, k)) /\ Recent(r, Seen(r, k))
                        THEN Seen(r, k).at ELSE pulled[r][k]] \in [Keys -> Nat]
    BY SeenType DEF Mine, Row
  <2> QED BY <1>7, <2>1 DEF Read, Goto, Phases, clientVars
<1>8. ASSUME NEW r \in Requests, PullMarks(r) \/ PullAnswers(r) \/ PullProgress(r) PROVE TypeInv'
  BY <1>8, <1>7 DEF PullMarks, PullAnswers, PullProgress, Keys, InTx
<1>9. ASSUME NEW r \in Requests, Commit(r) PROVE TypeInv'
  BY <1>9, SeenType DEF Commit, Goto, Unlock, Phases, Committed, clientVars
<1>10. ASSUME NEW r \in Requests, Fail(r) PROVE TypeInv'
  BY <1>10 DEF Fail, Goto, Unlock, Phases, InTx, clientVars
<1>11. CASE UNCHANGED vars
  BY <1>11 DEF vars
<1> QED
  BY <1>1, <1>2, <1>3, <1>4, <1>5, <1>6, <1>8, <1>9, <1>10, <1>11
     DEF Next, Server, Network, AbortDeadlock

\* Every variable of Sync keeps its type: in particular no cursor, version or
\* server timestamp is ever negative, and every lock belongs to a request.
THEOREM TypeCorrect == Spec => []TypeOK
<1>1. Init => TypeInv
  BY TypeInit
<1>2. TypeInv /\ [Next]_vars => TypeInv'
  BY TypeStep
<1>3. TypeInv => TypeOK
  BY DEF TypeInv
<1> QED BY <1>1, <1>2, <1>3, PTL DEF Spec

-----------------------------------------------------------------------------
(* The inductive invariant, one lemma for each of its parts. *)

BaseInv == TypeInv /\ TimesOK /\ LocksOK

LEMMA TimesStep == BaseInv /\ [Next]_vars => TimesOK'
<1> SUFFICES ASSUME BaseInv, [Next]_vars PROVE TimesOK'
  OBVIOUS
<1> USE SyncAssumption DEF BaseInv, TypeInv, TypeOK, SentRequests, TimesOK, InTx
<1>1. CASE Tick
  BY <1>1 DEF Tick, clientVars, Request
<1>2. ASSUME NEW r \in Requests, NEW d \in Devices, NEW b \in Batches, Send(r, d, b)
      PROVE  TimesOK'
  BY <1>2 DEF Send, Goto, Request, clientVars
<1>3. ASSUME NEW r \in Requests, Lose(r) \/ Reject(r) \/ Fail(r) PROVE TimesOK'
  BY <1>3 DEF Lose, Reject, Fail, Goto, clientVars
<1>4. ASSUME NEW r \in Requests, Deliver(r) PROVE TimesOK'
  BY <1>4 DEF Deliver, Goto, NextCursor
<1>5. ASSUME NEW r \in Requests, Begin(r) PROVE TimesOK'
  BY <1>5 DEF Begin, Goto, clientVars
<1>6. ASSUME NEW r \in Requests, Upsert(r) PROVE TimesOK'
  BY <1>6 DEF Upsert, clientVars
<1>7. ASSUME NEW r \in Requests, PullMarks(r) \/ PullAnswers(r) \/ PullProgress(r) PROVE TimesOK'
  BY <1>7 DEF PullMarks, PullAnswers, PullProgress, Read, Goto, clientVars
<1>8. ASSUME NEW r \in Requests, Commit(r) PROVE TimesOK'
  BY <1>8 DEF Commit, Goto, clientVars
<1>9. CASE UNCHANGED vars
  BY <1>9 DEF vars
<1> QED
  BY <1>1, <1>2, <1>3, <1>4, <1>5, <1>6, <1>7, <1>8, <1>9
     DEF Next, Server, Network, AbortDeadlock

\* A key of an item is a progress key only if it is the user's own.
LEMMA ProgressKeyIsOwn ==
  ASSUME TypeOK, NEW r \in Requests, req[r] \in Request,
         NEW i \in 1 .. Len(req[r].batch), ItemKey(r, i) \in Progress
  PROVE  ItemKey(r, i)[1] = User(r)
<1>1. req[r].batch[i] \in Item /\ User(r) \in Users
  BY ItemTypes
<1> QED BY <1>1, SyncAssumption DEF ItemKey, KeyOf, Item, Ids

\* What an upsert does to the row its transaction sees.
LEMMA UpsertEffect ==
  ASSUME BaseInv, NEW r \in Requests, Upsert(r)
  PROVE  \E k \in Keys, new \in Row :
           /\ req[r] \in Request /\ pos[r] \in 1 .. Len(req[r].batch)
           /\ k = ItemKey(r, pos[r]) /\ new = NewRow(r, pos[r])
           /\ new.owner = User(r) /\ new.sua = start[r]
           /\ k \in Progress => k[1] = User(r)
           /\ phase[r] = "push" /\ Free(r, k)
           /\ lock' = [lock EXCEPT ![k] = r]
           /\ writes' = IF Accepts(k, Seen(r, k), new) THEN [writes EXCEPT ![r][k] = new] ELSE writes
<1> DEFINE k == ItemKey(r, pos[r])
           new == NewRow(r, pos[r])
<1>1. req[r] \in Request /\ pos[r] \in 1 .. Len(req[r].batch) /\ TypeOK
  BY BatchAssumption DEF Upsert, Request, BaseInv, TypeInv, TypeOK, SentRequests
<1>2. k \in Keys /\ new \in Row
  BY <1>1, ItemTypes
<1>3. k \in Progress => k[1] = User(r)
  BY <1>1, ProgressKeyIsOwn
<1>4. new.owner = User(r) /\ new.sua = start[r]
  BY DEF NewRow
<1> HIDE DEF k, new
<1>5. /\ phase[r] = "push" /\ Free(r, k)
      /\ lock' = [lock EXCEPT ![k] = r]
      /\ writes' = IF Accepts(k, Seen(r, k), new) THEN [writes EXCEPT ![r][k] = new] ELSE writes
  BY DEF Upsert, k, new
<1> QED BY <1>1, <1>2, <1>3, <1>4, <1>5 DEF k, new

LEMMA LocksStep == BaseInv /\ [Next]_vars => LocksOK'
<1> SUFFICES ASSUME BaseInv, [Next]_vars PROVE LocksOK'
  OBVIOUS
<1> USE SyncAssumption DEF BaseInv, TypeInv, TypeOK, SentRequests, LocksOK, InTx
<1>1. CASE Tick
  BY <1>1 DEF Tick, clientVars, User
<1>2. ASSUME NEW r \in Requests, NEW d \in Devices, NEW b \in Batches, Send(r, d, b)
      PROVE  LocksOK'
  BY <1>2 DEF Send, Goto, clientVars, User
<1>3. ASSUME NEW r \in Requests, Lose(r) \/ Reject(r) PROVE LocksOK'
  <2>1. /\ phase[r] \in {"sent", "reply"}
        /\ \E p \in {"error", "lost"} : phase' = [phase EXCEPT ![r] = p]
        /\ UNCHANGED <<rows, lock, req, start, pos, writes>>
    BY <1>3 DEF Lose, Reject, Goto
  <2> QED BY <2>1 DEF User
<1>4. ASSUME NEW r \in Requests, Deliver(r) PROVE LocksOK'
  BY <1>4 DEF Deliver, Goto, User
<1>5. ASSUME NEW r \in Requests, Begin(r) PROVE LocksOK'
  BY <1>5 DEF Begin, Goto, clientVars, User
<1>6. ASSUME NEW r \in Requests, Upsert(r) PROVE LocksOK'
  <2>1. PICK k \in Keys, new \in Row :
           /\ new.owner = User(r) /\ new.sua = start[r]
           /\ k \in Progress => k[1] = User(r)
           /\ phase[r] = "push" /\ Free(r, k)
           /\ lock' = [lock EXCEPT ![k] = r]
           /\ writes' = IF Accepts(k, Seen(r, k), new) THEN [writes EXCEPT ![r][k] = new] ELSE writes
    BY <1>6, UpsertEffect
  <2>2. UNCHANGED <<rows, phase, req, start>> /\ pos' = [pos EXCEPT ![r] = @ + 1]
    BY <1>6 DEF Upsert
  <2>3. ASSUME NEW j \in Keys, lock'[j] # NoRequest PROVE phase'[lock'[j]] \in InTx
    BY <2>1, <2>2, <2>3
  <2>4. ASSUME NEW q \in Requests, NEW j \in Keys, phase'[q] \in InTx, writes'[q][j] # NoRow
        PROVE  /\ lock'[j] = q
               /\ writes'[q][j].owner = User(q)'
               /\ writes'[q][j].sua = start'[q]
               /\ j \in Progress => j[1] = User(q)'
               /\ rows'[j] # NoRow => rows'[j].owner = User(q)' /\ rows'[j].at < writes'[q][j].at
    <3>1. User(q)' = User(q)
      BY <2>2 DEF User
    <3>2. CASE q = r /\ j = k /\ Accepts(k, Seen(r, k), new)
      <4>1. writes'[r][k] = new
        BY <2>1, <3>2
      <4>2. rows[k] # NoRow => rows[k].owner = User(r) /\ rows[k].at < new.at
        BY <2>1, <3>2 DEF Accepts, Seen, Row
      <4> QED BY <2>1, <2>2, <3>1, <3>2, <4>1, <4>2
    <3>3. CASE ~(q = r /\ j = k /\ Accepts(k, Seen(r, k), new))
      <4>1. writes'[q][j] = writes[q][j]
        BY <2>1, <3>3
      <4>2. lock[j] = q
        BY <2>2, <2>4, <4>1
      <4>3. lock'[j] = q
        BY <2>1, <4>2 DEF Free
      <4> QED BY <2>2, <2>4, <3>1, <4>1, <4>3
    <3> QED BY <3>2, <3>3
  <2>5. ASSUME NEW q \in Requests, phase'[q] \in {"unsent", "sent"}
        PROVE  pos'[q] = 1 /\ \A j \in Keys : writes'[q][j] = NoRow
    BY <2>1, <2>2, <2>5
  <2> QED BY <2>2, <2>3, <2>4, <2>5
<1>7. ASSUME NEW r \in Requests, PullMarks(r) \/ PullAnswers(r) \/ PullProgress(r) PROVE LocksOK'
  <2>1. /\ phase[r] \in InTx
        /\ \E p \in InTx : phase' = [phase EXCEPT ![r] = p]
        /\ UNCHANGED <<rows, lock, req, start, pos, writes>>
    BY <1>7 DEF PullMarks, PullAnswers, PullProgress, Read, Goto
  <2> QED BY <2>1 DEF User
<1>8. ASSUME NEW r \in Requests, Commit(r) PROVE LocksOK'
  <2>1. /\ phase[r] = "commit" /\ phase' = [phase EXCEPT ![r] = "reply"]
        /\ rows' = [k \in Keys |-> Seen(r, k)]
        /\ lock' = [k \in Keys |-> IF lock[k] = r THEN NoRequest ELSE lock[k]]
        /\ UNCHANGED <<req, start, pos, writes>>
    BY <1>8 DEF Commit, Goto, Unlock
  <2>2. \A k \in Keys : lock'[k] # NoRequest => phase'[lock'[k]] \in InTx
    BY <2>1
  <2>3. \A k \in Progress : rows'[k] # NoRow => rows'[k].owner = k[1]
    BY <2>1 DEF Seen, Keys
  <2>4. ASSUME NEW q \in Requests, NEW k \in Keys, phase'[q] \in InTx, writes'[q][k] # NoRow
        PROVE  /\ lock'[k] = q
               /\ rows'[k] = rows[k]
    BY <2>1, <2>4 DEF Seen
  <2>5. ASSUME NEW q \in Requests, phase'[q] \in {"unsent", "sent"}
        PROVE  pos'[q] = 1 /\ \A j \in Keys : writes'[q][j] = NoRow
    BY <2>1, <2>5
  <2>6. ASSUME NEW q \in Requests, NEW k \in Keys, phase'[q] \in InTx, writes'[q][k] # NoRow
        PROVE  /\ writes'[q][k].owner = User(q)'
               /\ writes'[q][k].sua = start'[q]
               /\ k \in Progress => k[1] = User(q)'
               /\ rows'[k] # NoRow => rows'[k].owner = User(q)' /\ rows'[k].at < writes'[q][k].at
    BY <2>1, <2>4, <2>6 DEF User
  <2> QED BY <2>2, <2>3, <2>4, <2>5, <2>6
<1>9. ASSUME NEW r \in Requests, Fail(r) PROVE LocksOK'
  BY <1>9 DEF Fail, Goto, Unlock, clientVars, User
<1>10. CASE UNCHANGED vars
  BY <1>10 DEF vars, User
<1> QED
  BY <1>1, <1>2, <1>3, <1>4, <1>5, <1>6, <1>7, <1>8, <1>9, <1>10
     DEF Next, Server, Network, AbortDeadlock

LEMMA BaseInit == Init => BaseInv
BY TypeInit, SyncAssumption
   DEF Init, BaseInv, TimesOK, LocksOK, InTx, NoCursor, Keys

LEMMA BaseStep == BaseInv /\ [Next]_vars => BaseInv'
BY TypeStep, TimesStep, LocksStep DEF BaseInv

LEMMA BaseHolds == Spec => []BaseInv
<1> QED BY BaseInit, BaseStep, PTL DEF Spec

\* A commit replaces rows by newer ones of the same owner, stamped with the
\* start of a transaction that is at most MaxTx old; every other row stays.
LEMMA CommitEffect ==
  ASSUME BaseInv, NEW r \in Requests, Commit(r), NEW k \in Keys
  PROVE  /\ rows'[k] \in Row \cup {NoRow}
         /\ \/ rows'[k] = rows[k]
            \/ /\ rows'[k] # NoRow
               /\ lock[k] = r
               /\ rows'[k].owner = User(r)
               /\ rows'[k].sua = start[r]
               /\ clock - start[r] =< MaxTx
               /\ rows[k] # NoRow => rows[k].owner = User(r) /\ rows[k].at < rows'[k].at
<1>1. phase[r] \in InTx /\ rows'[k] = Seen(r, k)
  BY DEF Commit, InTx
<1>2. Seen(r, k) \in Row \cup {NoRow}
  BY SeenType DEF BaseInv, TypeInv
<1> QED BY <1>1, <1>2 DEF BaseInv, LocksOK, TimesOK, Seen

-----------------------------------------------------------------------------
(* No change is missed when transactions are shorter than the overlap. *)

\* Only a commit changes rows; only a delivery changes what a device knows.
LEMMA RowsFrame ==
  ASSUME [Next]_vars, \A r \in Requests : ~Commit(r)
  PROVE  rows' = rows
BY DEF Next, Server, Network, AbortDeadlock, vars, Tick, Send, Lose, Reject, Deliver, Begin,
       Upsert, PullMarks, PullAnswers, PullProgress, Read, Fail, clientVars

LEMMA KnownGrows ==
  ASSUME TypeInv, [Next]_vars, NEW d \in Devices, NEW k \in Keys
  PROVE  known[d][k] \in Nat /\ known'[d][k] \in Nat /\ known'[d][k] >= known[d][k]
<1> USE DEF TypeInv, TypeOK
<1>1. CASE \E r \in Requests : Deliver(r)
  BY <1>1 DEF Deliver, Newest
<1>2. CASE ~\E r \in Requests : Deliver(r)
  <2>1. known' = known
    BY <1>2 DEF Next, Server, Network, AbortDeadlock, vars, Tick, Send, Lose, Reject, Begin,
         Upsert, PullMarks, PullAnswers, PullProgress, Read, Commit, Fail, clientVars
  <2> QED BY <2>1
<1> QED BY <1>1, <1>2

LEMMA NoMissedStep ==
  ASSUME MaxTx < Overlap, BaseInv, PullsOK, NoMissedChange, [Next]_vars
  PROVE  NoMissedChange'
<1> USE SyncAssumption DEF BaseInv, TypeInv, TypeOK
<1> SUFFICES ASSUME NEW d \in Devices, NEW k \in Keys,
                    rows'[k] # NoRow, rows'[k].owner = UserOf[d]
             PROVE  UpToDate(d, k)'
  BY DEF NoMissedChange
<1>1. /\ known[d][k] \in Nat /\ known'[d][k] \in Nat /\ known'[d][k] >= known[d][k]
  BY KnownGrows
<1>2. ASSUME NEW r \in Requests, Commit(r) PROVE UpToDate(d, k)'
  <2>1. UNCHANGED <<cursor, known>>
    BY <1>2 DEF Commit, clientVars
  <2>2. CASE rows'[k] = rows[k]
    BY <2>1, <2>2 DEF UpToDate, NoMissedChange
  <2>3. CASE rows'[k] # rows[k]
    <3>1. rows'[k].sua = start[r] /\ clock - start[r] =< MaxTx
      BY <1>2, <2>3, CommitEffect
    <3>2. cursor[d] =< clock
      BY DEF TimesOK
    <3>3. rows'[k].sua > cursor'[d] - Overlap
      BY <2>1, <3>1, <3>2
    <3> QED BY <3>3 DEF UpToDate
  <2> QED BY <2>2, <2>3
<1>3. ASSUME NEW r \in Requests, Deliver(r) PROVE UpToDate(d, k)'
  <2>1. rows' = rows /\ rows[k] \in Row
    BY <1>3 DEF Deliver
  <2>2. CASE d # req[r].dev
    <3>1. cursor'[d] = cursor[d] /\ known'[d] = known[d]
      BY <1>3, <2>2 DEF Deliver
    <3> QED BY <2>1, <3>1 DEF UpToDate, NoMissedChange
  <2>3. CASE d = req[r].dev
    <3>1. /\ phase[r] = "reply"
          /\ cursor'[d] = start[r]
          /\ known'[d][k] = Newest(known[d][k], pulled[r][k])
      BY <1>3, <2>3 DEF Deliver, NextCursor
    <3>2. Own(User(r), k)
      BY <2>1, <2>3 DEF Own, User
    <3>3. \/ known[d][k] >= rows[k].at
          \/ pulled[r][k] >= rows[k].at
          \/ rows[k].sua > start[r] - Overlap
      BY <2>3, <3>1, <3>2 DEF PullsOK, Kept, PulledKeys, Alive
    <3> QED BY <2>1, <3>1, <3>3 DEF UpToDate, Newest, Row
  <2> QED BY <2>2, <2>3
<1>4. CASE \A r \in Requests : ~Commit(r) /\ ~Deliver(r)
  <2>1. rows' = rows
    BY <1>4, RowsFrame
  <2>2. cursor' = cursor
    BY <1>4 DEF Next, Server, Network, AbortDeadlock, vars, Tick, Send, Lose, Reject, Begin,
         Upsert, PullMarks, PullAnswers, PullProgress, Read, Fail, clientVars
  <2>3. rows[k] \in Row
    BY <2>1
  <2>4. UpToDate(d, k)
    BY <2>1 DEF NoMissedChange
  <2>5. known[d][k] >= rows[k].at => known'[d][k] >= rows'[k].at
    BY <1>1, <2>1, <2>3 DEF Row
  <2> QED BY <2>1, <2>2, <2>4, <2>5 DEF UpToDate
<1> QED BY <1>2, <1>3, <1>4

\* A step that leaves the rows, and the request's body and reads, keeps PullsOK.
LEMMA PullsFrame ==
  ASSUME TypeInv, PullsOK, [Next]_vars, rows' = rows,
         NEW q \in Requests, NEW k \in Keys,
         phase[q] \in Alive, Own(User(q), k), req[q] \in Request, req'[q] = req[q]
  PROVE  /\ (Kept(q, k) \/ Recent(q, rows[k]))'
         /\ k \in PulledKeys(phase[q]) /\ pulled'[q] = pulled[q] /\ start'[q] = start[q] =>
              (\/ Kept(q, k)
               \/ pulled[q][k] >= rows[k].at
               \/ rows[k].sua > start[q] - Overlap)'
<1> USE DEF TypeInv, TypeOK
<1>1. req[q].dev \in Devices /\ req'[q].dev = req[q].dev /\ rows[k] \in Row
  BY DEF Request, Own
<1>2. LET d == req[q].dev
      IN  known[d][k] \in Nat /\ known'[d][k] \in Nat /\ known'[d][k] >= known[d][k]
  BY <1>1, KnownGrows
<1>3. Kept(q, k) => Kept(q, k)'
  BY <1>1, <1>2 DEF Kept, Row
<1>4. Recent(q, rows[k]) => Recent(q, rows[k])'
  BY DEF Recent
<1> QED BY <1>3, <1>4 DEF PullsOK

\* Reading a table leaves nothing of it behind that the next cursor would not re-read.
LEMMA ReadEffect ==
  ASSUME BaseInv, PullsOK, NEW r \in Requests, phase[r] \in InTx, NEW table, NEW next,
         Read(r, table, next), NEW k \in Keys, Own(User(r), k)
  PROVE  /\ k \in table =>
              \/ Kept(r, k)
              \/ pulled'[r][k] >= rows[k].at
              \/ rows[k].sua > start[r] - Overlap
         /\ k \notin table => pulled'[r][k] = pulled[r][k]
<1> USE SyncAssumption DEF BaseInv, TypeInv, TypeOK, SentRequests
<1>1. pulled'[r][k] = IF k \in table /\ Mine(r, Seen(r, k)) /\ Recent(r, Seen(r, k))
                      THEN Seen(r, k).at ELSE pulled[r][k]
  BY DEF Read
<1>2. /\ req[r] \in Request /\ rows[k] \in Row /\ start[r] \in Nat
      /\ req[r].cursor \in Nat /\ req[r].cursor =< start[r]
  BY DEF InTx, TimesOK, Own, Request
<1>3. Kept(r, k) \/ Recent(r, rows[k])
  BY DEF PullsOK, Alive
<1>4. CASE writes[r][k] = NoRow
  <2>1. Seen(r, k) = rows[k] /\ Mine(r, rows[k])
    BY <1>4 DEF Seen, Mine, Own
  <2> QED BY <1>1, <1>2, <1>3, <2>1 DEF Row
<1>5. CASE writes[r][k] # NoRow
  <2>1. /\ Seen(r, k) = writes[r][k] /\ writes[r][k] \in Row
        /\ writes[r][k].owner = User(r)
        /\ writes[r][k].sua = start[r]
        /\ rows[k].at < writes[r][k].at
    BY <1>5 DEF Seen, LocksOK, Own
  <2>2. Mine(r, Seen(r, k)) /\ Recent(r, Seen(r, k))
    BY <1>2, <1>5, <2>1 DEF Mine, Recent
  <2> QED BY <1>1, <1>2, <2>1, <2>2 DEF Row
<1> QED BY <1>1, <1>4, <1>5

LEMMA PullsStep ==
  ASSUME MaxTx < Overlap, BaseInv, PullsOK, NoMissedChange, [Next]_vars
  PROVE  PullsOK'
<1> USE SyncAssumption DEF BaseInv, TypeInv, TypeOK
<1> SUFFICES ASSUME NEW q \in Requests, NEW k \in Keys,
                    phase'[q] \in Alive, Own(User(q), k)'
             PROVE  /\ (Kept(q, k) \/ Recent(q, rows[k]))'
                    /\ k \in PulledKeys(phase'[q]) =>
                         (\/ Kept(q, k)
                          \/ pulled[q][k] >= rows[k].at
                          \/ rows[k].sua > start[q] - Overlap)'
  BY DEF PullsOK
<1> DEFINE Goal == /\ (Kept(q, k) \/ Recent(q, rows[k]))'
                   /\ k \in PulledKeys(phase'[q]) =>
                        (\/ Kept(q, k)
                         \/ pulled[q][k] >= rows[k].at
                         \/ rows[k].sua > start[q] - Overlap)'
<1>1. CASE \E d \in Devices, b \in Batches : Send(q, d, b)
  <2>1. PICK d \in Devices, b \in Batches : Send(q, d, b)
    BY <1>1
  <2>2. /\ rows' = rows /\ known' = known /\ phase'[q] = "sent"
        /\ req'[q].dev = d /\ req'[q].cursor = cursor[d]
    BY <2>1 DEF Send, Goto, clientVars
  <2>3. UpToDate(d, k)
    BY <2>2 DEF NoMissedChange, Own, User
  <2> QED BY <2>2, <2>3 DEF UpToDate, Kept, Recent, PulledKeys
<1>2. CASE Begin(q)
  <2>1. /\ rows' = rows /\ req' = req /\ phase[q] = "sent" /\ phase'[q] = "push"
    BY <1>2 DEF Begin, Goto
  <2>2. phase[q] \in Alive /\ Own(User(q), k) /\ req[q] \in Request
    BY <2>1 DEF Alive, Own, User, SentRequests
  <2>3. (Kept(q, k) \/ Recent(q, rows[k]))'
    BY <2>1, <2>2, PullsFrame
  <2> QED BY <2>1, <2>3 DEF PulledKeys
<1>3. CASE PullMarks(q) \/ PullAnswers(q) \/ PullProgress(q)
  <2>1. PICK table \in {Marks, Answers, Progress}, next \in InTx :
          /\ Read(q, table, next) /\ phase[q] \in InTx
          /\ PulledKeys(next) \subseteq PulledKeys(phase[q]) \cup table
    BY <1>3 DEF PullMarks, PullAnswers, PullProgress, PulledKeys, InTx, Keys
  <2>2. /\ rows' = rows /\ req' = req /\ start' = start /\ known' = known /\ phase'[q] = next
    BY <2>1 DEF Read, Goto, clientVars
  <2>3. phase[q] \in Alive /\ Own(User(q), k) /\ req[q] \in Request
    BY <2>1, <2>2 DEF Alive, Own, User, SentRequests, InTx
  <2>4. (Kept(q, k) \/ Recent(q, rows[k]))'
    BY <2>2, <2>3, PullsFrame
  <2>5. /\ k \in table =>
             \/ Kept(q, k)
             \/ pulled'[q][k] >= rows[k].at
             \/ rows[k].sua > start[q] - Overlap
        /\ k \notin table => pulled'[q][k] = pulled[q][k]
    BY <2>1, <2>3, ReadEffect
  <2>6. k \in PulledKeys(phase[q]) =>
             \/ Kept(q, k)
             \/ pulled[q][k] >= rows[k].at
             \/ rows[k].sua > start[q] - Overlap
    BY <2>3 DEF PullsOK
  <2> QED BY <2>1, <2>2, <2>4, <2>5, <2>6 DEF Kept
<1>4. ASSUME NEW r \in Requests, Commit(r) PROVE Goal
  <2>1. /\ UNCHANGED <<clock, req, start, pulled, known>> /\ phase' = [phase EXCEPT ![r] = "reply"]
        /\ phase[r] = "commit"
    BY <1>4 DEF Commit, Goto, clientVars
  <2>2. phase[q] \in Alive /\ PulledKeys(phase'[q]) = PulledKeys(phase[q]) /\ req[q] \in Request
    BY <2>1 DEF Alive, PulledKeys, SentRequests, InTx
  <2>3. CASE rows'[k] = rows[k]
    <3>1. Own(User(q), k)
      BY <2>1, <2>3 DEF Own, User
    <3> QED BY <2>1, <2>2, <2>3, <3>1 DEF PullsOK, Kept, Recent
  <2>4. CASE rows'[k] # rows[k]
    <3>1. rows'[k].sua = start[r] /\ clock - start[r] =< MaxTx
      BY <1>4, <2>4, CommitEffect
    <3>2. /\ start[r] \in Nat /\ start[q] \in Nat /\ req[q].cursor \in Nat
          /\ req[q].cursor =< clock
          /\ phase[q] # "sent" => start[q] =< clock
      BY <2>2 DEF Request, TimesOK, Alive
    <3>3. Recent(q, rows[k])'
      BY <2>1, <3>1, <3>2 DEF Recent
    <3>4. phase[q] # "sent" => rows'[k].sua > start'[q] - Overlap
      BY <2>1, <3>1, <3>2
    <3> QED BY <2>2, <3>3, <3>4 DEF PulledKeys
  <2> QED BY <2>3, <2>4
<1>5. CASE /\ \A r \in Requests : ~Commit(r)
           /\ ~(\E d \in Devices, b \in Batches : Send(q, d, b))
           /\ ~Begin(q) /\ ~PullMarks(q) /\ ~PullAnswers(q) /\ ~PullProgress(q)
  <2>1. rows' = rows
    BY <1>5, RowsFrame
  <2>2. /\ phase'[q] = phase[q] \/ phase'[q] \notin Alive
        /\ req'[q] = req[q] /\ pulled'[q] = pulled[q] /\ start'[q] = start[q]
    <3>1. CASE UNCHANGED vars \/ Tick
      BY <3>1 DEF vars, Tick
    <3>2. ASSUME NEW r \in Requests, NEW d \in Devices, NEW b \in Batches, Send(r, d, b), r # q
          PROVE  /\ phase'[q] = phase[q] \/ phase'[q] \notin Alive
                 /\ req'[q] = req[q] /\ pulled'[q] = pulled[q] /\ start'[q] = start[q]
      BY <3>2 DEF Send, Goto
    <3>3. ASSUME NEW r \in Requests, Lose(r) \/ Reject(r) \/ Deliver(r) \/ Fail(r)
          PROVE  /\ phase'[q] = phase[q] \/ phase'[q] \notin Alive
                 /\ req' = req /\ pulled' = pulled /\ start' = start
      <4>1. /\ \E p \in {"error", "lost", "acked"} : phase' = [phase EXCEPT ![r] = p]
            /\ req' = req /\ pulled' = pulled /\ start' = start
        BY <3>3 DEF Lose, Reject, Deliver, Fail, Goto
      <4> QED BY <4>1 DEF Alive, InTx
    <3>4. ASSUME NEW r \in Requests, r # q, Begin(r) \/ PullMarks(r) \/ PullAnswers(r) \/ PullProgress(r)
          PROVE  /\ phase'[q] = phase[q] /\ req' = req
                 /\ pulled'[q] = pulled[q] /\ start'[q] = start[q]
      BY <3>4 DEF Begin, PullMarks, PullAnswers, PullProgress, Read, Goto
    <3>5. ASSUME NEW r \in Requests, Upsert(r)
          PROVE  phase' = phase /\ req' = req /\ pulled' = pulled /\ start' = start
      BY <3>5 DEF Upsert
    <3> QED BY <1>5, <3>1, <3>2, <3>3, <3>4, <3>5 DEF Next, Server, Network, AbortDeadlock
  <2>3. phase'[q] = phase[q] /\ Own(User(q), k) /\ req[q] \in Request
    BY <2>1, <2>2 DEF Own, User, Alive, SentRequests, InTx
  <2> QED BY <2>1, <2>2, <2>3, PullsFrame
<1> QED BY <1>1, <1>2, <1>3, <1>4, <1>5

\* The delta sync hides no change from a device, whatever the devices push and
\* however requests, statements, responses and failures interleave, as long as
\* no transaction lives as long as syncOverlap. The code does not enforce that
\* bound (nothing limits a transaction's time): it is the theorem's hypothesis.
THEOREM NothingMissed ==
  ASSUME MaxTx < Overlap
  PROVE  Spec => []NoMissedChange
<1> DEFINE Inv == BaseInv /\ PullsOK /\ NoMissedChange
<1>1. Init => Inv
  <2>1. Init => BaseInv
    BY BaseInit
  <2>2. Init => PullsOK /\ NoMissedChange
    BY SyncAssumption DEF Init, PullsOK, NoMissedChange, Own, Keys
  <2> QED BY <2>1, <2>2
<1>2. Inv /\ [Next]_vars => Inv'
  BY BaseStep, PullsStep, NoMissedStep
<1>3. Inv => NoMissedChange
  OBVIOUS
<1> QED BY <1>1, <1>2, <1>3, PTL DEF Spec

-----------------------------------------------------------------------------
(* Devices learn committed versions of their user's rows, and nothing else. *)

LEMMA OnlyCommittedStep ==
  ASSUME BaseInv, ReadsOK, OnlyCommittedOwnRows, [Next]_vars
  PROVE  OnlyCommittedOwnRows'
<1> USE SyncAssumption DEF BaseInv, TypeInv, TypeOK
<1> SUFFICES ASSUME NEW d \in Devices, NEW k \in Keys, known'[d][k] > 0
             PROVE  /\ rows'[k] # NoRow
                    /\ rows'[k].owner = UserOf[d]
                    /\ known'[d][k] =< rows'[k].at
  BY DEF OnlyCommittedOwnRows
<1>1. ASSUME NEW r \in Requests, Deliver(r) PROVE Own(UserOf[d], k)' /\ known'[d][k] =< rows'[k].at
  <2>1. /\ rows' = rows /\ phase[r] = "reply"
        /\ known'[d][k] = IF d = req[r].dev THEN Newest(known[d][k], pulled[r][k]) ELSE known[d][k]
    BY <1>1 DEF Deliver
  <2>2. pulled[r][k] > 0 /\ d = req[r].dev => Own(UserOf[d], k) /\ pulled[r][k] =< rows[k].at
    BY <2>1 DEF ReadsOK, User
  <2>3. known[d][k] > 0 => Own(UserOf[d], k) /\ known[d][k] =< rows[k].at
    BY DEF OnlyCommittedOwnRows, Own
  <2> QED BY <2>1, <2>2, <2>3 DEF Newest, Own
<1>2. CASE \A r \in Requests : ~Deliver(r)
  <2>1. known' = known
    BY <1>2 DEF Next, Server, Network, AbortDeadlock, vars, Tick, Send, Lose, Reject, Begin,
         Upsert, PullMarks, PullAnswers, PullProgress, Read, Commit, Fail, clientVars
  <2>2. Own(UserOf[d], k) /\ known[d][k] =< rows[k].at
    BY <2>1 DEF OnlyCommittedOwnRows, Own
  <2>3. ASSUME NEW r \in Requests, Commit(r), rows'[k] # rows[k]
        PROVE  Own(UserOf[d], k)' /\ known'[d][k] =< rows'[k].at
    <3>1. /\ rows'[k] \in Row /\ rows[k] \in Row
          /\ rows'[k].owner = rows[k].owner /\ rows[k].at < rows'[k].at
      BY <2>2, <2>3, CommitEffect DEF Own
    <3> QED BY <2>1, <2>2, <3>1 DEF Own, Row
  <2>4. rows'[k] = rows[k] => Own(UserOf[d], k)' /\ known'[d][k] =< rows'[k].at
    BY <2>1, <2>2 DEF Own
  <2>5. rows'[k] # rows[k] => \E r \in Requests : Commit(r)
    BY RowsFrame
  <2> QED BY <2>3, <2>4, <2>5 DEF Own
<1> QED BY <1>1, <1>2 DEF Own

LEMMA ReadsStep ==
  ASSUME BaseInv, ReadsOK, [Next]_vars
  PROVE  ReadsOK'
<1> USE SyncAssumption DEF BaseInv, TypeInv, TypeOK
<1> DEFINE Goal(q, k) ==
      /\ phase[q] \in {"unsent", "sent", "push"} => pulled[q][k] = 0
      /\ phase[q] \in InTx /\ pulled[q][k] > 0 =>
           Mine(q, Seen(q, k)) /\ pulled[q][k] =< Seen(q, k).at
      /\ phase[q] = "reply" /\ pulled[q][k] > 0 =>
           Own(User(q), k) /\ pulled[q][k] =< rows[k].at
<1> SUFFICES ASSUME NEW q \in Requests, NEW k \in Keys PROVE Goal(q, k)'
  BY DEF ReadsOK
<1>0. Goal(q, k)
  BY DEF ReadsOK
<1>1. ASSUME NEW r \in Requests, Commit(r) PROVE Goal(q, k)'
  <2>1. /\ phase[r] = "commit" /\ phase' = [phase EXCEPT ![r] = "reply"]
        /\ rows' = [j \in Keys |-> Seen(r, j)]
        /\ UNCHANGED <<req, writes, pulled>>
    BY <1>1 DEF Commit, Goto
  <2>2. User(q)' = User(q)
    BY <2>1 DEF User
  <2>3. CASE q = r
    BY <1>0, <2>1, <2>2, <2>3 DEF Mine, Own, InTx
  <2>4. CASE q # r
    <3>1. phase'[q] = phase[q]
      BY <2>1, <2>4
    <3>2. CASE rows'[k] = rows[k]
      <4>1. Seen(q, k)' = Seen(q, k)
        BY <2>1, <3>2 DEF Seen
      <4> QED BY <1>0, <2>1, <2>2, <3>1, <3>2, <4>1 DEF Mine, Own
    <3>3. CASE rows'[k] # rows[k]
      <4>1. /\ lock[k] = r /\ rows'[k] \in Row
            /\ rows'[k].owner = User(r)
            /\ rows[k] # NoRow => rows[k].owner = User(r) /\ rows[k].at < rows'[k].at
        BY <1>1, <3>3, CommitEffect
      <4>2. phase[q] \in InTx => writes[q][k] = NoRow
        BY <2>4, <4>1 DEF LocksOK
      <4>3. phase[q] \in InTx => Seen(q, k) = rows[k] /\ Seen(q, k)' = rows'[k]
        BY <2>1, <4>2 DEF Seen
      <4> QED BY <1>0, <2>1, <2>2, <3>1, <4>1, <4>3 DEF Mine, Own, Row
    <3> QED BY <3>2, <3>3
  <2> QED BY <2>3, <2>4
<1>2. ASSUME NEW r \in Requests, NEW table \in SUBSET Keys, NEW next \in InTx \ {"push"}, phase[r] \in InTx,
             Read(r, table, next)
      PROVE  Goal(q, k)'
  <2>1. UNCHANGED <<rows, req, writes>> /\ phase' = [phase EXCEPT ![r] = next]
    BY <1>2 DEF Read, Goto
  <2>2. Seen(q, k)' = Seen(q, k) /\ User(q)' = User(q)
    BY <2>1 DEF Seen, User
  <2>3. CASE q # r
    <3>1. pulled'[q] = pulled[q] /\ phase'[q] = phase[q]
      BY <1>2, <2>1, <2>3 DEF Read
    <3> QED BY <1>0, <2>1, <2>2, <3>1 DEF Mine, Own
  <2>4. CASE q = r
    <3>1. pulled'[r][k] = IF k \in table /\ Mine(r, Seen(r, k)) /\ Recent(r, Seen(r, k))
                          THEN Seen(r, k).at ELSE pulled[r][k]
      BY <1>2 DEF Read
    <3>2. phase'[r] \notin {"unsent", "sent", "push", "reply"}
      BY <1>2, <2>1 DEF InTx
    <3>3. Seen(r, k) \in Row \cup {NoRow}
      BY SeenType
    <3> QED BY <1>0, <1>2, <2>2, <2>4, <3>1, <3>2, <3>3 DEF Mine, Row
  <2> QED BY <2>3, <2>4
<1>3. ASSUME NEW r \in Requests, Upsert(r) PROVE Goal(q, k)'
  <2>1. UNCHANGED <<rows, req, phase, pulled>> /\ phase[r] = "push"
    BY <1>3 DEF Upsert
  <2>2. q # r => writes'[q] = writes[q]
    BY <1>3 DEF Upsert
  <2>3. q = r => pulled[q][k] = 0
    BY <1>0, <2>1
  <2> QED BY <1>0, <2>1, <2>2, <2>3 DEF Seen, Mine, User, Own, InTx
<1>4. ASSUME NEW r \in Requests, NEW d \in Devices, NEW b \in Batches, Send(r, d, b)
      PROVE  Goal(q, k)'
  BY <1>0, <1>4 DEF Send, Goto, Seen, Mine, User, Own, InTx
<1>5. ASSUME NEW r \in Requests, Begin(r) PROVE Goal(q, k)'
  BY <1>0, <1>5 DEF Begin, Goto, Seen, Mine, User, Own, InTx
<1>6. ASSUME NEW r \in Requests, Lose(r) \/ Reject(r) \/ Deliver(r) \/ Fail(r)
      PROVE  Goal(q, k)'
  <2>1. /\ \E p \in {"error", "lost", "acked"} : phase' = [phase EXCEPT ![r] = p]
        /\ UNCHANGED <<rows, req, pulled, writes>>
    BY <1>6 DEF Lose, Reject, Deliver, Fail, Goto
  <2> QED BY <1>0, <2>1 DEF Seen, Mine, User, Own, InTx
<1>7. CASE UNCHANGED vars \/ Tick
  BY <1>0, <1>7 DEF vars, Tick, Seen, Mine, User, Own
<1>8. ASSUME NEW r \in Requests, PullMarks(r) \/ PullAnswers(r) \/ PullProgress(r) PROVE Goal(q, k)'
  BY <1>2, <1>8 DEF PullMarks, PullAnswers, PullProgress, Keys, InTx
<1> QED
  BY <1>1, <1>3, <1>4, <1>5, <1>6, <1>7, <1>8 DEF Next, Server, Network, AbortDeadlock

\* Every version a device ever receives is a committed version of a row of its
\* own user: a rolled-back write never reaches a response, and a mark id taken
\* by another account leaks nothing of that account's row.
THEOREM OnlyCommittedReceived == Spec => []OnlyCommittedOwnRows
<1> DEFINE Inv == BaseInv /\ ReadsOK /\ OnlyCommittedOwnRows
<1>1. Init => Inv
  <2>1. Init => BaseInv
    BY BaseInit
  <2>2. Init => ReadsOK /\ OnlyCommittedOwnRows
    BY DEF Init, ReadsOK, OnlyCommittedOwnRows, InTx
  <2> QED BY <2>1, <2>2
<1>2. Inv /\ [Next]_vars => Inv'
  BY BaseStep, ReadsStep, OnlyCommittedStep
<1> QED BY <1>1, <1>2, PTL DEF Spec

-----------------------------------------------------------------------------
(* The interleaved statements implement atomic last-write-wins batches. *)

\* The items of a request do not change once its transaction has begun.
LEMMA SameItems ==
  ASSUME NEW q, req'[q] = req[q], start'[q] = start[q]
  PROVE  /\ User(q)' = User(q)
         /\ \A i : ItemKey(q, i)' = ItemKey(q, i)
         /\ \A i : ItemAt(q, i)' = ItemAt(q, i)
BY DEF User, ItemKey, ItemAt, KeyOf, Clamp

\* An upsert handles its item and keeps the items handled before.
LEMMA UpsertHandles ==
  ASSUME BaseInv, PushesOK, NEW q \in Requests, Upsert(q),
         NEW i \in 1 .. Len(req[q].batch), i < pos'[q]
  PROVE  Handled(q, i)'
<1> USE SyncAssumption DEF BaseInv, TypeInv, TypeOK
<1>1. PICK k \in Keys, new \in Row :
         /\ req[q] \in Request /\ pos[q] \in 1 .. Len(req[q].batch)
         /\ k = ItemKey(q, pos[q]) /\ new = NewRow(q, pos[q])
         /\ new.owner = User(q) /\ new.sua = start[q]
         /\ k \in Progress => k[1] = User(q)
         /\ phase[q] = "push" /\ Free(q, k)
         /\ lock' = [lock EXCEPT ![k] = q]
         /\ writes' = IF Accepts(k, Seen(q, k), new) THEN [writes EXCEPT ![q][k] = new] ELSE writes
  BY UpsertEffect
<1>2. UNCHANGED <<rows, phase, req, start>> /\ pos' = [pos EXCEPT ![q] = @ + 1]
  BY DEF Upsert
<1>3. /\ User(q)' = User(q) /\ ItemKey(q, i)' = ItemKey(q, i) /\ ItemAt(q, i)' = ItemAt(q, i)
  BY <1>2, SameItems
<1>4. new.at = ItemAt(q, pos[q])
  BY <1>1 DEF NewRow
<1>5. i < pos[q] => Handled(q, i)
  BY <1>1 DEF PushesOK, InTx
<1>6. ItemKey(q, i) \in Keys /\ ItemAt(q, i) \in Nat
  BY <1>1, ItemTypes
<1>7. i = pos[q] \/ i < pos[q]
  BY <1>2
<1>8. Seen(q, k) \in Row \cup {NoRow}
  BY SeenType
<1>9. CASE ItemKey(q, i) # k
  <2>1. Seen(q, ItemKey(q, i))' = Seen(q, ItemKey(q, i)) /\ lock'[ItemKey(q, i)] = lock[ItemKey(q, i)]
    BY <1>1, <1>2, <1>3, <1>6, <1>9 DEF Seen
  <2>2. Handled(q, i)
    BY <1>1, <1>5, <1>7, <1>9
  <2> QED BY <1>3, <2>1, <2>2 DEF Handled
<1>10. CASE ItemKey(q, i) = k /\ Accepts(k, Seen(q, k), new)
  <2>1. Seen(q, k)' = new /\ lock'[k] = q
    BY <1>1, <1>10 DEF Seen, Row
  <2>2. ItemAt(q, i) =< new.at
    <3>1. CASE i = pos[q]
      BY <1>4, <1>6, <3>1
    <3>2. CASE i < pos[q]
      <4>1. Seen(q, k) # NoRow /\ (Seen(q, k).owner = User(q) => ItemAt(q, i) =< Seen(q, k).at)
        BY <1>5, <1>10, <3>2 DEF Handled
      <4>2. k \in Progress => Seen(q, k).owner = User(q)
        <5>1. writes[q][k] # NoRow => writes[q][k].owner = User(q)
          BY <1>1 DEF LocksOK, InTx
        <5>2. k \in Progress /\ rows[k] # NoRow => rows[k].owner = User(q)
          BY <1>1 DEF LocksOK
        <5> QED BY <4>1, <5>1, <5>2 DEF Seen
      <4>3. Seen(q, k).owner = User(q) /\ Seen(q, k).at < new.at
        BY <1>1, <1>10, <4>1, <4>2 DEF Accepts
      <4> QED BY <1>1, <1>6, <1>8, <4>1, <4>3 DEF Row
    <3> QED BY <1>7, <3>1, <3>2
  <2> QED BY <1>3, <1>10, <2>1, <2>2 DEF Handled, Row
<1>11. CASE ItemKey(q, i) = k /\ ~Accepts(k, Seen(q, k), new)
  <2>1. Seen(q, k)' = Seen(q, k) /\ lock'[k] = q
    BY <1>1, <1>2, <1>11 DEF Seen
  <2>2. Seen(q, k) # NoRow /\ (Seen(q, k).owner = User(q) => new.at =< Seen(q, k).at)
    BY <1>1, <1>8, <1>11 DEF Accepts, Row
  <2>3. Seen(q, k).owner = User(q) => ItemAt(q, i) =< Seen(q, k).at
    BY <1>4, <1>5, <1>7, <1>11, <2>2 DEF Handled
  <2> QED BY <1>3, <1>11, <2>1, <2>2, <2>3 DEF Handled
<1> QED BY <1>9, <1>10, <1>11

\* A step of another request, or one that is no statement of q's transaction,
\* leaves q's items, writes and locks, and the committed rows it locked.
LEMMA OthersKeep ==
  ASSUME BaseInv, [Next]_vars, NEW q \in Requests, phase'[q] \in InTx,
         ~Begin(q), ~Upsert(q), ~PullMarks(q), ~PullAnswers(q), ~PullProgress(q)
  PROVE  /\ phase'[q] = phase[q] /\ req'[q] = req[q] /\ start'[q] = start[q]
         /\ pos'[q] = pos[q] /\ writes'[q] = writes[q]
         /\ \A k \in Keys : lock[k] = q => lock'[k] = q /\ rows'[k] = rows[k]
<1> USE SyncAssumption DEF BaseInv, TypeInv, TypeOK
<1> DEFINE Same == /\ phase'[q] = phase[q] /\ req'[q] = req[q] /\ start'[q] = start[q]
                   /\ pos'[q] = pos[q] /\ writes'[q] = writes[q]
                   /\ \A k \in Keys : lock[k] = q => lock'[k] = q /\ rows'[k] = rows[k]
<1>1. CASE UNCHANGED vars
  BY <1>1 DEF vars
<1>2. CASE Tick
  BY <1>2 DEF Tick
<1>3. ASSUME NEW r \in Requests, NEW d \in Devices, NEW b \in Batches, Send(r, d, b)
      PROVE  Same
  <2>1. r # q
    BY <1>3 DEF Send, Goto, InTx
  <2> QED BY <1>3, <2>1 DEF Send, Goto
<1>4. ASSUME NEW r \in Requests, Lose(r) \/ Reject(r) \/ Deliver(r) \/ Fail(r)
      PROVE  Same
  <2>1. /\ \E p \in {"error", "lost", "acked"} : phase' = [phase EXCEPT ![r] = p]
        /\ UNCHANGED <<rows, req, start, pos, writes>>
        /\ lock' = lock \/ lock' = [k \in Keys |-> IF lock[k] = r THEN NoRequest ELSE lock[k]]
    BY <1>4 DEF Lose, Reject, Deliver, Fail, Goto, Unlock
  <2>2. r # q
    BY <2>1 DEF InTx
  <2> QED BY <2>1, <2>2
<1>5. ASSUME NEW r \in Requests, Begin(r) PROVE Same
  BY <1>5 DEF Begin, Goto
<1>6. ASSUME NEW r \in Requests, Upsert(r) PROVE Same
  <2>1. PICK k \in Keys, new \in Row :
          /\ Free(r, k) /\ lock' = [lock EXCEPT ![k] = r]
          /\ writes' = IF Accepts(k, Seen(r, k), new) THEN [writes EXCEPT ![r][k] = new] ELSE writes
    BY <1>6, UpsertEffect
  <2>2. UNCHANGED <<rows, phase, req, start>> /\ pos' = [pos EXCEPT ![r] = @ + 1] /\ r # q
    BY <1>6 DEF Upsert
  <2> QED BY <2>1, <2>2 DEF Free
<1>7. ASSUME NEW r \in Requests, PullMarks(r) \/ PullAnswers(r) \/ PullProgress(r) PROVE Same
  BY <1>7 DEF PullMarks, PullAnswers, PullProgress, Read, Goto
<1>8. ASSUME NEW r \in Requests, Commit(r) PROVE Same
  <2>1. /\ phase' = [phase EXCEPT ![r] = "reply"]
        /\ lock' = [k \in Keys |-> IF lock[k] = r THEN NoRequest ELSE lock[k]]
        /\ UNCHANGED <<req, start, pos, writes>>
    BY <1>8 DEF Commit, Goto, Unlock
  <2>2. r # q
    BY <2>1 DEF InTx
  <2>3. \A k \in Keys : rows'[k] = rows[k] \/ lock[k] = r
    BY <1>8, CommitEffect
  <2> QED BY <2>1, <2>2, <2>3
<1> QED
  BY <1>1, <1>2, <1>3, <1>4, <1>5, <1>6, <1>7, <1>8 DEF Next, Server, Network, AbortDeadlock

LEMMA PushesStep ==
  ASSUME BaseInv, PushesOK, [Next]_vars
  PROVE  PushesOK'
<1> USE SyncAssumption DEF BaseInv, TypeInv, TypeOK
<1> DEFINE Goal(q) ==
      /\ phase[q] # "push" => pos[q] > Len(req[q].batch)
      /\ \A i \in 1 .. Len(req[q].batch) : i < pos[q] => Handled(q, i)
      /\ \A k \in Keys : writes[q][k] # NoRow =>
           \E i \in 1 .. Len(req[q].batch) : ItemKey(q, i) = k /\ writes[q][k].at = ItemAt(q, i)
<1> SUFFICES ASSUME NEW q \in Requests, phase'[q] \in InTx PROVE Goal(q)'
  BY DEF PushesOK
<1>1. CASE Begin(q)
  <2>1. phase'[q] = "push" /\ phase[q] = "sent" /\ UNCHANGED <<pos, writes>>
    BY <1>1 DEF Begin, Goto
  <2>2. pos[q] = 1 /\ \A k \in Keys : writes[q][k] = NoRow
    BY <2>1 DEF LocksOK
  <2> QED BY <2>1, <2>2
<1>2. CASE Upsert(q)
  <2>1. PICK k \in Keys, new \in Row :
          /\ pos[q] \in 1 .. Len(req[q].batch)
          /\ k = ItemKey(q, pos[q]) /\ new = NewRow(q, pos[q]) /\ phase[q] = "push"
          /\ writes' = IF Accepts(k, Seen(q, k), new) THEN [writes EXCEPT ![q][k] = new] ELSE writes
    BY <1>2, UpsertEffect
  <2>2. UNCHANGED <<phase, req, start>>
    BY <1>2 DEF Upsert
  <2>3. \A i : ItemKey(q, i)' = ItemKey(q, i) /\ ItemAt(q, i)' = ItemAt(q, i)
    BY <2>2, SameItems
  <2>4. \A i \in 1 .. Len(req[q].batch) : i < pos'[q] => Handled(q, i)'
    BY <1>2, UpsertHandles
  <2>5. ASSUME NEW j \in Keys, writes'[q][j] # NoRow
        PROVE  \E i \in 1 .. Len(req[q].batch) : ItemKey(q, i) = j /\ writes'[q][j].at = ItemAt(q, i)
    <3>1. CASE j = k /\ writes'[q][k] = new
      BY <2>1, <3>1 DEF NewRow
    <3>2. CASE writes'[q][j] = writes[q][j]
      <4>1. writes[q][j] # NoRow /\ phase[q] \in InTx
        BY <2>1, <2>5, <3>2 DEF InTx
      <4>2. PICK i \in 1 .. Len(req[q].batch) : ItemKey(q, i) = j /\ writes[q][j].at = ItemAt(q, i)
        BY <4>1 DEF PushesOK
      <4> QED BY <3>2, <4>2
    <3> QED BY <2>1, <3>1, <3>2
  <2>6. \A j \in Keys : writes'[q][j] # NoRow =>
          \E i \in 1 .. Len(req[q].batch) : ItemKey(q, i)' = j /\ writes'[q][j].at = ItemAt(q, i)'
    BY <2>3, <2>5
  <2>7. phase'[q] = "push" /\ req'[q] = req[q]
    BY <2>1, <2>2
  <2> QED BY <2>4, <2>6, <2>7
<1>3. CASE PullMarks(q) \/ PullAnswers(q) \/ PullProgress(q)
  <2>1. /\ phase[q] \in InTx /\ UNCHANGED <<rows, lock, req, start, pos, writes>>
        /\ phase[q] = "push" => pos[q] > Len(req[q].batch)
    BY <1>3 DEF PullMarks, PullAnswers, PullProgress, Read, InTx
  <2>2. Goal(q) /\ pos[q] > Len(req[q].batch)
    BY <2>1 DEF PushesOK
  <2>3. /\ User(q)' = User(q)
        /\ \A i : ItemKey(q, i)' = ItemKey(q, i) /\ ItemAt(q, i)' = ItemAt(q, i)
    BY <2>1, SameItems
  <2>4. \A i : Handled(q, i)' = Handled(q, i)
    BY <2>1, <2>3 DEF Handled, Seen
  <2> QED BY <2>1, <2>2, <2>3, <2>4
<1>4. CASE ~Begin(q) /\ ~Upsert(q) /\ ~PullMarks(q) /\ ~PullAnswers(q) /\ ~PullProgress(q)
  <2>1. /\ phase'[q] = phase[q] /\ req'[q] = req[q] /\ start'[q] = start[q]
        /\ pos'[q] = pos[q] /\ writes'[q] = writes[q]
        /\ \A k \in Keys : lock[k] = q => lock'[k] = q /\ rows'[k] = rows[k]
    BY <1>4, OthersKeep
  <2>2. Goal(q) /\ req[q] \in Request
    BY <2>1 DEF PushesOK, SentRequests, InTx
  <2>3. /\ User(q)' = User(q)
        /\ \A i : ItemKey(q, i)' = ItemKey(q, i) /\ ItemAt(q, i)' = ItemAt(q, i)
    BY <2>1, SameItems
  <2>4. ASSUME NEW i \in 1 .. Len(req[q].batch), Handled(q, i) PROVE Handled(q, i)'
    <3>1. ItemKey(q, i) \in Keys /\ lock[ItemKey(q, i)] = q
      BY <2>2, <2>4, ItemTypes DEF Handled
    <3> QED BY <2>1, <2>3, <2>4, <3>1 DEF Handled, Seen
  <2>5. ASSUME NEW k \in Keys, writes'[q][k] # NoRow
        PROVE  \E i \in 1 .. Len(req[q].batch) : ItemKey(q, i)' = k /\ writes'[q][k].at = ItemAt(q, i)'
    <3>1. PICK i \in 1 .. Len(req[q].batch) : ItemKey(q, i) = k /\ writes[q][k].at = ItemAt(q, i)
      BY <2>1, <2>2, <2>5
    <3>2. ItemKey(q, i)' = k /\ writes'[q][k].at = ItemAt(q, i)'
      BY <2>1, <2>3, <3>1
    <3> QED BY <3>2
  <2>6. \A i \in 1 .. Len(req[q].batch) : i < pos'[q] => Handled(q, i)'
    BY <2>1, <2>2, <2>4
  <2> QED BY <2>1, <2>2, <2>5, <2>6
<1> QED BY <1>1, <1>2, <1>3, <1>4

\* The versions of a request's batch.
BatchOf(r) == Versions(User(r), req[r].batch, start[r])

\* A version's fields.
LEMMA VersionFields ==
  ASSUME TypeOK, NEW r \in Requests, req[r] \in Request, NEW v \in BatchOf(r)
  PROVE  /\ v \in Lww!Version /\ v.user = User(r)
         /\ \E i \in 1 .. Len(req[r].batch) : v.key = ItemKey(r, i) /\ v.at = ItemAt(r, i)
<1>1. PICK i \in 1 .. Len(req[r].batch) :
         v = [user |-> User(r), key |-> ItemKey(r, i), at |-> ItemAt(r, i)]
  BY DEF BatchOf, Versions, ItemKey, ItemAt
<1>2. User(r) \in Users /\ ItemKey(r, i) \in Keys /\ ItemAt(r, i) \in Nat
  BY ItemTypes
<1> QED BY <1>1, <1>2 DEF Lww!Version

\* What a commit adds to the pushed versions.
LEMMA CommitPushes ==
  ASSUME BaseInv, NEW r \in Requests, Commit(r)
  PROVE  PushedVersions' = PushedVersions \cup BatchOf(r)
<1>1. /\ phase[r] \notin Committed /\ phase' = [phase EXCEPT ![r] = "reply"]
      /\ UNCHANGED <<req, start>>
  BY DEF Commit, Goto, Committed
<1>2. \A q : BatchOf(q)' = BatchOf(q)
  BY <1>1 DEF BatchOf, User
<1>3. {q \in Requests : phase'[q] \in Committed} = {q \in Requests : phase[q] \in Committed} \cup {r}
  BY <1>1 DEF BaseInv, TypeInv, TypeOK, Committed
<1> QED BY <1>2, <1>3 DEF PushedVersions, BatchOf, User

\* Every other step leaves the rows and the pushed versions: it stutters.
LEMMA OtherStutters ==
  ASSUME BaseInv, [Next]_vars, \A r \in Requests : ~Commit(r)
  PROVE  UNCHANGED <<StoredVersions, PushedVersions>>
<1> USE DEF BaseInv, TypeInv, TypeOK
<1>1. StoredVersions' = StoredVersions
  BY RowsFrame DEF StoredVersions
<1>2. ASSUME NEW q \in Requests
      PROVE  /\ phase'[q] \in Committed <=> phase[q] \in Committed
             /\ phase[q] \in Committed => req'[q] = req[q] /\ start'[q] = start[q]
  <2>1. CASE UNCHANGED vars \/ Tick
    BY <2>1 DEF vars, Tick
  <2>2. ASSUME NEW r \in Requests, NEW d \in Devices, NEW b \in Batches, Send(r, d, b)
        PROVE  /\ phase'[q] \in Committed <=> phase[q] \in Committed
               /\ phase[q] \in Committed => req'[q] = req[q] /\ start'[q] = start[q]
    BY <2>2 DEF Send, Goto, Committed
  <2>3. ASSUME NEW r \in Requests, Lose(r) \/ Reject(r) \/ Deliver(r) \/ Fail(r)
        PROVE  /\ phase'[q] \in Committed <=> phase[q] \in Committed
               /\ req' = req /\ start' = start
    BY <2>3 DEF Lose, Reject, Deliver, Fail, Goto, Committed, InTx
  <2>4. ASSUME NEW r \in Requests, Begin(r) \/ Upsert(r)
        PROVE  /\ phase'[q] \in Committed <=> phase[q] \in Committed
               /\ phase[q] \in Committed => req'[q] = req[q] /\ start'[q] = start[q]
    BY <2>4 DEF Begin, Upsert, Goto, Committed
  <2>5. ASSUME NEW r \in Requests, PullMarks(r) \/ PullAnswers(r) \/ PullProgress(r)
        PROVE  /\ phase'[q] \in Committed <=> phase[q] \in Committed
               /\ req' = req /\ start' = start
    BY <2>5 DEF PullMarks, PullAnswers, PullProgress, Read, Goto, Committed
  <2> QED BY <2>1, <2>2, <2>3, <2>4, <2>5 DEF Next, Server, Network, AbortDeadlock
<1>3. \A q \in Requests : phase[q] \in Committed => BatchOf(q)' = BatchOf(q)
  BY <1>2 DEF BatchOf, User
<1>4. PushedVersions' = PushedVersions
  BY <1>2, <1>3 DEF PushedVersions, BatchOf, User
<1> QED BY <1>1, <1>4
\* A commit is one atomic push of the request's user.
LEMMA CommitIsPush ==
  ASSUME BaseInv, PushesOK, LastWriteWins, NEW r \in Requests, Commit(r)
  PROVE  Lww!Push(User(r))
<1> USE SyncAssumption DEF BaseInv, TypeInv, TypeOK
<1> DEFINE batch == PushedVersions' \ PushedVersions
<1>1. /\ phase[r] = "commit" /\ rows' = [k \in Keys |-> Seen(r, k)] /\ req[r] \in Request
      /\ pos[r] > Len(req[r].batch) /\ pos[r] \in Nat
  BY DEF Commit, PushesOK, InTx, SentRequests
<1>2. PushedVersions' = PushedVersions \cup BatchOf(r)
  BY CommitPushes
<1>3. \A v \in batch : v \in Lww!Version /\ v.user = User(r)
  BY <1>1, <1>2, VersionFields
<1>4. ASSUME NEW k \in Keys PROVE Lww!Merge(k, batch)
  <2> DEFINE old == rows[k]
             new == Seen(r, k)
  <2>1. /\ old \in Row \cup {NoRow} /\ new \in Row \cup {NoRow}
        /\ StoredVersions[k] = IF old = NoRow THEN NoRow ELSE [owner |-> old.owner, at |-> old.at]
        /\ StoredVersions'[k] = IF new = NoRow THEN NoRow ELSE [owner |-> new.owner, at |-> new.at]
    BY <1>1, SeenType DEF StoredVersions
  <2>2. \A v : Lww!Wins(v, k) <=> v.key = k /\ (old = NoRow \/ (old.owner = v.user /\ v.at > old.at))
    BY <2>1 DEF Lww!Wins, Row
  <2>3. ASSUME NEW v \in batch, v.key = k
        PROVE  v.at \in Nat /\ new # NoRow /\ (new.owner = User(r) => v.at =< new.at)
    <3>1. PICK i \in 1 .. Len(req[r].batch) : k = ItemKey(r, i) /\ v.at = ItemAt(r, i)
      BY <1>1, <1>2, <2>3, VersionFields
    <3>2. Handled(r, i)
      BY <1>1 DEF PushesOK, InTx
    <3> QED BY <1>1, <3>1, <3>2, ItemTypes DEF Handled
  <2>4. CASE writes[r][k] = NoRow
    <3>1. new = old
      BY <2>4 DEF Seen
    <3>2. ASSUME NEW v \in batch, Lww!Wins(v, k) PROVE FALSE
      <4>1. v.key = k /\ (old = NoRow \/ (old.owner = v.user /\ v.at > old.at))
        BY <2>2, <3>2
      <4>2. v.at \in Nat /\ old # NoRow /\ (old.owner = User(r) => v.at =< old.at)
        BY <2>3, <3>1, <4>1
      <4>3. v.user = User(r) /\ old.at \in Nat
        BY <1>3, <2>1, <4>2 DEF Row
      <4> QED BY <4>1, <4>2, <4>3
    <3> QED BY <2>1, <3>1, <3>2 DEF Lww!Merge
  <2>5. CASE writes[r][k] # NoRow
    <3>1. /\ new = writes[r][k] /\ new \in Row /\ new.owner = User(r)
          /\ old # NoRow => old.owner = User(r) /\ old.at < new.at
      BY <1>1, <2>5 DEF Seen, LocksOK, InTx
    <3>2. PICK i \in 1 .. Len(req[r].batch) : ItemKey(r, i) = k /\ new.at = ItemAt(r, i)
      BY <1>1, <2>5, <3>1 DEF PushesOK, InTx
    <3> DEFINE w == [user |-> User(r), key |-> k, at |-> new.at]
    <3>3. w \in BatchOf(r)
      BY <3>2 DEF BatchOf, Versions, ItemKey, ItemAt
    <3>4. w \notin PushedVersions
      <4>1. SUFFICES ASSUME w \in PushedVersions PROVE FALSE
        OBVIOUS
      <4>2. StoredVersions[k] # NoRow /\ (StoredVersions[k].owner = User(r) => new.at =< StoredVersions[k].at)
        BY <4>1 DEF LastWriteWins, Lww!LastWriteWins
      <4> QED BY <2>1, <3>1, <4>2 DEF Row
    <3>5. w \in batch /\ Lww!Wins(w, k)
      BY <1>2, <2>2, <3>1, <3>3, <3>4
    <3>6. \A v \in batch : Lww!Wins(v, k) => v.at =< w.at /\ v.user = User(r) /\ v.at \in Nat
      BY <1>3, <2>2, <2>3, <3>1
    <3>7. StoredVersions'[k] = [owner |-> w.user, at |-> w.at]
      BY <2>1, <3>1 DEF Row
    <3> QED BY <3>5, <3>6, <3>7 DEF Lww!Merge
  <2> QED BY <2>4, <2>5
<1>5. DOMAIN StoredVersions' = Keys
  BY DEF StoredVersions
<1> QED BY <1>2, <1>3, <1>4, <1>5 DEF Lww!Push

\* Last write wins follows from the atomic specification.
LEMMA LwwStep ==
  ASSUME BaseInv, LastWriteWins, PushedVersions \subseteq Lww!Version, NEW u \in Users, Lww!Push(u)
  PROVE  LastWriteWins' /\ PushedVersions' \subseteq Lww!Version
<1> USE DEF BaseInv, TypeInv, TypeOK
<1> DEFINE S == StoredVersions
           P == PushedVersions
           batch == P' \ P
<1>1. /\ P \subseteq P' /\ \A v \in batch : v \in Lww!Version /\ v.user = u
      /\ \A k \in Keys : Lww!Merge(k, batch)
  BY DEF Lww!Push
<1>2. P' \subseteq Lww!Version
  BY <1>1
<1>3. \A k \in Keys : S[k] # NoRow => S[k].at \in Nat /\ S[k].owner \in Users
  BY DEF StoredVersions, Row
<1>4. /\ \A v \in P : S[v.key] # NoRow /\ (S[v.key].owner = v.user => v.at =< S[v.key].at)
      /\ \A k \in Keys : S[k] # NoRow => [user |-> S[k].owner, key |-> k, at |-> S[k].at] \in P
  BY DEF LastWriteWins, Lww!LastWriteWins
<1>5. ASSUME NEW k \in Keys
      PROVE  \/ /\ \A v \in batch : ~Lww!Wins(v, k)
                /\ S'[k] = S[k]
             \/ \E best \in batch :
                  /\ Lww!Wins(best, k)
                  /\ \A v \in batch : Lww!Wins(v, k) => v.at =< best.at
                  /\ S'[k] = [owner |-> best.user, at |-> best.at]
  BY <1>1 DEF Lww!Merge
<1>6. \A v, k : Lww!Wins(v, k) <=> v.key = k /\ (S[k] = NoRow \/ (S[k].owner = v.user /\ v.at > S[k].at))
  BY DEF Lww!Wins
<1>7. \A v \in P' : v.key \in Keys /\ v.user \in Users /\ v.at \in Nat
  BY <1>2 DEF Lww!Version
<1> HIDE DEF S, P, batch
<1>8. ASSUME NEW v \in P'
      PROVE  S'[v.key] # NoRow /\ (S'[v.key].owner = v.user => v.at =< S'[v.key].at)
  <2> DEFINE k == v.key
  <2>1. CASE S'[k] = S[k] /\ \A w \in batch : ~Lww!Wins(w, k)
    <3>1. CASE v \in P
      BY <1>4, <2>1, <3>1
    <3>2. CASE v \in batch
      <4>1. S[k] # NoRow /\ (S[k].owner = v.user => ~(v.at > S[k].at))
        BY <1>6, <2>1, <3>2
      <4> QED BY <1>3, <1>7, <2>1, <4>1
    <3> QED BY <1>8, <3>1, <3>2 DEF batch
  <2>2. ASSUME NEW best \in batch, Lww!Wins(best, k),
               \A w \in batch : Lww!Wins(w, k) => w.at =< best.at,
               S'[k] = [owner |-> best.user, at |-> best.at]
        PROVE  S'[k] # NoRow /\ (S'[k].owner = v.user => v.at =< S'[k].at)
    <3>1. best \in P' /\ best.user \in Users /\ best.at \in Nat
      BY <1>7 DEF batch
    <3>2. S'[k] # NoRow
      BY <2>2, <3>1, SyncAssumption
    <3>3. CASE v \in batch
      BY <1>3, <1>6, <1>7, <1>8, <2>2, <3>1, <3>2, <3>3
    <3>4. CASE v \in P
      BY <1>3, <1>4, <1>6, <1>7, <1>8, <2>2, <3>1, <3>2, <3>4
    <3> QED BY <1>8, <3>3, <3>4 DEF batch
  <2> QED BY <1>5, <1>7, <1>8, <2>1, <2>2
<1>9. ASSUME NEW k \in Keys, S'[k] # NoRow
      PROVE  [user |-> S'[k].owner, key |-> k, at |-> S'[k].at] \in P'
  <2>1. CASE S'[k] = S[k]
    BY <1>1, <1>4, <1>9, <2>1
  <2>2. ASSUME NEW best \in batch, Lww!Wins(best, k), S'[k] = [owner |-> best.user, at |-> best.at]
        PROVE  [user |-> S'[k].owner, key |-> k, at |-> S'[k].at] \in P'
    <3>1. best \in P' /\ best.key = k /\ best \in Lww!Version
      BY <1>2, <1>6, <2>2 DEF batch, P
    <3>2. best = [user |-> best.user, key |-> k, at |-> best.at]
      BY <3>1 DEF Lww!Version
    <3> QED BY <2>2, <3>1, <3>2
  <2> QED BY <1>5, <2>1, <2>2
<1> QED BY <1>2, <1>8, <1>9 DEF LastWriteWins, Lww!LastWriteWins, S, P
LwwInv == BaseInv /\ PushesOK /\ LastWriteWins /\ PushedVersions \subseteq Lww!Version

LEMMA LwwInit == Init => LwwInv /\ Lww!Init
<1> SUFFICES ASSUME Init PROVE LwwInv /\ Lww!Init
  OBVIOUS
<1>1. BaseInv
  BY BaseInit
<1>2. PushesOK
  BY DEF Init, PushesOK, InTx
<1>3. PushedVersions = {} /\ StoredVersions = [k \in Keys |-> NoRow]
  BY DEF Init, PushedVersions, StoredVersions, Committed
<1> QED BY <1>1, <1>2, <1>3 DEF LwwInv, LastWriteWins, Lww!LastWriteWins, Lww!Init

\* A commit is a push of the abstract store; every other step stutters.
LEMMA LwwRefines ==
  ASSUME LwwInv, [Next]_vars
  PROVE  [Lww!Next]_(Lww!vars) /\ LwwInv'
<1> USE DEF LwwInv
<1>1. BaseInv' /\ PushesOK'
  BY BaseStep, PushesStep
<1>2. ASSUME NEW r \in Requests, Commit(r)
      PROVE  Lww!Next /\ LastWriteWins' /\ PushedVersions' \subseteq Lww!Version
  <2>1. Lww!Push(User(r))
    BY <1>2, CommitIsPush
  <2>2. User(r) \in Users
    BY <1>2, SyncAssumption DEF Commit, BaseInv, TypeInv, SentRequests, User, Request
  <2> QED BY <2>1, <2>2, LwwStep DEF Lww!Next
<1>3. CASE \A r \in Requests : ~Commit(r)
  <2>1. UNCHANGED <<StoredVersions, PushedVersions>>
    BY <1>3, OtherStutters
  <2>2. LastWriteWins' = LastWriteWins
    BY <2>1 DEF LastWriteWins, Lww!LastWriteWins
  <2> QED BY <1>1, <2>1, <2>2 DEF Lww!vars
<1> QED BY <1>1, <1>2, <1>3

\* The committed row of every key is the newest version its owner ever pushed,
\* over every interleaving of batches: no push is lost under a concurrent one.
THEOREM LastWriteAlwaysWins == Spec => []LastWriteWins
<1>1. Init => LwwInv
  BY LwwInit
<1>2. LwwInv /\ [Next]_vars => LwwInv'
  BY LwwRefines
<1>3. LwwInv => LastWriteWins
  BY DEF LwwInv
<1> QED BY <1>1, <1>2, <1>3, PTL DEF Spec

\* One statement per item under row locks, with READ COMMITTED snapshots,
\* implements the atomic last-write-wins store: a batch takes effect at its
\* commit, whole, and a row never changes owner nor returns to an older version.
THEOREM SyncImplementsLww == Spec => ImplementsLwwStore
<1>1. Init => LwwInv /\ Lww!Init
  BY LwwInit
<1>2. LwwInv /\ [Next]_vars => [Lww!Next]_(Lww!vars) /\ LwwInv'
  BY LwwRefines
<1> QED BY <1>1, <1>2, PTL DEF Spec, ImplementsLwwStore, Lww!Spec

\* The whole of what the code keeps true of a request halfway, in one invariant:
\* its times, locks, writes, reads and the items it has handled. As in
\* NothingMissed, what a pull may still miss depends on the length of a transaction.
THEOREM SyncInvariant ==
  ASSUME MaxTx < Overlap
  PROVE  Spec => []SyncInv
<1> DEFINE Inv == BaseInv /\ PullsOK /\ NoMissedChange /\ ReadsOK /\ PushesOK
<1>1. Init => Inv
  <2>1. Init => BaseInv
    BY BaseInit
  <2>2. Init => PullsOK /\ NoMissedChange
    BY SyncAssumption DEF Init, PullsOK, NoMissedChange, Own, Keys
  <2>3. Init => ReadsOK /\ PushesOK
    BY DEF Init, ReadsOK, PushesOK, InTx
  <2> QED BY <2>1, <2>2, <2>3
<1>2. Inv /\ [Next]_vars => Inv'
  BY BaseStep, PullsStep, NoMissedStep, ReadsStep, PushesStep
<1>3. Inv => SyncInv
  BY DEF BaseInv, TypeInv, SyncInv
<1> QED BY <1>1, <1>2, <1>3, PTL DEF Spec
=============================================================================
