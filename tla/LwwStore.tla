------------------------------ MODULE LwwStore ------------------------------
(***************************************************************************)
(* What POST /v1/sync promises about the stored marks, answers and         *)
(* progress ("last-write-wins on the client's updated_at", db/queries/     *)
(* sync.sql): a push of one user's batch is one atomic step, a row is      *)
(* created by the first push of its key, it belongs to that user for ever, *)
(* and its version is the latest one its owner ever pushed.                *)
(*                                                                         *)
(* `pushed` is the set of versions the accepted pushes carried. Pushing a  *)
(* version a second time changes nothing, so a step is described by the    *)
(* versions it adds to that set.                                           *)
(***************************************************************************)
EXTENDS Naturals

CONSTANTS Users, Keys, NoRow

VARIABLES store,  \* the rows a new transaction reads
          pushed  \* every version of every accepted push

vars == <<store, pushed>>

Version == [user : Users, key : Keys, at : Nat]

Init ==
  /\ store = [k \in Keys |-> NoRow]
  /\ pushed = {}

\* A version replaces the row it finds when it is newer and from the same owner.
Wins(v, k) ==
  /\ v.key = k
  /\ \/ store[k] = NoRow
     \/ store[k].owner = v.user /\ v.at > store[k].at

\* The row of key k after the versions of one user's batch: the newest winner.
Merge(k, batch) ==
  \/ /\ \A v \in batch : ~Wins(v, k)
     /\ store'[k] = store[k]
  \/ \E best \in batch :
       /\ Wins(best, k)
       /\ \A v \in batch : Wins(v, k) => v.at =< best.at
       /\ store'[k] = [owner |-> best.user, at |-> best.at]

Push(u) ==
  LET batch == pushed' \ pushed
  IN  /\ pushed \subseteq pushed'
      /\ \A v \in batch : v \in Version /\ v.user = u
      /\ DOMAIN store' = Keys
      /\ \A k \in Keys : Merge(k, batch)

Next == \E u \in Users : Push(u)

Spec == Init /\ [][Next]_vars

-----------------------------------------------------------------------------
\* Last write wins: the row of a key carries the newest version its owner
\* pushed, and no push is lost without a row that stands in its place.
LastWriteWins ==
  /\ \A v \in pushed : /\ store[v.key] # NoRow
                       /\ store[v.key].owner = v.user => v.at =< store[v.key].at
  /\ \A k \in Keys : store[k] # NoRow =>
       [user |-> store[k].owner, key |-> k, at |-> store[k].at] \in pushed
=============================================================================
