------------------------------- MODULE MCSync -------------------------------
(***************************************************************************)
(* Small instances of Sync.                                                *)
(***************************************************************************)
EXTENDS Sync, TLC

CONSTANTS u1, u2, d1, d2, m1, m2, a1, t1

SameUser == d1 :> u1 @@ d2 :> u1
TwoUsers == d1 :> u1 @@ d2 :> u2

It(id, t) == [id |-> id, at |-> t]

\* MCSync_Lww: edits that race on marks both users know, in opposite orders,
\* one of them from a clock far ahead; a batch the validation refuses, and one
\* that is too long.
Invalid     == <<It(m1, 3)>>
RaceBatches == {<<It(m1, 1), It(m2, 1)>>, <<It(m2, 9), It(m1, 2)>>, Invalid,
                <<It(m1, 1), It(m1, 2), It(m1, 3)>>}
OneInvalid  == {Invalid}

\* MCSync_Pull: a sync that only pulls, and two versions of a progress row.
PullBatches == {<<>>, <<It(t1, 1)>>, <<It(t1, 2)>>}

NoBatch  == {}
Symmetry == Permutations(Requests)
=============================================================================
