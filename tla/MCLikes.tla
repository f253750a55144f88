------------------------------- MODULE MCLikes -------------------------------
(***************************************************************************)
(* Small instances of Likes.                                               *)
(***************************************************************************)
EXTENDS Likes, TLC

CONSTANTS u1, u2, d1, l1, l2

OneDevice  == d1 :> u1
OneLock(u) == l1
OwnLock(u) == IF u = u1 THEN l1 ELSE l2

NoDevices == {}
NoUserOf  == <<>>
Symmetry  == Permutations(Calls) \cup Permutations(Marks)
=============================================================================
