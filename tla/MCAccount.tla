----------------------------- MODULE MCAccount -----------------------------
(***************************************************************************)
(* A small instance of Account: two requests at a time, a user whose       *)
(* email, name and role change, and patches that set and clear.            *)
(***************************************************************************)
EXTENDS Account, TLC

CONSTANTS r1, r2, e1, ada, eva, member, editor, null, bad, name, church

ClaimsOf == <<[email |-> null, name |-> null, role |-> member],
              [email |-> e1, name |-> ada, role |-> editor]>>

Bodies == {name :> eva, name :> null @@ church :> ada, church :> bad}
=============================================================================
