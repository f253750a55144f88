------------------------------ MODULE MCDeploy ------------------------------
(* Two deploys onto a server with or without a release. d1 brings a          *)
(* migration and does not start; d2 brings one more.                        *)
EXTENDS Deploy

CONSTANTS d1, d2, r0

MCSchemaOf == (r0 :> 1) @@ (d1 :> 2) @@ (d2 :> 3)
MCStarts == {r0, d2}
=============================================================================
