------------------------------- MODULE MCFeed -------------------------------
(***************************************************************************)
(* A small instance of Feed: four items of three kinds in the fallback     *)
(* language and one in another.                                            *)
(***************************************************************************)
EXTENDS Feed

CONSTANTS sw, en, verse, school, hymn

LangsOf == <<en, en, en, en, sw>>
KindsOf == <<hymn, verse, school, hymn, verse>>
Asked   == {{}, {hymn}}
=============================================================================
