------------------------------ MODULE TextStore ------------------------------
(***************************************************************************)
(* What `ingest bible` promises (cmd/ingest/main.go): the text of a         *)
(* translation changes only as a whole, in one step that also counts the    *)
(* version up and records the archive it came from.                        *)
(***************************************************************************)
EXTENDS Naturals

CONSTANTS Codes, Archives, TextOf(_), NoArchive

VARIABLES text, version, source

vars == <<text, version, source>>

Init ==
  /\ text = [c \in Codes |-> {}]
  /\ version = [c \in Codes |-> 0]
  /\ source = [c \in Codes |-> NoArchive]

(* The archive of an import is known by what it leaves in source. *)
Replace(c) ==
  LET a == source'[c]
  IN  /\ a \in Archives
      /\ source' = [source EXCEPT ![c] = a]
      /\ text' = [text EXCEPT ![c] = TextOf(a)]
      /\ version' = [version EXCEPT ![c] = @ + 1]

Next == \E c \in Codes : Replace(c)

Spec == Init /\ [][Next]_vars
=============================================================================
