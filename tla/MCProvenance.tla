---------------------------- MODULE MCProvenance ----------------------------
(***************************************************************************)
(* Provenance with a laptop's clone over ssh, the shallow clone a CI job   *)
(* makes with a token, a wheel unpacked into a project's environment, and  *)
(* a copy outside every work tree.                                         *)
(***************************************************************************)
EXTENDS Provenance, TLC

Machines == {"laptop", "ci", "venv", "copy"}

Kinds4 == [p \in Machines |->
  CASE p = "laptop" -> "clone" [] p = "ci" -> "shallow"
    [] p = "venv" -> "site-packages" [] p = "copy" -> "outside"]

Origins4 == [p \in Machines |->
  CASE p = "laptop" -> [scheme |-> "ssh", port |-> None, secret |-> FALSE]
    [] p = "ci" -> [scheme |-> "https", port |-> 443, secret |-> TRUE]
    [] OTHER -> [scheme |-> "none", port |-> None, secret |-> FALSE]]

Alike == Permutations(Contents) \cup Permutations(Vocabularies)
=============================================================================
