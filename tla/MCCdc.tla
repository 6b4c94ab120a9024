-------------------------------- MODULE MCCdc --------------------------------
(***************************************************************************)
(* Cdc on two claims with two states each: enough for an insert, an       *)
(* update, a delete and an insert again to land in every order and mixture.*)
(***************************************************************************)
EXTENDS Cdc

Claims  == {"clm-1", "clm-2"}
States  == {"open", "settled"}
=============================================================================
