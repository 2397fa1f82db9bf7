-------------------------------- MODULE PyNone --------------------------------
(***************************************************************************)
(* Python's None, one for all modules that are used together.              *)
(***************************************************************************)
CONSTANT None
=============================================================================
