--------------------------- MODULE MCRestService ---------------------------
(***************************************************************************)
(* Small instances of RestService for TLC.                                 *)
(***************************************************************************)
EXTENDS RestService, TLC

RestSymmetry == Permutations(Services) \cup Permutations(Asks)
=============================================================================
