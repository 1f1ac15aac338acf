--------------------------- MODULE MC_StateStore ---------------------------
(***************************************************************************)
(* Instances of StateStore for TLC: four step names against the code's    *)
(* cap of three backups, so that rotation has a file to remove.           *)
(***************************************************************************)
EXTENDS StateStore

=============================================================================
