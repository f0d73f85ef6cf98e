---------------------------- MODULE MCItemStore ----------------------------
(***************************************************************************)
(* ItemStore and ItemStoreLog for TLC.                                     *)
(***************************************************************************)
EXTENDS ItemStoreLog

=============================================================================
