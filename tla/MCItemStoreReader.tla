------------------------- MODULE MCItemStoreReader -------------------------
(***************************************************************************)
(* ItemStoreReader for TLC: every start index of interest for a store of   *)
(* three pages with two items each.                                        *)
(***************************************************************************)
EXTENDS ItemStoreReader

MCStartIndex == -4 .. 5

=============================================================================
