-------------------------- MODULE MCEraseProtocol --------------------------
(***************************************************************************)
(* EraseProtocol for TLC: two intervals, so that the interval may be set   *)
(* and set back while samples are deleted.                                 *)
(***************************************************************************)
EXTENDS EraseProtocol

CONSTANTS short, long

MCInterval == {short, long}

=============================================================================
