--------------------------- MODULE MCTimerServer ---------------------------
(***************************************************************************)
(* The readout of the sensor and its busy time, by the task, and the       *)
(* button.                                                                 *)
(***************************************************************************)
EXTENDS TimerServer

MCModesOf == <<"REPEATED", "SINGLE_SHOT", "REPEATED">>

MCModes == [id \in 0 .. 2 |-> {MCModesOf[id + 1]}]
=============================================================================
