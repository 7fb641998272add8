------------------------------- MODULE MCSdBus -------------------------------
(* Arguments for the run of SdBus: 6 and 7 as in sd_bus_client.c, and two   *)
(* whose products are negative or do not fit.                               *)
EXTENDS SdBus

Arguments == {6, 7, -16}
=============================================================================
