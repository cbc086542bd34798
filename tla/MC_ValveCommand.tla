-------------------------- MODULE MC_ValveCommand --------------------------
(***************************************************************************)
(* ValveCommand on small instances; the cfgs give the constants.           *)
(***************************************************************************)
EXTENDS ValveCommand

CONSTANTS z1, z2

=============================================================================
