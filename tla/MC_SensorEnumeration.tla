----------------------- MODULE MC_SensorEnumeration -----------------------
(* Values for the constants of SensorEnumeration that a cfg cannot write.  *)
EXTENDS SensorEnumeration

CONSTANTS a1, a2, k1

\* The first hub carries the keys.
OnHub == [k \in Keys |-> a1]

=============================================================================
