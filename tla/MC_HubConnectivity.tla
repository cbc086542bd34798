------------------------ MODULE MC_HubConnectivity ------------------------
(* Values for the constants of HubConnectivity that a cfg cannot write.    *)
EXTENDS HubConnectivity

CONSTANTS a1, a2, m1, m2

\* One hub per mid.
MidPlain == [h \in Hubs |-> IF h = a1 THEN m1 ELSE m2]

=============================================================================
