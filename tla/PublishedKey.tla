---------------------------- MODULE PublishedKey ----------------------------
(***************************************************************************)
(* What the coordinator publishes about one sensor key, and the only way   *)
(* that may change: the boundary between the polls that count and the      *)
(* removal flow that deletes.  SensorEnumeration implements it for each of *)
(* its keys; LeftoverRemoval reads the coordinator through it and through  *)
(* nothing else.                                                           *)
(***************************************************************************)

VARIABLES
    listed,    \* enumerated_sensor_keys(): "unknown" (None) until a first list, then "yes", "no"
    aged,      \* aged_out_sensor_keys() holds the key
    sensor     \* data["sensors"] for the key: "reading", "silent" or "absent"

published == <<listed, aged, sensor>>

\* Nothing is published before the first list of a session.
Init ==
    /\ listed = "unknown"
    /\ aged = FALSE
    /\ sensor = "absent"

\* A list carries the key, or a reading is pushed for it.  No device is silent
\* on the first list of a session: the debounce is longer than one poll.
Carried ==
    /\ listed' = "yes"
    /\ aged' = FALSE
    /\ sensor' \in {"reading", "absent"} \cup (IF listed = "unknown" THEN {} ELSE {"silent"})

\* A list leaves the key out.  It ages out at the earliest on a second one, and
\* stays so for as long as it is left out.
LeftOut ==
    /\ listed' = "no"
    /\ aged' \in {aged, aged \/ listed = "no"}
    /\ sensor' = "absent"

\* The account lists no hub: an outage, which tells nothing about the key.
NoList ==
    /\ sensor' = "absent"
    /\ UNCHANGED <<listed, aged>>

Update == Carried \/ LeftOut \/ NoList

\* The session ends.
Forgotten ==
    /\ listed' = "unknown"
    /\ aged' = FALSE
    /\ sensor' = "absent"

Next == Update \/ Forgotten

Spec == Init /\ [][Next]_published

=============================================================================
