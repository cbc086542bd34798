---------------------------- MODULE HubTracking ----------------------------
(***************************************************************************)
(* The provisional-absence window of the coordinator: which hubs of the    *)
(* last trusted device list are treated as hidden by an outage, and which  *)
(* are released as really gone (`_track_missing_hubs`).                    *)
(*                                                                         *)
(* Constant operators only: the coordinator's two Repairs surfaces use the *)
(* same memory, `last` for `_last_poll_hub_keys` and `counts` for          *)
(* `_hub_absent_poll_counts` (0 where the code's dict has no entry).       *)
(***************************************************************************)
EXTENDS Integers

CONSTANTS
    Hubs,            \* every (hid, mid) key a top-level device record can have
    AbsentDebounce   \* HUB_ABSENT_DEBOUNCE_POLLS

ASSUME AbsentDebounceAssumption == AbsentDebounce \in Nat

\* The hubs still inside their window after a non-empty list `listed`.
Provisional(last, counts, listed) ==
    {h \in last \ listed : counts[h] + 1 <= AbsentDebounce}

\* A hub that is back, or that is released, loses its counter.
AbsentCounts(last, counts, listed) ==
    [h \in Hubs |->
        IF h \in Provisional(last, counts, listed) THEN counts[h] + 1
        ELSE IF h \in listed \cup last THEN 0
        ELSE counts[h]]

Remembered(last, counts, listed) ==
    listed \cup Provisional(last, counts, listed)

=============================================================================
