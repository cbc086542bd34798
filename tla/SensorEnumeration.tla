------------------------- MODULE SensorEnumeration -------------------------
(***************************************************************************)
(* The sub-device half of RainPointCoordinator: which sensor keys the last *)
(* poll shows, the silent debounce and its "not reporting" Repairs card,   *)
(* and the removal count of keys their hub no longer lists, under partial  *)
(* and total device-list outages, absent statuses and pushed readings that *)
(* land between a poll's awaits.                                           *)
(***************************************************************************)
EXTENDS HubTracking

CONSTANTS
    Keys,            \* the sensor keys {hid}_{mid}_{addr}
    HubOf,           \* the hub key of each sensor key
    SilentDebounce,  \* SILENT_DEBOUNCE_POLLS
    OrphanDebounce,  \* ORPHANED_KEY_DEBOUNCE_POLLS
    SessionEnds,     \* how a session may end: "reload", "restart"
    WindowRunning    \* whether a hub outage window may be running (_hub_disconnect_since)

ASSUME EnumerationAssumption ==
    /\ HubOf \in [Keys -> Hubs]
    /\ SilentDebounce \in Nat \ {0}
    /\ OrphanDebounce \in Nat \ {0}
    /\ SessionEnds \subseteq {"reload", "restart"}
    /\ WindowRunning \subseteq BOOLEAN

VARIABLES
    account, paired, mute, stable,      \* the cloud: hubs, sub-devices, devices silent for good
    phase, listed, subs,                \* the poll under way
    dataKeys, sensors,                  \* coordinator.data: keys its hubs list, entries shown
    silent,                             \* _silent_poll_counts, 0 where there is no entry
    lastHubs, absent,                   \* _last_poll_hub_keys, _hub_absent_poll_counts
    lastKeys, orphan, aged, enumerated, \* the removal count and what it publishes
    active, cards,                      \* the silent manager's set, the issue registry
    quiet,                              \* history: polls since a key was heard
    hubRun, gonePolls                   \* history: lists without the hub, lists telling a key is gone

cloud == <<account, paired, mute, stable>>
poll  == <<phase, listed, subs>>
track == <<lastHubs, absent, lastKeys, orphan, aged, enumerated, hubRun, gonePolls>>
issues == <<active, cards>>
vars == <<cloud, poll, dataKeys, sensors, silent, track, issues, quiet>>

-----------------------------------------------------------------------------
Kept == {"reading", "stopped_reporting", "never_reported"}   \* entries of data["sensors"]
Silences == {"stopped_reporting", "never_reported"}
Children(H) == {k \in Keys : HubOf[k] \in H}

\* Counters saturate at their threshold: beyond it only a placeholder reads them.
Bump(n, limit) == IF n < limit THEN n + 1 ELSE n

TypeOK ==
    /\ account \subseteq Hubs
    /\ paired \subseteq Keys
    /\ mute \subseteq Keys
    /\ stable \in BOOLEAN
    /\ phase \in {"idle", "status"}
    /\ listed \subseteq Hubs
    /\ subs \subseteq Children(listed)
    /\ dataKeys \subseteq Keys
    /\ sensors \in [Keys -> Kept \cup {"none"}]
    /\ silent \in [Keys -> 0 .. SilentDebounce]
    /\ lastHubs \subseteq Hubs
    /\ absent \in [Hubs -> 0 .. AbsentDebounce]
    /\ lastKeys \subseteq Keys
    /\ orphan \in [Keys -> 0 .. OrphanDebounce]
    /\ aged \subseteq Keys
    /\ enumerated \subseteq Keys
    /\ active \subseteq Keys
    /\ cards \subseteq Keys
    /\ quiet \in [Keys -> 0 .. SilentDebounce]
    /\ hubRun \in [Hubs -> 0 .. AbsentDebounce + 1]
    /\ gonePolls \in [Keys -> 0 .. OrphanDebounce]

-----------------------------------------------------------------------------
(* _decode_hub_subdevices for the list <<L, S>>, with the hubs of `dark`   *)
(* absent and the keys of `heard` in the statuses that arrived.            *)

Quiet(S, dark, heard) == (S \ Children(dark)) \ heard

Counted(S, dark, heard) ==
    [k \in Keys |->
        IF k \in heard THEN 0
        ELSE IF k \in Quiet(S, dark, heard) THEN Bump(silent[k], SilentDebounce)
        ELSE silent[k]]

\* _last_seen_from_entry decides the kind of silence from the entry shown now.
Silence(k) == IF sensors[k] \in {"reading", "stopped_reporting"}
              THEN "stopped_reporting" ELSE "never_reported"

\* Mutant: what is not decoded goes on being shown.
DecodedSticks(S, dark, heard) ==
    [k \in Keys |->
        IF k \in heard THEN "reading"
        ELSE IF /\ k \in Quiet(S, dark, heard)
                /\ Counted(S, dark, heard)[k] >= SilentDebounce
             THEN Silence(k)
             ELSE sensors[k]]

Decoded(S, dark, heard) ==
    [k \in Keys |->
        IF k \in heard THEN "reading"
        ELSE IF /\ k \in Quiet(S, dark, heard)
                /\ Counted(S, dark, heard)[k] >= SilentDebounce
             THEN Silence(k)
             ELSE "none"]

-----------------------------------------------------------------------------
(* _track_orphaned_keys, run only for a non-empty list.                    *)

Gone(L) == IF L = {} THEN {} ELSE Provisional(lastHubs, absent, L)

Missing(S) == lastKeys \ S

\* Mutant: nothing is frozen.
FrozenNever(L, S) == {}

\* Mutant: frozen for as long as the hub is absent.
FrozenForEver(L, S) == Missing(S) \ Children(L)

Frozen(L, S) == Missing(S) \cap Children(Gone(L))

OrphanCounts(L, S) ==
    [k \in Keys |->
        IF k \in S THEN 0
        ELSE IF k \in Missing(S) \ Frozen(L, S) THEN Bump(orphan[k], OrphanDebounce)
        ELSE orphan[k]]

\* Mutant: a frozen key loses its verdict.
AgedOutForgetsFrozen(L, S) ==
    {k \in Missing(S) \ Frozen(L, S) : OrphanCounts(L, S)[k] >= OrphanDebounce}

\* Mutant: a verdict is never withdrawn.
AgedOutSticks(L, S) == aged \cup {k \in Missing(S) : OrphanCounts(L, S)[k] >= OrphanDebounce}

AgedOut(L, S) == {k \in Missing(S) : OrphanCounts(L, S)[k] >= OrphanDebounce}

\* A list tells that a key is gone when it carries the key's hub, or when the
\* hub has been missing for longer than its window.
HubRuns(L) == [h \in Hubs |-> IF h \in L THEN 0 ELSE Bump(hubRun[h], AbsentDebounce + 1)]

Telling(L, k) == HubOf[k] \in L \/ HubRuns(L)[HubOf[k]] > AbsentDebounce

TrackLists(L, S) ==
    /\ lastHubs' = Remembered(lastHubs, absent, L)
    /\ absent' = AbsentCounts(lastHubs, absent, L)
    /\ lastKeys' = S \cup Missing(S)
    /\ orphan' = OrphanCounts(L, S)
    /\ aged' = AgedOut(L, S)
    /\ enumerated' = S
    /\ hubRun' = HubRuns(L)
    /\ gonePolls' = [k \in Keys |->
          IF k \in S THEN 0
          ELSE IF k \in lastKeys /\ Telling(L, k) THEN Bump(gonePolls[k], OrphanDebounce)
          ELSE gonePolls[k]]

-----------------------------------------------------------------------------
(* _prune_silent_state and _sync_silent_device_issues.                     *)

Protected(L, count) == {k \in Children(Gone(L)) : count[k] > 0}

\* Mutant: a hidden hub's keys lose their count.
PrunedHidden(L, S, count) == [k \in Keys |-> IF k \in S THEN count[k] ELSE 0]

\* Mutant: pruned against what is shown instead of what is listed.
PrunedUnshown(L, S, count) ==
    [k \in Keys |->
        IF (k \in S /\ sensors[k] # "none") \/ k \in Protected(L, count) THEN count[k] ELSE 0]

Pruned(L, S, count) ==
    [k \in Keys |-> IF k \in S \cup Protected(L, count) THEN count[k] ELSE 0]

\* Mutant: an absent status does not suppress the clear.
UnreachableByGap(L, S, dark, count) == Protected(L, count)

\* Mutant: no card goes with its device.
UnreachableUnlisted(L, S, dark, count) == (active \ S) \cup (S \cap Children(dark))

Unreachable(L, S, dark, count) == (S \cap Children(dark)) \cup Protected(L, count)

SilentRecords(shown) == {k \in Keys : shown[k] \in Silences}

\* Mutant: only the cards this session remembers are cleared.
SyncIssuesIfActive(raise, clear, hold) ==
    LET cleared == active \ (raise \cup hold)
    IN  /\ active' = (active \ cleared) \cup raise
        /\ cards' = (cards \ cleared) \cup (raise \ active)

\* RainPointSilentDeviceIssues.async_sync
SyncIssues(raise, clear, hold) ==
    LET cleared == clear \cup (active \ (raise \cup clear \cup hold))
    IN  /\ active' = (active \ cleared) \cup raise
        /\ cards' = (cards \ cleared) \cup (raise \ active)

Reconcile(L, S, dark, heard) ==
    LET count == Counted(S, dark, heard)
    IN  /\ IF L = {} THEN UNCHANGED track ELSE TrackLists(L, S)
        /\ silent' = Pruned(L, S, count)
        /\ SyncIssues(SilentRecords(Decoded(S, dark, heard)), heard,
                      Unreachable(L, S, dark, count))

Tracking(window) == window \/ \E k \in Keys : silent[k] > 0

\* The synchronous tail of a poll.
Finish(L, S, dark, heard) ==
    /\ \E window \in WindowRunning :
          IF L # {} \/ ~Tracking(window)
          THEN Reconcile(L, S, dark, heard)
          ELSE UNCHANGED <<silent, track, issues>>
    /\ sensors' = Decoded(S, dark, heard)
    /\ dataKeys' = S
    /\ quiet' = [k \in Keys |-> IF k \in heard THEN 0 ELSE Bump(quiet[k], SilentDebounce)]
    /\ phase' = "idle"
    /\ listed' = {}
    /\ subs' = {}
    /\ UNCHANGED cloud

-----------------------------------------------------------------------------
(* The actions.                                                            *)

Init ==
    /\ account = Hubs
    /\ paired = Keys
    /\ mute = {}
    /\ stable = FALSE
    /\ phase = "idle"
    /\ listed = {}
    /\ subs = {}
    /\ dataKeys = {}
    /\ sensors = [k \in Keys |-> "none"]
    /\ silent = [k \in Keys |-> 0]
    /\ lastHubs = {}
    /\ absent = [h \in Hubs |-> 0]
    /\ lastKeys = {}
    /\ orphan = [k \in Keys |-> 0]
    /\ aged = {}
    /\ enumerated = {}
    /\ active = {}
    /\ cards = {}
    /\ quiet = [k \in Keys |-> 0]
    /\ hubRun = [h \in Hubs |-> 0]
    /\ gonePolls = [k \in Keys |-> 0]

\* The device list arrives; an outage hides any of the hubs, and a degraded
\* record hides any of the sub-devices of a hub that is listed.
PollList ==
    /\ phase = "idle"
    /\ \E L \in SUBSET account : \E S \in SUBSET (paired \cap Children(L)) :
          /\ stable => L = account /\ S = paired \cap Children(L)
          /\ IF L = {}
             THEN Finish({}, {}, {}, {})
             ELSE /\ phase' = "status"
                  /\ listed' = L
                  /\ subs' = S
                  /\ UNCHANGED <<cloud, dataKeys, sensors, silent, track, issues, quiet>>

\* The statuses arrive and the tail runs: `dark` hubs answered with an error.
PollTail ==
    /\ phase = "status"
    /\ \E dark \in SUBSET listed :
          LET able == (subs \ Children(dark)) \ mute
          IN  \E heard \in SUBSET able :
                /\ stable => dark = {} /\ heard = able
                /\ Finish(listed, subs, dark, heard)

PollFails ==
    /\ phase = "status"
    /\ ~stable
    /\ phase' = "idle"
    /\ listed' = {}
    /\ subs' = {}
    /\ UNCHANGED <<cloud, dataKeys, sensors, silent, track, issues, quiet>>

\* Mutant: a pushed reading leaves the debounce counter as it was.
PushKeepsCount(k) ==
    /\ k \in dataKeys \ mute
    /\ sensors' = [sensors EXCEPT ![k] = "reading"]
    /\ active' = active \ {k}
    /\ cards' = cards \ {k}
    /\ quiet' = [quiet EXCEPT ![k] = 0]
    /\ UNCHANGED <<cloud, poll, dataKeys, silent, track>>

\* apply_push_update, past its drops.
PushReading(k) ==
    /\ k \in dataKeys \ mute
    /\ sensors' = [sensors EXCEPT ![k] = "reading"]
    /\ silent' = [silent EXCEPT ![k] = 0]
    /\ active' = active \ {k}
    /\ cards' = cards \ {k}
    /\ quiet' = [quiet EXCEPT ![k] = 0]
    /\ UNCHANGED <<cloud, poll, dataKeys, track>>

NewSession(end) ==
    /\ ~stable
    /\ phase' = "idle"
    /\ listed' = {}
    /\ subs' = {}
    /\ dataKeys' = {}
    /\ sensors' = [k \in Keys |-> "none"]
    /\ silent' = [k \in Keys |-> 0]
    /\ lastHubs' = {}
    /\ absent' = [h \in Hubs |-> 0]
    /\ lastKeys' = {}
    /\ orphan' = [k \in Keys |-> 0]
    /\ aged' = {}
    /\ enumerated' = {}
    /\ active' = {}
    /\ cards' = IF end = "reload" THEN cards ELSE {}
    /\ quiet' = [k \in Keys |-> 0]
    /\ hubRun' = [h \in Hubs |-> 0]
    /\ gonePolls' = [k \in Keys |-> 0]
    /\ UNCHANGED cloud

-----------------------------------------------------------------------------
(* The environment.                                                        *)

DeviceChanges(k) ==
    /\ ~stable
    /\ paired' \in {paired \cup {k}, paired \ {k}}
    /\ UNCHANGED <<account, mute, stable, poll, dataKeys, sensors, silent, track, issues, quiet>>

HubChanges(h) ==
    /\ ~stable
    /\ account' \in {account \cup {h}, account \ {h}}
    /\ UNCHANGED <<paired, mute, stable, poll, dataKeys, sensors, silent, track, issues, quiet>>

\* From here on the cloud answers in full, the session is left alone, and the
\* devices that have gone silent stay silent.
Stabilise ==
    /\ ~stable
    /\ stable' = TRUE
    /\ mute' \in SUBSET Keys
    /\ UNCHANGED <<account, paired, poll, dataKeys, sensors, silent, track, issues, quiet>>

Poll == PollList \/ PollTail

Next ==
    \/ Poll
    \/ PollFails
    \/ \E k \in dataKeys : PushReading(k)
    \/ \E end \in SessionEnds : NewSession(end)
    \/ \E k \in Keys : DeviceChanges(k)
    \/ \E h \in Hubs : HubChanges(h)
    \/ Stabilise

Spec == Init /\ [][Next]_vars

\* The 120 s timer keeps polling and outages end.
FairSpec == Spec /\ WF_vars(Poll) /\ WF_vars(Stabilise)

-----------------------------------------------------------------------------
(* Safety.                                                                 *)

Shown == {k \in Keys : sensors[k] # "none"}

\* A card this session raised stands only over a key whose debounce is full:
\* no path that resets or drops the counter (a reading, a push, a departure)
\* leaves the card behind, and no outage wears the counter down under it.
CardMeansSilent == \A k \in active : silent[k] = SilentDebounce

\* Nothing heard from the device in the last SilentDebounce polls, by either
\* channel, whatever outages and failed polls came in between.
CardNeedsQuiet == \A k \in active : quiet[k] = SilentDebounce

\* No reading is shown under a "not reporting" card, even one that an earlier
\* session raised.
NoCardOverReading == \A k \in cards : sensors[k] # "reading"

\* A card goes with its device: none of this session's stands once a list has
\* told that the key is gone.
NoCardForDepartedKey == \A k \in active : gonePolls[k] = 0

\* A card goes only when the device is heard or told to be gone: no outage of
\* the list, the status or the whole poll takes a valid card away.
OutageKeepsCards ==
    [][\A k \in active \ active' :
          \/ sensors'[k] = "reading"
          \/ gonePolls'[k] > 0
          \/ lastHubs' = {}]_vars      \* a new session

\* A key is offered for removal when OrphanDebounce lists have told that it is
\* gone, and neither earlier nor later: total outages, gaps of the hub and
\* failed polls neither count nor reset.
AgedExactlyWhenTold == aged = {k \in lastKeys : gonePolls[k] = OrphanDebounce}

\* What is offered for removal is never listed, shown or able to take a push.
AgedKeysAreGone == aged \cap (enumerated \cup dataKeys \cup Shown) = {}

\* While a hub is hidden inside its window nothing is decided about its keys.
GapFreezesChildren ==
    [][\A k \in Keys :
          HubOf[k] \in lastHubs' /\ hubRun'[HubOf[k]] > 0 =>
              /\ silent'[k] = silent[k]
              /\ orphan'[k] = orphan[k]
              /\ k \in active' <=> k \in active
              /\ k \in aged' <=> k \in aged]_vars

-----------------------------------------------------------------------------
(* What is published of a key, to the removal flow and to the platforms.   *)

ListedAs(k) == IF lastHubs = {} THEN "unknown" ELSE IF k \in enumerated THEN "yes" ELSE "no"

ShownAs(k) == IF sensors[k] = "reading" THEN "reading"
              ELSE IF sensors[k] \in Silences THEN "silent" ELSE "absent"

Key(k) == INSTANCE PublishedKey
          WITH listed <- ListedAs(k), aged <- k \in aged, sensor <- ShownAs(k)

\* Of each key the coordinator publishes what LeftoverRemoval relies on: a
\* verdict comes after two lists without the key and stays until one with it,
\* what is shown is listed, and an outage changes neither list nor verdict.
KeysArePublished ==
    /\ \A k \in Keys : Key(k)!Init
    /\ [][\A k \in Keys : [Key(k)!Next]_(Key(k)!published)]_vars

-----------------------------------------------------------------------------
(* Liveness, once the cloud answers in full.                               *)

Listed(k) == stable /\ HubOf[k] \in account /\ k \in paired

\* A device that stays mute gets its card.
SilenceIsReported == \A k \in Keys : Listed(k) /\ k \in mute ~> k \in active

\* A device that reports again loses its card, whichever session raised it.
RecoveryIsCleared == \A k \in Keys : Listed(k) /\ k \notin mute ~> k \notin cards

\* A key that has left is offered for removal, unless the account lists no
\* hub at all: a list that stays empty is taken for an outage for ever.
DepartureIsOffered ==
    \A k \in Keys :
        stable /\ account # {} /\ k \in lastKeys /\ (k \notin paired \/ HubOf[k] \notin account)
            ~> k \in aged

=============================================================================
