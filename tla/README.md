# RainPoint for Home Assistant: a TLA+ model

`src/custom_components/rainpoint` is a Home Assistant integration. A coordinator polls the
RainPoint cloud every 120 s, merges readings that an MQTT client pushes in between, and decides
from what it saw and did not see which Repairs cards the owner is shown and which entities may
be deleted. Everything runs on one event loop, so a step runs to its next `await`; the hard part
is what happens across awaits, across polls, across outages of each endpoint, and across the
sessions that a reload or a restart separates.

## The system's parts

| part | state | operations | properties that make it correct |
|---|---|---|---|
| Provisional absence (`coordinator.py`, `_track_missing_hubs`) | `_last_poll_hub_keys`, `_hub_absent_poll_counts` | one call per non-empty device list | a hub that vanishes is held for `HUB_ABSENT_DEBOUNCE_POLLS` lists, then released; an empty list counts for nothing |
| Hub connectivity (`coordinator.py`) | `data["hub_connectivity"]`, `_hub_disconnect_since` | poll tail, pushed edge, prune, window start | records never go back in time; a window belongs to an outage; a card rests on evidence |
| Hub card (`repairs.py`, `RainPointHubConnectivityIssues`) | `_active`, the issue registry | `async_sync`, `async_clear` | no card over a connected hub, none lost in an outage, none left behind |
| Sub-device enumeration (`coordinator.py`) | `_silent_poll_counts`, `data["sensors"]`, `_last_poll_sensor_keys`, `_orphaned_key_poll_counts`, `_aged_out_sensor_keys`, `_last_enumerated_sensor_keys` | decode, silent debounce, prune, orphan count, pushed reading | an outage is not evidence; silence is reported; a departed key is offered exactly when enough lists said so |
| Not-reporting card (`repairs.py`, `RainPointSilentDeviceIssues`) | `_active`, the issue registry | `async_sync`, `async_clear` | no card over a reading, none over a departed device |
| Leftover entities: card and removal (`repairs.py`, `__init__.py`) | cards, offered pairs, the adders' ledgers, registry rows | sync on every update, withdraw, fix flow, `_remove_orphaned_key_rows` | only rows that were offered, and whose device is still unlisted, are deleted; what is deleted can come back |
| Valve commands (`valve.py`, `coordinator.py`) | `_last_valve_command_at`, zones in `data["sensors"]` | command, its reply, stale-poll guard | a poll in flight does not revert a command; a later one is not held for ever |
| Optimistic switches and selects (`hub_entities.py`, `select.py`) | a pending override | write, coordinator update | the override ends at a poll, never at a push |
| Duration setpoints (`number.py`) | the stored value | restore, set | refused while the zone runs |
| Hub identity migration (`__init__.py`) | entry version, entity rows, device rows | `async_migrate_entry`, `_complete_hub_identity_rekey` | a crash between the halves is finished by a later start; no two hubs are merged |
| Push watchdog (`repairs.py`) | `_dead_since`, `_issue_active` | periodic check, recovery | a card after sustained failure only, held while polls fail too |
| Setup, unload, reload, tokens (`__init__.py`) | the entry, `hass.data` | setup steps, token callback, services | nothing of an old session acts on the new one |
| Late adders (`entity.py` and the platforms) | add-once set and ledger per platform | collect, forget | an entity is added once, and again after its removal was confirmed |
| Generic entities and controls (`generic_entities.py`, `generic_control.py`) | probe store, consent stamp, notices | gates, commands, notices | a control appears only under consent; a notice once |
| Firmware updates, diagnostics, config flow, device records | none shared | reads and forms | - |

The coordinator calls the card managers synchronously from the poll's tail and from the
pushed updates. The cards and the removal flow read what it publishes (`data`,
`aged_out_sensor_keys`, `enumerated_sensor_keys`). Setup runs the migration, the first refresh, the
residual re-key, the sweep of controls without consent and then the platforms, in this order. The
API client, the MQTT client and the payload decoders are an external package: in the models they
are the environment.

What is hard here: pushes that land between a poll's awaits; frames and status views that are
late, lost, repeated or reordered; three different outages (the whole list, part of the list, one
hub's status) that must count as no evidence at all; counters with two different threshold
comparisons; wall-clock windows that run while nobody looks; a registry that may refuse a call;
cards that outlive the objects that raised them; registries and a
config entry that reach the disk on timers of their own; consent that is given in one session and
acted on in another. `PROJECT.json` lists each with its line.

## The modules

**`HubTracking`** holds the provisional-absence window as constant operators: `last` is
`_last_poll_hub_keys`, `counts[h]` is `_hub_absent_poll_counts` (0 where the dict has no entry).
The two models below that poll whole lists, `HubConnectivity` and `SensorEnumeration`, keep these two as their variables `lastHubs` and `absent`.

**`HubConnectivity`** is the hub half of the coordinator with its card manager.

| variable | code |
|---|---|
| `phase`, `listed`, `reply` | the local variables of one `_async_update_data`: idle, or awaiting statuses for the hubs listed |
| `dataHubs`, `conn` | `data["hubs"]` and `data["hub_connectivity"]` |
| `since` | `_hub_disconnect_since` |
| `active`, `cards` | the manager's `_active`; the issue registry |
| `account`, `truth`, `view`, `frames`, `now`, `stable` | the cloud: who is paired, the flag it knows, what its REST endpoint serves, frames under way, the clock, "outages have ended" |
| `omitted`, `stuck`, `drops`, `backAt` | history variables that only properties read: lists in a row without the hub, refused deletions, every moment at which the cloud lost the hub, the reconnect last shown |

A poll is three kinds of step: `PollList` (an outage shows any subset of the account),
`FetchStatus` per hub (the reply, an absent status, an unusable entry, or an entry whose time is
missing), and `PollTail`. The tail is one atomic step because the code has no await there:
`prior_connectivity` is read after the last one. `PushHub` may run between any two of them.
`PollFails` writes nothing, as `UpdateFailed` does. `NewSession` builds a new coordinator; a
reload keeps the registry's cards, a restart loses them (they are not persistent). `SyncIssues`
may have any registry call of a `Faulty` hub refused. A hub whose key is not in `RealHubs` is the
Bluetooth wrapper record: it is tracked for absence and has no connection.

**`SensorEnumeration`** is the sub-device half: `silent`, `orphan`, `aged`, `enumerated`,
`lastKeys`, `sensors` are the coordinator's fields; `PollTail` chooses which hubs were absent and
which devices the statuses mention, and runs decode, tracking, pruning and the card sync in the
code's order. `mute` are devices that have gone silent for good, chosen by the environment.

**`ValveCommand`** is one irrigation device while its zones, or stations, are commanded.

| variable | code |
|---|---|
| `entry`, `known`, `shown` | `data["sensors"][key]`: what kind of entry it is, which zones its record names, and what it says of each |
| `recorded` | `_last_valve_command_at`, per zone |
| `command` | the local state of one `async_open_valve` or `async_close_valve` per zone: not running, awaiting a device that has yet to act, awaiting a reply that is already composed |
| `phase`, `polled` | the poll under way and the status it has read |
| `framing` | which of the three entity classes the device has |
| `device`, `view`, `now`, `calm` | the device, the report the cloud still serves, the clock, "disturbances have ended" |
| `answered` | history: as of which moment the zone's last reply spoke |

`Send` is the command up to its await, `Reply` everything after it (`_record_successful_command`,
then `_apply_response_state`), `CommandFails` an exception out of the await, whether or not the
device has acted. `PollFetch` reads the status, `PollTail` decodes it against the data as it is
by then, and `Push` takes the same path, as the code's shared `_decode_one_subdevice` does. `Held`
is both guards: per commanded zone for a valve hub, the whole record for the station controller.

**`LeftoverRemoval`** is the one path that deletes: one sub-device, the rows its entities have in
the registry, and the card, dialog and executor that take them away.

| variable | code |
|---|---|
| `rows`, `deviceRow` | the device's rows in the entity registry (every `(domain, unique_id)` pair), its row in the device registry |
| `live` | the rows an entity object holds |
| `session`, `started` | the entry: not loaded, loaded, removed; the platforms whose adder is registered |
| `view` | the key in `enumerated_sensor_keys`, `aged_out_sensor_keys` and `data["sensors"]` |
| `ledger`, `marks` | what the late adders remember: rows emitted, and (sensor platform) kinds of record collected |
| `counts` | the window of each row, in coordinator updates |
| `active`, `published`, `card` | `RainPointOrphanedEntityIssues._active` and its published records; the issue registry |
| `dialog` | the open fix flow with the offer it took when it was shown |
| `refused`, `idle`, `seen` | history |

`UpdateWith` is a coordinator update: the sweep's listener (`_sync_orphaned_entity_issues`), then
the adders'. `Submit` is `async_step_confirm` with the executor `_remove_orphaned_key_rows`, for
both shapes of the card: "departed" (the key has aged out) and "leftover" (the device reports, the
row has had nothing behind it for a whole window). Any registry read or call in it may fail.
`Unload`, `Restart` and `RemoveEntry` end a session in their three ways.

**`ConsentedRemoval`** is the abstract specification of that flow in four actions: propose, show,
confirm, leave. `LeftoverRemoval` implements it: `card` is the proposal, `dialog` what is shown,
and what may be taken at a moment is `Takable`. The property `ConsentKept` is the refinement.

**`PublishedKey`** is the boundary between the two halves of the integration: what the
coordinator publishes about one sensor key (`enumerated_sensor_keys`, `aged_out_sensor_keys`,
`data["sensors"]`) and how that may change from one update to the next. `SensorEnumeration`
implements it for each of its keys (`Key(k)`, with the property `KeysArePublished`);
`LeftoverRemoval` takes every value of its `view` from it (`ViewStep` is an `Update` of the same
module). So the removal flow is checked against what the polls are shown to publish, and the two
models together stand for the whole path from a device list to a deleted row, without a product
of their states.

**`HubIdentityMigration`** is the re-key of one home's hub rows from the home id to the pair of
home and hub.

| variable | code |
|---|---|
| `dev` | device registry: the identifier of the original hub row, whose children hang on it, the hub rows registered beside it |
| `ent` | entity registry: the unique ids of the original hub entities, the rows registered beside them, the connectivity rows |
| `version`, `disk` | `entry.version`; what of the three has been saved |
| `phase` | where setup is |
| `hubs`, `pending`, `last` | `coordinator.data["hubs"]`; what the last pass returned and `last_hub_mids` of the listener |
| `blind`, `torn` | history |

`Migrate` is `async_migrate_entry` (`SkipMigration` where Home Assistant does not call it), `Setup`
the first refresh with `_complete_hub_identity_rekey` ahead of the platforms, `Forward` the
platforms, `UpdateWith` the listener behind its latch `Gate`. `Save` writes one of the three to
disk, `Crash` restarts from the disk, `Reload` keeps what is in memory.

**`ControlConsent`** is the opt-in for controls of unverified devices.

| variable | code |
|---|---|
| `enabled`, `stamped`, `stamp` | `entry.options`: the option, and the keys `_with_control_consent` stamped |
| `up`, `unknown` | the coordinator in `hass.data`; the keys whose record no decoder took |
| `started`, `running` | the platforms set up, and those set up with the option on |
| `rows`, `live` | the controls in the entity registry; those an entity object holds |
| `cards` | the "new controls" notices, dismissed or not |
| `covered`, `announced`, `had`, `missed` | history |

`SaveOn` and `SaveOff` are the options form, `Setup` the sweep `_remove_stale_generic_entities`,
`StartPlatform` and `UpdateWith` the builders with `_notify_if_newly_controlled` ahead of the
registration, `Unload` a session's end.

**`*_proofs`** hold the theorems of the module they are named after; `HubLiveness_proofs` and
`SensorLiveness_proofs` hold the liveness theorems of `HubConnectivity` and `SensorEnumeration`.
**`MC_*`** give the constants
that a cfg cannot.

### Abstractions

* A reading is one bit: an entry is a reading, one of the two kinds of silence, or absent.
  Decoding, names, models, `state_raw` and log lines are left out.
* Counters saturate at the threshold they are compared with. Nothing but a placeholder of a card
  reads a larger value.
* `enumerated = {}` also stands for `None` before the first list.
* Home Assistant and the cloud share one clock; a change time in the future cannot occur. A frame
  always carries a usable time, since `apply_hub_push_update` drops one that does not.
* The account lists a mid under one home at a time (`OneHome`), as the code's own lookup by mid
  supposes. It may move between polls.
* The empty-list guard of `_reconcile_repairs_surfaces` asks whether either surface is
  debouncing. Each model has its own half; the other half is a nondeterministic choice over
  `SilentTracked` or `WindowRunning`, so each model allows every combination, the quiet
  installation among them: every run of the two models leaves the choice open.
* An unexpected exception inside the synchronous tail is not modelled.
* `ValveCommand` has a single device: nothing is shared between two keys. A zone is open or closed;
  durations and attributes are left out. `at` and `late` of a reading are annotations (as of when
  the state was the device's; that it came undated after the window), which only properties read.
* The device reports at most once per tick, so that dates order its reports, and the device, the
  cloud and Home Assistant share the clock. At most one command per zone is in flight.
* `view` stands both for a status endpoint that lags and for frames that arrive late. An entry's
  time is usable or not at the cloud's choice, each time it is read.
* `entry = "blank"` stands for silence and for a payload without a reading. A controller is then
  taken for available, which the code grants to the second only; "absent" accepts a push although
  the code drops one for an unlisted device. Both only add behaviours.
* A key that loses its reading has nothing left to guard, and the code shows whatever comes next,
  as its docstring says. `Drop` therefore also ends the history in `answered`.
* `LeftoverRemoval`: Home Assistant adds entities in a task of its own; here the rows appear with
  the adder's call. A session ends cleanly (a crash that loses unsaved registry writes is left to the
  migration's model). Rows of disabled and of generic entities, which the scan skips, are treated
  like `Outlets`. One dialog is open at a time. `blind` and `readable` are failed reads of the
  registries, `accepted` a card the issue registry takes.
* `HubIdentityMigration`: homes are independent of each other, so there is one. A failed read of the
  coordinator's list is part of "unread". Moving a device row is refused for a taken target only. The
  registry yields the original row before any registered later. Which children find another parent
  at `Forward` is arbitrary. Once a pass has settled the row the listener is gone, and `last` with it.
* `ControlConsent`: a notice speaks of all controls of one platform on one key, as the code's
  issue id does. Sessions end cleanly, so a notice is never lost unsaved. A device's catalog and its
  decoder do not change (no graduation, no override of a model). The user deletes no rows, and a
  valve's duration row goes with the valve. Removing the entry is part of `LeftoverRemoval`.

## The runs

| run | instance | asks |
|---|---|---|
| `hub_wrapper` | a hub whose entries may lack a time and whose registry calls may be refused, a wrapper record; debounce 1, threshold 1, clock 0..2, restarts | the safety and action properties of the hub model |
| `hub_one` | one hub with dated entries; debounce 1, threshold 2, clock 0..3, reloads and restarts | that outages are raised and recoveries cleared; that no card is raised over a drop younger than the threshold or ended by a reconnect that was shown, and that a second drop (the clock is just long enough for drop, reconnect, drop) moves no window forward |
| `sensor_one` | one key, two hubs; debounces 3 (silent), 2 (absent), 3 (orphan), reloads and restarts | what a card says is true; silence, recovery and departure are acted on; what is published of the key is what `PublishedKey` allows |
| `valve_guard` | two zones, each of the three framings, dated and undated entries, replies with and without a state; guard 1, clock 0..3, datapoint zones commanded at the same time | no older reading shows through a reply, the controller's record is of one moment, the guard lets go |
| `leftover` | one device with a reading and a silence row on the sensor platform and a zone row on another, window 2, any rows left by earlier versions, platforms that start late or never, refused calls, every kind of session end | that the flow implements `ConsentedRemoval`, the bookkeeping, the life of both shapes of the card |
| `migration` | mids 1, 2 and a wrapper 3, children of 1 and of 3 on the row or not, one entity suffix, registries unreadable at any pass, saves and crashes at any moment | no split page, no row left behind, no wrapper's mid but by the wrapper's own child, and that a waiting hub is re-keyed |
| `consent` | a two-zone valve of which one zone is no control, a device with a valve and a socket on port zero; one control whose notice may be refused; old and new installs | that no control appears unannounced, and that announcements are neither lost nor repeated |
| `hub_quiet`, `hub_departed`, `valve_overlap`, `leftover_lost`, `migration_torn` | the instances above, or one hub, the two zones of one valve hub, two hubs without a wrapper | the five disagreements below |

Why the bounds are enough. The code compares its counters with one constant each and treats hubs
independently, except where one dict is keyed by mid. Threshold 1 on the hub side still separates
"not yet", "just" and "long past" on a clock of three values, and an absence debounce of 1 already
has the three cases of the code: present, provisional, released. The second hub is what makes a
partial list (some hub is listed) differ from an empty one. On the sensor side a silent debounce of
3 leaves room for a gap or a push in the middle of a count, and an orphan debounce above the
absence debounce (as 30 is above 3) lets a key be frozen mid-count and after its verdict.
Keys share no state but the lists they are taken from, so the run has one key and two hubs: the
second hub makes the list partial. The theorems are for any number of keys.
In `valve_guard` a guard of one tick has an inside and an outside, commands may be answered up to
time 2 (`LastReply`) and the last tick lets the latest one's window end; two commands on two zones,
or two in a row on one, both fit, with a poll that was in flight since before the first.
In `leftover` a window of 2 has an inside, an edge and a reset; the three rows are the three ways a
row is judged (emitted with a reading, emitted with a silence, never offered by the scan), and two
platforms are the two kinds of bookkeeping (per key and per row). `migration` needs two hubs for a
split and for a target that is taken, and a wrapper for a mid that must not be; its states are
finite without any bound. `consent` has both kinds of platform (with a late adder and without),
both kinds of port, and two keys, so that a stamp can name one and not the other.
Deadlock is checked in every run.

### Fairness

`WF(Poll)`: the coordinator's own 120 s timer schedules the next poll after every poll, failed or
not, and no push touches it. `WF(Tick)`: time passes. `WF(ViewCatchesUp)`: the status endpoint
is eventually right about a hub that stays as it is. `WF(Stabilise)`: outages, failed polls and
new sessions end at some time; the liveness properties speak of what follows. For `ValveCommand` there are besides
`WF(SomeCallReturns)`: while commands are out, one of their awaits returns or raises, since the
coordinator's own handlers expect `TimeoutError` of every request;
`WF(Report)`: the device keeps reporting, as it does periodically; and `WF(CalmDown)`: nobody
touches the valves any more. `ShownSettles` needs the reports: a device that falls silent after a
command leaves nothing dated later than it. Frames are
never assumed to arrive, and nothing is assumed of the registry except for hubs outside `Faulty`.
The three other models assume one thing each: `WF(UpdateWith(...))` for an update that finds the
device or the hub as it was, with registries that can be read and a call that is accepted. The
poll timer gives the updates; that a registry does not refuse for ever is assumed. Nobody is ever
owed a confirmation, a saved form, a reload, a restart or a crash, so the liveness of these models
is what follows while a session lasts.
`DepartureIsOffered` asks that the account still lists some hub: an account whose list stays
empty is taken for an outage for ever, by the code's choice.

## What the runs show

They hold: a window runs only under a hub shown disconnected; no card over a hub or a device that
is shown connected or reporting, whichever session raised it; no hub card over a drop younger than
the threshold, or over one that a dated reconnect was seen to end; no card raised from a gap, an
absent status or an empty list, and none lost to one, except a hub card to an empty list that finds
no window running (the first case below); a key is offered
for removal exactly when its debounce of telling lists is complete, and never while it is listed.
With outages over, every lasting outage and every lasting silence gets its card, and every
recovery takes it away. What a command's reply showed of a zone is not undone by a poll that was
in flight or a frame that came late, the controller's record is never a mixture, and once nobody
touches the valves what is shown becomes what the device does.

Nothing is deleted but what a dialog named and what may still be taken at the moment of Submit; no
adder hands out an id twice, and what the bookkeeping holds beyond the rows is held for a row that
could not be removed; the still-present card never outlives its window and the departed one is
never lost to a session's end. No orderly start splits a hub over two pages, and no start past the
migration leaves an entity row behind its device row unless a crash tore it. No control is there
that was neither consented to nor announced.

They do not hold in five cases, each against a sentence of the code base (quoted in `PROJECT.json`):

1. `hub_quiet`: an unknown status shuts the window of a hub whose card stands. If no sub-device is
   mid-debounce, the next empty list finds nothing to protect, enters the reconcile and clears the
   card, which the docstring of `_reconcile_repairs_surfaces` calls a device-list outage. The same
   list leaves the card alone once any other device is being counted.
2. `hub_departed`: a reload empties `_active` but not the registry; the card of a hub that leaves
   around it is never cleared. The not-reporting card has the same code and the same gap, which
   is why `NoCardForDepartedKey` speaks of `active`.
3. `valve_overlap`: two zones of one valve hub are commanded at once and the replies cross. Each
   reply describes the whole hub and replaces its record, so the older one shows the other zone as
   it was before its command, and the guard then defends that state.
4. `leftover_lost`: when the ledgered rows of a departed key are removed and an unbacked one is
   refused, the ledger forgets the key, and no later sweep offers the row that is left.
5. `migration_torn`: when a crash has saved the device row and the new version but not the entity
   rows, neither pass ever looks at these again.

Met while modelling, without a run of their own:

* The hold for a hidden hub writes by mid over the fresh answer of the same hub under a new home
  (`coordinator.py:1548`), so a card may be raised over a hub that this poll
  heard as connected. `RaisesRestOnEvidence` is proved under the premise that excludes it.
* Two short drops on either side of a reconnect that nobody saw share one window, by the floor of
  `_hub_disconnect_window_start`, and their sum reaches the threshold. The card then speaks of an
  outage that was interrupted, although `translations/en.json:21` says that "a brief drop does not
  raise this notice". The floor is deliberate (a firmware may re-stamp an outage in progress).
  `NoCardForABriefDrop` therefore counts from the earliest drop after the last reconnect that was
  shown. A reconnect counts as shown while the record keeps its date: after an absent status the
  code takes a late frame of an earlier drop for new.
* `never_reported` is shown for a device that this session has heard: while a silence is debounced the
  device has no entry in the data, and the kind is decided from the entry that was last shown
  (`Silence` of `SensorEnumeration`). The docstring at `sensor.py:1504-1506` says that
  "stopped_reporting" means a reading was observed. `SilenceHasOneKind` proves that this kind is
  never shown, of a poll tail that no exception interrupts.
* A device that is silent while the options are saved is missing from the stamp, and the notice
  announces it "for the first time" again when it reports. `ReannouncedOnlyIfMissed` allows this for
  the devices that the last stamping save missed, and for no other.
* A version 1 install that hung a wrapper's child on the hub row has its row keyed to the
  wrapper's mid: `_resolve_hub_mid` says of such a child that "the mid in it is this hub's", and
  tells no wrapper from a hub. Where `Hung` holds a wrapper, as in `migration`, the model does the
  same, and `KeyedToAHub` says that no other source ever supplies a wrapper's mid.

Every passing property is paired with a mutant of the code's own definitions
(operators whose comment starts with "Mutant") that breaks it under the same run.

## What is proved

`HubConnectivity_proofs` proves for every set of hubs, homes, thresholds and clock bound, from the
two named assumptions on the constants (`AbsentDebounceAssumption`, `ConnectivityAssumption`):

* `TypeCorrect` and `BeliefIsFounded`. `TypeOK` is not inductive alone: that cards stay on real
  hubs needs `active \subseteq cards`, and the other way round, so they are proved together.
* `WindowsBelongToOutages` and `CardsAgreeWithRecords`. Both follow from one lemma on the tail of
  a poll (`FinishAgrees`: after a poll every listed hub's window and card agree with its record)
  and one case of `PushHub`.
* `RecordsMoveForward` and `WindowsMoveBack`, action properties: each step shows either the record
  held or a reply the guard let through, and opens either the window held or an earlier one.
* `BriefDropsRaiseNothing`. Three invariants carry it. `RecordsAreTrue`: whatever says
  "disconnected" with a date, served, under way, held or waited on, names a drop that the cloud
  recorded, and no dated "connected" does. `Chronology`: no date in the system is later than the
  last edge the cloud knows. `WindowsAreExplained`: a running window begins at or after a drop that
  is later than the reconnect last shown. A raise needs a window of the threshold's length, hence
  such a drop of that age.
* What raises and what drops a card, without any premise: `RaisesHaveGrounds` lists the three
  grounds of a raise, `ClearsRestOnEvidence` the four ways a card goes (the empty list of
  `hub_quiet` is one), and `BelievedCardsGoWithHubs` says that no card of `_active` outlives the
  lists that release its hub. Two of the run's properties are stronger and are proved where the odd
  ground is void: `RaisesRestOnEvidence` where no two hub keys share a mid (nor does the run have
  such a pair: a third key beside the wrapper is too large for it),
  `DepartedHubsLoseTheirCard` where sessions end by restarts alone (`hub_departed` shows that this
  one is needed). They rest on the invariant `Tally`: every hub with a card is remembered, and on
  remembered hubs the history `omitted` equals the code's own counter.

`SensorEnumeration_proofs` proves every safety property that holds of the sub-device model, for every set of
hubs and keys and every debounce, from `AbsentDebounceAssumption` and `EnumerationAssumption`.
One inductive invariant, `Enumerated`, carries them. Besides the properties it says what ties the
code's fields together:

* `CountedWhileQuiet`: the silent counter is at most the polls since the device was last heard;
* `RunsAgree`: for a remembered hub the absence counter is the number of lists that omitted it;
* `KeysTold`: a remembered key's hub is remembered or released, and its orphan count is the number
  of lists that told;
* `CardsAreKnown` and `DataIsCurrent`: cards stand on remembered keys only, and what is shown
  belongs to hubs that the last list named.

They need each other. That an outage keeps a card needs the memory of its key, that the verdict is
exact needs the memory of its hub, and that no push can hit an offered key needs `DataIsCurrent`.
`OutagesKeepCards` and `GapsFreeze` are action properties of the same invariant, one case per step.

`KeyIsPublished` and `PublicationIsSound` are the refinement of `PublishedKey`, for debounces longer
than one poll: initial states map to initial states, a poll's tail and a push map to `Carried`,
`LeftOut` or `NoList`, a session's end to `Forgotten`, the rest stutters. It needs `Enumerated` and
one more invariant, `ListsPublished`, on what is known before the first list.
On the other side `ViewIsPublished` proves that `LeftoverRemoval` uses no other behaviour of the
coordinator.

`ValveCommand_proofs` proves for every set of zones, guard window and clock, from
`CommandAssumption`:

* `CommandsAreNotReverted`, under the premise that only datapoint zones are commanded at the same
  time (`valve_overlap` shows that it is needed). `NeverBehindItsReply` is not inductive: the guard
  compares a reading with the time the command was *recorded*, the property with the moment its
  reply *speaks of*. `AnswersAreRecorded` and `NothingFromTheFuture` order the two, and
  `RepliesInOrder` says that a reply which describes siblings is the only one under way and younger
  than all applied before it.
* `RecordIsOfOneMoment`, for the controller, however its commands overlap: each of the ways in
  which its record changes replaces it whole.

`LeftoverRemoval_proofs` proves, for every set of rows and platforms and every window, from
`LeftoverAssumption`, every safety property of its run. The inductive invariant is `TypeOK`,
`Bookkeeping` and `Cards`:

* in `Bookkeeping`, `MarksCoverLedger` (a mark that the sensor adder set accounts for each row it
  holds) is what keeps `NothingOfferedTwice` when a removal fails in the middle, `OfferCoversGaps`
  ties the offer to the rows that the ledger outlived, and `WindowIsIdle` keeps the code's count
  at or below the time the row really had nothing behind it;
* in `Cards`, `DepartedEvidence` says on what a card that this session could clear stands.

`RemovalIsConsented` is the refinement: initial states map to initial states, and `SubmitConfirms`
and `StepKeepsConsent` map every step to one of the four abstract actions or a stutter.

`HubIdentityMigration_proofs` proves, for every set of mids, wrappers and suffixes, from
`MigrationAssumption`, `NoSplitUnlessBlind`, `RekeyIsCompleted` and `RowsAreKeyedToHubs`. The first needs `ListenerIsAhead`: the list that the
latch compares with is the one that the last pass saw, and if that pass left the row old without
being blind, no hub was on it. The second needs `WholeUnlessTorn` of whatever the registries hold
under version 2, and both need their counterpart on the disk, which a crash brings back.

`ControlConsent_proofs` proves, for every set of keys, platforms, ports, catalogs and refusals, from
`ConsentAssumption`, `NoneUnannounced` and `MissedIsReannounced`. Neither is inductive:
`RowsAccounted` says of all rows what the property says of the live ones, `CardsAccounted` that a
card which suppresses another was raised for this row, and `StampAccounted` that the stamp exists
only under the option, names only what was consented to, and left out only what was missed.

The type invariants of all six are proved and in no run; so is `NoCardForDepartedKey`.

### Liveness

Every liveness property of the runs is a theorem as well, for every value of the constants but the
lengths named here. What an action does is proved; that it *can be taken* is an ENABLED, which the
prover does not open, and stands as a hypothesis `[]...` beside `FairSpec`:

| theorem | property | hypotheses beside `FairSpec` | constants |
|---|---|---|---|
| `RecoveryClears` | `RecoveryIsCleared` (sensor) | `PollCanRun` | all |
| `SilenceReports` | `SilenceIsReported` | `PollCanRun` | silent debounce at most 3, the code's |
| `DepartureOffers` | `DepartureIsOffered` | `PollCanRun` | the two windows together below 64; the code's are 3 and 30 |
| `UpHubIsCleared` | `RecoveryIsCleared` (hub) | `PollCanRun`, `ViewsCanCatchUp`, `PollsEnd` | no two hubs share a mid |
| `DownHubIsRaised` | `OutageIsRaised` | these and `TimePasses` | no two hubs share a mid |
| `GuardLetsGo` | `ShownSettles` | `Ready`, `TimePasses` | a guard window above 0 |
| `PollsTerminate` | `PollsEnd` (hub) | `PollCanGoOn` | at most 32 mids |
| `ClockArrives` | `TimePasses` (hub) | `ClockCanGoOn` | a clock of at most 32 |
| `ClockArrives` | `TimePasses` (valve) | `Ready`, `CallCanReturn`, `ClockCanGoOn` | at most 32 zones, a clock of at most 32 |
| `CardFollowsKey` | `DepartedCardFollows` | `UpdateCanCorrect` | all |
| `DeadRowGetsItsCard` | `DeadRowIsOffered` | `UpdateCanOffer` | window at most 32 updates; the code's is 30 |
| `ResidualIsSettled` | `ResidualSettles` | `PassCanRun` | all |
| `RefusedIsRaisedLater` | `UnconsentedIsAnnounced` | `UpdateCanRaise` | all |

The last three dispose of the hypotheses `PollsEnd` (a poll that began ends) and `TimePasses` (the
clock reaches its bound) of the rows above them, within the sizes they name: what is left are
ENABLED alone. Beyond those sizes they are counts over a set and over a number, hence inductions,
and stay hypotheses.

Each hypothesis asks for the fair action only while it still has something to do. On the instances
of the runs `hub_one`, `sensor_one`, `valve_guard`, `leftover`, `migration` and `consent` TLC finds
every ENABLED hypothesis in every reachable state, and `PollsEnd` and `TimePasses` as consequences
of `FairSpec`. The runs check the liveness properties themselves under `FairSpec` alone.

How the long waits are proved. A poll or an update that finds the window of a key or a row at `n`
leaves it at `n + 1` or higher, and nothing in between lowers it while the condition lasts
(`OnePoll`, `OneUpdate`). Adding up thirty such steps would be an induction; instead the leads-to
is doubled: if every `n` leads to `n + 1`, every `n` leads to `n + 2`, and so on to 32 or 64
(`ThirtyTwoUpdates`, `SixtyFourPolls`), which is why these theorems name a largest window. The
end of a poll (`OneStatus`: one awaited status fewer), the return of every command (`OneReturn`)
and the clock (`OneTick`) are added up in the same way. For a
departed key the quantity is `Told`: the window of its hub, where that has left too, and then
its own count. A list that was already under way when the cloud came to rest may still carry the
key and reset the count; `ListBecomesCurrent` disposes of it first.

For the hub, `Chronology` (of `HubConnectivity_proofs`) keeps every date in the system at or before
the last edge the cloud knows, so that an answer of a cloud that has caught up is never passed over by the ordering guard. For the
valves, `InTime` does the same with the device's reports, and after the last command's window
nothing is held any more (`NothingHeld`).

Only model-checked, on small instances: that the fair actions are enabled. Neither proved nor
checked: liveness for sizes beyond those in the table, and of hubs that share a mid.
`EmptyListKeepsCards`, `SurvivorsAreOfferedAgain` and `InterruptedRunRecovers` are refuted by
their runs.

## Not modelled, and the plan

Worth a module each, in this order:

1. `PushWatchdog`: its outage clock, the card it holds while polls fail, and recovery. Its input is
   the liveness of an MQTT client outside the repository.
2. The optimistic overrides of hub switches and selects (ended by a poll, never by a push), and the
   token callback against a reload.
3. In `ControlConsent`: a model that graduates to a hand-written decoder or is overridden, the card
   of a failed command, the duration rows of a valve.
4. An abstract specification of a Repairs card (raised on evidence, held in doubt, cleared on
   evidence) that the hub and the not-reporting managers are shown to implement.

Not planned: the forms of the config flow other than the options' consent stamp, and the country
table; diagnostics and debug logging (formatting); firmware update entities (views); device records
and constants (pure data); the catalog gates of the generic sensor entities (pure functions over a
static table, fully unit-testable).
