--------------------------- MODULE LeftoverRemoval ---------------------------
(***************************************************************************)
(* The one path of the integration that deletes: the registry rows of one  *)
(* sub-device, the late adders that emit its entities, the sweep that      *)
(* raises and withdraws its removal card on every coordinator update, the  *)
(* card's confirmation dialog and the executor behind Submit, across       *)
(* reloads, restarts and the removal of the config entry.                  *)
(***************************************************************************)
EXTENDS Integers, FiniteSets

CONSTANTS
    Rows,              \* the (domain, unique_id) pairs that may sit on the device
    Platforms,         \* the entity platforms
    KeyIndexed,        \* the one whose adder marks the whole key: sensor
    PlatformOf,        \* the platform of each row
    Emits,             \* the rows the adders may build for each kind of record: the
                       \* sensor platform's silent record has an entity of its own
    Outlets,           \* zone and station rows, which the scan never offers
    LeftoverDebounce   \* LEFTOVER_ROW_DEBOUNCE_UPDATES

Records == {"reading", "silent"}         \* what data["sensors"] may hold for the key

ASSUME LeftoverAssumption ==
    /\ KeyIndexed \in Platforms
    /\ PlatformOf \in [Rows -> Platforms]
    /\ Emits \in [Records -> SUBSET Rows]
    /\ \A r \in Emits["reading"] \cap Emits["silent"] : PlatformOf[r] # KeyIndexed
    /\ Outlets \subseteq Rows
    /\ LeftoverDebounce \in Nat \ {0}

VARIABLES
    rows, deviceRow,          \* the entity and the device registry
    live,                     \* rows an entity object holds
    session,                  \* "down", "up", "removed"
    started,                  \* platforms whose adder is registered
    view,                     \* what the coordinator knows of the key
    ledger, marks,            \* the adders' bookkeeping
    counts,                   \* the debounce window of each row
    active, published,        \* RainPointOrphanedEntityIssues
    card,                     \* the issue registry
    dialog,                   \* the open fix flow, with the offer it snapshot
    refused, idle, seen       \* history

registries == <<rows, deviceRow>>
books      == <<ledger, marks>>
manager    == <<active, published>>
history    == <<refused, idle, seen>>
vars == <<registries, live, session, started, view, books, counts, manager, card, dialog, history>>

-----------------------------------------------------------------------------
Up == session = "up"

None  == [shape |-> "none", pairs |-> {}]
Offer == [shape : {"leftover", "departed"}, pairs : SUBSET Rows]

\* Does the last device list enumerate the key, has it aged out, and what does
\* data["sensors"] hold for it?  A key that is shown is enumerated; one that has
\* aged out is not (AgedKeysAreGone of SensorEnumeration).
Views ==
    {v \in [listed : {"unknown", "yes", "no"}, aged : BOOLEAN, sensor : Records \cup {"absent"}] :
        /\ v.aged => v.listed = "no"
        /\ v.sensor # "absent" => v.listed = "yes"}

Blank == [listed |-> "unknown", aged |-> FALSE, sensor |-> "absent"]

\* A count past the threshold is the threshold.
Bump(n) == IF n < LeftoverDebounce THEN n + 1 ELSE n

TypeOK ==
    /\ rows \subseteq Rows
    /\ deviceRow \in BOOLEAN
    /\ live \subseteq Rows
    /\ session \in {"down", "up", "removed"}
    /\ started \subseteq Platforms
    /\ view \in Views
    /\ ledger \subseteq Rows
    /\ marks \subseteq Records
    /\ counts \in [Rows -> 0 .. LeftoverDebounce]
    /\ active \in BOOLEAN
    /\ published \in Offer \cup {None}
    /\ card \in Offer \cup {None}
    /\ dialog \in Offer \cup {None}
    /\ refused \subseteq Rows
    /\ idle \in [Rows -> 0 .. LeftoverDebounce]
    /\ seen \in BOOLEAN

-----------------------------------------------------------------------------
(* The coordinator, as the sweep reads it.                                 *)

\* What the coordinator may publish of the key from one update to the next:
\* SensorEnumeration is shown to publish nothing else of any of its keys.
Coordinator == INSTANCE PublishedKey
               WITH listed <- view.listed, aged <- view.aged, sensor <- view.sensor

ViewStep(w) == view' = w /\ Coordinator!Update

-----------------------------------------------------------------------------
(* The scan: _build_leftover_row_pairs and its window.                     *)

\* _leftover_pair_for_row
Dead == {r \in rows \ (Outlets \cup ledger) : PlatformOf[r] \in started /\ r \notin live}

\* Mutant: a silent record counts as a reporting device.
DerivedSilent(v) == IF v.sensor # "absent" /\ ledger # {} THEN Dead ELSE {}

\* The still-present shape asks about the keys that report.
Derived(v) == IF v.sensor = "reading" /\ ledger # {} THEN Dead ELSE {}

\* The departed-key shape asks about a key that has aged out.
Extra(readable) == IF readable /\ ledger # {} THEN Dead ELSE {}

Window(v) == [r \in Rows |-> IF r \in Derived(v) THEN Bump(counts[r]) ELSE 0]

Settled(v, count) == {r \in Derived(v) : count[r] >= LeftoverDebounce}

\* _build_orphaned_entity_records: the key's record, None when it is not orphaned.
Verdict(v, leftover, extra) ==
    IF ledger = {} THEN None
    ELSE IF v.aged THEN [shape |-> "departed", pairs |-> ledger \cup extra]
    ELSE IF leftover # {} THEN [shape |-> "leftover", pairs |-> leftover]
    ELSE None

-----------------------------------------------------------------------------
(* RainPointOrphanedEntityIssues.                                          *)

\* Mutant: the active mark is trusted over the issue registry.
RaiseIssueTrusting(record, accepted) ==
    IF active /\ published = record
    THEN UNCHANGED <<manager, card>>
    ELSE IF accepted
    THEN active' = TRUE /\ published' = record /\ card' = record
    ELSE UNCHANGED <<manager, card>>

RaiseIssue(record, accepted) ==
    IF active /\ card # None /\ published = record
    THEN UNCHANGED <<manager, card>>
    ELSE IF accepted
    THEN active' = TRUE /\ published' = record /\ card' = record
    ELSE active' = (active /\ card # None) /\ UNCHANGED <<published, card>>

ClearIssue == active' = FALSE /\ published' = None /\ card' = None

\* Mutant: only a card this session raised is cleared.
SyncIssuesIfActive(record, hold, accepted) ==
    IF record # None THEN RaiseIssue(record, accepted)
    ELSE IF active /\ ~(hold /\ published.shape = "leftover")
    THEN ClearIssue
    ELSE UNCHANGED <<manager, card>>

\* async_sync, for a key that is mentioned exactly when a ledger holds it.
SyncIssues(record, hold, accepted) ==
    IF record # None THEN RaiseIssue(record, accepted)
    ELSE IF (ledger # {} \/ active) /\ ~(hold /\ published.shape = "leftover")
    THEN ClearIssue
    ELSE UNCHANGED <<manager, card>>

\* _sync_orphaned_entity_issues
Sweep(v, blind, readable, accepted) ==
    LET leftover == IF blind THEN {} ELSE Settled(v, Window(v))
        record   == Verdict(v, leftover, Extra(readable))
    IN  /\ accepted \/ record # None      \* only a raise can be refused
        /\ counts' = IF blind THEN counts ELSE Window(v)
        /\ SyncIssues(record, blind, accepted)

-----------------------------------------------------------------------------
(* The late adders.                                                        *)

OnPlatform(R, p) == {r \in R : PlatformOf[r] = p}

\* What the adders of P hand to Home Assistant when they build `built`.
Fresh(v, built, P) ==
    {r \in built : /\ PlatformOf[r] \in P
                   /\ IF PlatformOf[r] = KeyIndexed THEN v.sensor \notin marks
                                                    ELSE r \notin ledger}

Buildable(v) == IF v.sensor \in Records THEN SUBSET Emits[v.sensor] ELSE {{}}

\* Home Assistant refuses an entity whose unique id a live one holds.
Collect(v, P) ==
    \E built \in Buildable(v) :
       LET fresh == Fresh(v, built, P)
       IN  /\ ledger' = ledger \cup fresh
           /\ marks' = IF KeyIndexed \in P THEN marks \cup ({v.sensor} \cap Records) ELSE marks
           /\ rows' = rows \cup fresh
           /\ deviceRow' = (deviceRow \/ fresh # {})
           /\ live' = live \cup fresh
           /\ refused' = refused \cup (fresh \cap live)

-----------------------------------------------------------------------------
(* The executor, _remove_orphaned_key_rows.                                *)

\* Mutant: one row that stays holds everything.
KeptOutright(held) == IF held = {} THEN {} ELSE ledger

\* _drop_removed_bookkeeping: what the adders keep when the rows in `held` stay.
Kept(held) ==
    {r \in ledger : IF PlatformOf[r] = KeyIndexed
                    THEN OnPlatform(ledger \cap held, KeyIndexed) # {}
                    ELSE r \in held}

RemoveRows(taken) ==
    /\ rows' = rows \ taken
    /\ live' = live \ taken

\* Mutant: the add-once marks go whatever stays.
ForgetMarks(held) == ledger' = Kept(held) /\ marks' = {}

Forget(held) ==
    /\ ledger' = Kept(held)
    /\ marks' = IF OnPlatform(Kept(held), KeyIndexed) = {} THEN {} ELSE marks

\* Found empty, the device row is released, unless that read or call fails.
ReleaseDeviceRow == deviceRow' \in (IF rows' = {} THEN {FALSE, deviceRow} ELSE {deviceRow})

\* Rows the registry refuses to remove are `failed`.
RemoveDeparted(offered) ==
    \/ UNCHANGED <<registries, live, books>>   \* the entity registry is unreadable
    \/ /\ view.listed # "no" \/ offered = {}
       /\ UNCHANGED <<registries, live, books>>
    \/ /\ view.listed = "no" /\ offered # {}
       /\ \E failed \in SUBSET (offered \cap rows) :
             /\ RemoveRows(offered \ failed)
             /\ ReleaseDeviceRow
             /\ Forget(failed \cup (ledger \ offered))

\* Mutant: the confirm advances the window.
RemoveLeftoverAdvancing(offered) ==
    LET scope == Settled(view, Window(view)) \cap offered
    IN  RemoveRows(scope) /\ UNCHANGED <<deviceRow, books>>

\* _leftover_pairs_now: the window as the last sweep left it.
LeftoverNow(blind) == IF blind THEN {} ELSE Settled(view, counts)

RemoveLeftover(offered) ==
    \E blind \in BOOLEAN :
       LET scope == LeftoverNow(blind) \cap offered
       IN  \E failed \in SUBSET scope :
              /\ RemoveRows(scope \ failed)
              /\ UNCHANGED <<deviceRow, books>>

-----------------------------------------------------------------------------
(* Sessions.                                                               *)

Init ==
    /\ rows \in SUBSET Rows              \* what earlier versions left behind
    /\ deviceRow = (rows # {})
    /\ live = {}
    /\ session = "down"
    /\ started = {}
    /\ view = Blank
    /\ ledger = {}
    /\ marks = {}
    /\ counts = [r \in Rows |-> 0]
    /\ active = FALSE
    /\ published = None
    /\ card = None
    /\ dialog = None
    /\ refused = {}
    /\ idle = [r \in Rows |-> 0]
    /\ seen = FALSE

\* The first refresh, the executor and a first sweep, which no ledger can feed.
Setup ==
    /\ session = "down"
    /\ session' = "up"
    /\ \E w \in Views :
          /\ ViewStep(w)
          /\ seen' = (seen \/ w.listed = "yes")
    /\ UNCHANGED <<registries, live, started, books, counts, manager, card, dialog, refused, idle>>

\* A platform is set up, late or never: it emits, and registers its adder.
StartPlatform(p) ==
    /\ Up
    /\ p \notin started
    /\ started' = started \cup {p}
    /\ Collect(view, {p})
    /\ UNCHANGED <<session, view, counts, manager, card, dialog, idle, seen>>

\* What a session leaves: the registries and the cards.
EndSession ==
    /\ live' = {}
    /\ started' = {}
    /\ view' = Blank
    /\ ledger' = {}
    /\ marks' = {}
    /\ counts' = [r \in Rows |-> 0]
    /\ active' = FALSE
    /\ published' = None
    /\ idle' = [r \in Rows |-> 0]
    /\ UNCHANGED <<registries, refused, seen>>

\* Mutant: no card is withdrawn.
UnloadKeepsCards ==
    /\ Up
    /\ session' = "down"
    /\ EndSession
    /\ UNCHANGED <<card, dialog>>

\* Mutant: the cards of both shapes are withdrawn.
UnloadTakesCards ==
    /\ Up
    /\ session' = "down"
    /\ EndSession
    /\ card' = IF active THEN None ELSE card
    /\ UNCHANGED dialog

\* async_unload_entry and _withdraw_rebuildable_cards
Unload ==
    /\ Up
    /\ session' = "down"
    /\ EndSession
    /\ card' = IF active /\ published.shape = "leftover" THEN None ELSE card
    /\ UNCHANGED dialog

\* Home Assistant restarts: only a persistent card comes back, and no flow does.
Restart ==
    /\ session' = IF session = "removed" THEN "removed" ELSE "down"
    /\ EndSession
    /\ card' = IF card.shape = "leftover" THEN None ELSE card
    /\ dialog' = None

\* async_remove_entry: Home Assistant has unloaded the entry and drops its rows.
RemoveEntry ==
    /\ session = "down"
    /\ session' = "removed"
    /\ card' = None
    /\ rows' = {}
    /\ deviceRow' = FALSE
    /\ UNCHANGED <<live, started, view, books, counts, manager, dialog, history>>

-----------------------------------------------------------------------------
(* A coordinator update, and the user.                                     *)

\* The sweep's listener runs before the adders'.
UpdateWith(w, blind, readable, accepted) ==
    /\ Up
    /\ ViewStep(w)
    /\ ~readable => blind
    /\ blind /\ readable => w.sensor # "reading"
    /\ Sweep(w, blind, readable, accepted)
    /\ Collect(w, started)
    /\ idle' = [r \in Rows |-> IF r \in live' THEN 0 ELSE Bump(idle[r])]
    /\ seen' = IF card'.shape = "departed" /\ card' # card THEN FALSE
               ELSE seen \/ w.listed = "yes"
    /\ UNCHANGED <<session, started, dialog>>

Update == \E w \in Views : \E blind, readable, accepted \in BOOLEAN :
             UpdateWith(w, blind, readable, accepted)

\* The dialog snapshots what the card offers at the moment it is shown.
OpenDialog ==
    /\ dialog = None
    /\ card # None
    /\ dialog' = card
    /\ UNCHANGED <<registries, live, session, started, view, books, counts, manager, card, history>>

CloseDialog ==
    /\ dialog # None
    /\ dialog' = None
    /\ UNCHANGED <<registries, live, session, started, view, books, counts, manager, card, history>>

\* No executor is published: the flow aborts and Home Assistant keeps the card.
SubmitAborts ==
    /\ dialog # None
    /\ ~Up
    /\ dialog' = None
    /\ UNCHANGED <<registries, live, session, started, view, books, counts, manager, card, history>>

\* async_step_confirm, after which Home Assistant deletes the issue.
Submit ==
    /\ dialog # None
    /\ Up
    /\ IF dialog.shape = "leftover" THEN RemoveLeftover(dialog.pairs)
                                    ELSE RemoveDeparted(dialog.pairs)
    /\ dialog' = None
    /\ card' = None
    /\ UNCHANGED <<session, started, view, counts, manager, history>>

Next ==
    \/ Setup
    \/ \E p \in Platforms : StartPlatform(p)
    \/ Unload
    \/ Restart
    \/ RemoveEntry
    \/ Update
    \/ OpenDialog
    \/ CloseDialog
    \/ SubmitAborts
    \/ Submit

Spec == Init /\ [][Next]_vars

\* Polls and pushed readings go on, and the registries are not unreadable for
\* ever; neither the user nor a session end is ever owed.
FairSpec ==
    Spec /\ WF_vars(UpdateWith(view, FALSE, TRUE, TRUE))

-----------------------------------------------------------------------------
(* Safety.                                                                 *)

\* What a confirm may take at this moment: of the still-present shape what had
\* nothing alive behind it for a whole window of this session, of the departed
\* shape anything, while the last list does not carry the key.
Takable ==
    {r \in Rows : IF dialog.shape = "leftover" THEN r \notin live /\ idle[r] = LeftoverDebounce
                                               ELSE view.listed = "no"}

Consent == INSTANCE ConsentedRemoval
           WITH Nothing <- None, page <- deviceRow, proposal <- card, shown <- dialog,
                takable <- Takable, departed <- view.listed = "no"

\* A row leaves the registry only under a Submit whose dialog named it, as the
\* card stood when it was opened, and only on what holds at that moment. The
\* device row goes with a departed key alone, and never under a row that is left.
ConsentKept == Consent!Spec

\* No adder hands Home Assistant a unique id that a live entity holds, whatever
\* removals failed, and in whatever order the device left, returned or fell silent.
NothingOfferedTwice == refused = {}

\* The bookkeeping outlives a row only where the sensor adder holds its whole key
\* for a row that could not be removed: a returning device misses nothing else.
LedgerBacked ==
    \A r \in ledger \ rows :
        PlatformOf[r] = KeyIndexed /\ OnPlatform(ledger \cap rows, KeyIndexed) # {}

\* A card of the still-present shape is always the running session's own: it
\* never outlives the window its Submit is held to.
LeftoverCardOwned == card.shape = "leftover" => Up /\ active /\ published = card

\* It names a row only after a whole window with nothing alive behind it in this
\* session, on a device that reports, and never an outlet's row.
LeftoverOfferEarned ==
    [][card'.shape = "leftover" /\ card' # card =>
          /\ view'.sensor = "reading"
          /\ \A r \in card'.pairs :
                r \in rows \ (live \cup Outlets) /\ idle[r] >= LeftoverDebounce - 1]_vars

\* The card of a departed key survives reloads, restarts and flows that abort: it
\* goes by a Submit that reached the executor, by the device's return since it was
\* raised, or with the config entry.
DepartedCardKept ==
    [][card.shape = "departed" /\ card'.shape # "departed" =>
          \/ seen'
          \/ Up /\ dialog # None /\ dialog' = None
          \/ session' = "removed"]_vars

\* A confirm that leaves some of the rows it offered, with the key still unlisted,
\* leaves a ledger from which their card is offered again.  It is what the log
\* line of an empty removal promises; the code does not keep it.
SurvivorsAreOfferedAgain ==
    [][card.shape = "departed" /\ dialog.shape = "departed" /\ view.listed # "yes"
       /\ card' = None /\ session' = "up" =>
          ledger' # {} \/ dialog.pairs \cap rows' = {}]_vars

-----------------------------------------------------------------------------
(* Liveness, while a session lasts.                                        *)

Reporting == Up /\ view.sensor = "reading" /\ ledger # {}
Departed  == Up /\ view.aged /\ ledger # {}

\* A row that stays dead on a reporting device is offered, and offered again
\* after a Submit that could not take it.
DeadRowIsOffered ==
    \A r \in Rows :
        Reporting /\ r \in Dead
            ~> (card.shape = "leftover" /\ r \in card.pairs) \/ ~(Reporting /\ r \in Dead)

\* The card follows the key: offered when it has aged out, withdrawn when the
\* device reports again, whichever session raised it.
DepartedCardFollows ==
    /\ Departed ~> card.shape = "departed" \/ ~Departed
    /\ Reporting ~> card.shape # "departed" \/ ~Reporting

=============================================================================
