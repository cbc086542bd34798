---------------------------- MODULE ControlConsent ----------------------------
(***************************************************************************)
(* The opt-in for controls of unverified devices: the stamp a save of the  *)
(* options leaves, the gate a device passes, the platforms that give it    *)
(* control entities at setup or on a later update, the notice raised for a *)
(* device the stamp does not name, and the sweep that withdraws both when  *)
(* the option is found off.                                                *)
(***************************************************************************)
EXTENDS Integers, FiniteSets

CONSTANTS
    Keys,              \* sub-devices
    Domains,           \* the platforms that build controls: valve and switch
    Late,              \* those with a late adder: valve; the other builds once
    Ports,
    Declared,          \* the control entries of each key's catalog variant,
    RunStates,         \* its run-state readings on each port
    PortCount,         \* and its number of ports
    Trusted,           \* keys with a hand-written decoder, or force-disabled
    Faulty             \* controls whose card the issue registry may refuse

ASSUME ConsentAssumption ==
    /\ Late \subseteq Domains
    /\ Ports \subseteq Nat
    /\ Declared \in [Keys -> SUBSET (Domains \X Ports)]
    /\ RunStates \in [Keys -> [Ports -> Nat]]
    /\ PortCount \in [Keys -> Nat]
    /\ Trusted \subseteq Keys

VARIABLES
    enabled,           \* entry.options: the option,
    stamped, stamp,    \* is there a stamp, and the keys on it
    up,                \* the entry store holds a coordinator
    unknown,           \* keys whose record in data["sensors"] no decoder took
    started, running,  \* platforms set up, and those set up with the option on
    rows,              \* controls in the entity registry
    live,              \* controls an entity object holds
    cards,             \* notices in the issue registry, dismissed or not
    covered,           \* history: consented to, since consent was last given up
    announced,         \* a card was raised since the row was last removed
    had,               \* has been live since then
    missed             \* keys the last stamping save did not name

options == <<enabled, stamped, stamp>>
session == <<up, unknown, started, running>>
history == <<covered, announced, had, missed>>
vars == <<options, session, rows, live, cards, history>>

-----------------------------------------------------------------------------
(* The gate.                                                               *)

\* resolve_control_port: port zero is a port only where there is no other.
Commandable(k, p) == p >= 1 \/ PortCount[k] = 1

\* evaluate_control_gate: an entry is admitted with exactly one run-state reading.
Datapoints(k) ==
    {e \in Declared[k] : /\ k \notin Trusted
                         /\ RunStates[k][e[2]] = 1
                         /\ Commandable(k, e[2])}

Passes(k) == Datapoints(k) # {}

\* The controls of a domain on a key, one notice and one consent for all.
Controls == {c \in Domains \X Keys : \E e \in Datapoints(c[2]) : e[1] = c[1]}

ControlsOf(D, K) == {c \in Controls : c[1] \in D /\ c[2] \in K}

\* _control_eligible_keys
Eligible == {k \in unknown : Passes(k)}

TypeOK ==
    /\ enabled \in BOOLEAN
    /\ stamped \in BOOLEAN
    /\ stamp \subseteq Keys
    /\ up \in BOOLEAN
    /\ unknown \subseteq Keys
    /\ started \subseteq Domains
    /\ running \subseteq started
    /\ rows \subseteq Controls
    /\ live \subseteq rows
    /\ cards \subseteq Controls
    /\ covered \subseteq Controls
    /\ announced \subseteq Controls
    /\ had \subseteq rows
    /\ missed \subseteq Keys

-----------------------------------------------------------------------------
(* The options form, _with_control_consent.                                *)

\* An install from before the stamp: with the option on, its rows are there.
Init ==
    /\ enabled \in BOOLEAN
    /\ stamped = FALSE
    /\ stamp = {}
    /\ up = FALSE
    /\ unknown = {}
    /\ started = {}
    /\ running = {}
    /\ rows \in (IF enabled THEN SUBSET Controls ELSE {{}})
    /\ live = {}
    /\ cards = {}
    /\ covered = rows
    /\ announced = {}
    /\ had = rows
    /\ missed = {}

Stamp(keys) == stamped' = TRUE /\ stamp' = keys

\* Mutant: a form saved with no coordinator stamps an empty list.
StampTheRest == IF up THEN Stamp(Eligible) ELSE Stamp({})

\* With no coordinator the devices are not known, and the stamp is carried over.
StampEligible == IF up THEN Stamp(Eligible) ELSE UNCHANGED <<stamped, stamp>>

SaveOn ==
    /\ enabled' = TRUE
    /\ StampEligible
    /\ covered' = IF up THEN covered \cup ControlsOf(Domains, Eligible) ELSE covered
    /\ missed' = IF up THEN Keys \ Eligible ELSE missed
    /\ UNCHANGED <<session, rows, live, cards, announced, had>>

\* Mutant: the stamp outlives the option.
SaveOffKeepsStamp ==
    /\ enabled' = FALSE
    /\ covered' = covered \cap rows
    /\ UNCHANGED <<stamped, stamp, session, rows, live, cards, announced, had, missed>>

\* Consent is given up, but for what stays registered.
SaveOff ==
    /\ enabled' = FALSE
    /\ stamped' = FALSE
    /\ stamp' = {}
    /\ covered' = covered \cap rows
    /\ UNCHANGED <<session, rows, live, cards, announced, had, missed>>

-----------------------------------------------------------------------------
(* The builders: what the adders of D hand over, and what is announced.    *)

\* _notify_if_newly_controlled: without a stamp the registry is the test.
Unannounced(c) == IF stamped THEN c[2] \notin stamp ELSE c \notin rows

\* Mutant: only a control not yet handed over is looked at.
RaisedOnce(built) == {c \in built \ live : Unannounced(c)} \ cards

\* A card that is there, dismissed ones included, is not raised again.
Raised(built) == {c \in built : Unannounced(c)} \ cards

\* The check precedes the registration; the registry refuses the cards `lost`.
Build(D, K, lost) ==
    LET built == ControlsOf(D, K)
        raise == Raised(built)
    IN  /\ lost \subseteq raise \cap Faulty
        /\ cards' = cards \cup (raise \ lost)
        /\ announced' = announced \cup (raise \ lost)
        /\ rows' = rows \cup built
        /\ live' = live \cup built
        /\ had' = had \cup built

-----------------------------------------------------------------------------
(* Sessions.                                                               *)

\* Rows that could not be read or removed stay.
RemoveStaleRows == rows' \in SUBSET rows

\* async_withdraw_new_controls_cards
WithdrawCards == cards' \in SUBSET (cards \cap Faulty)

\* _remove_stale_generic_entities, with the option off
Sweep == RemoveStaleRows /\ WithdrawCards

\* The first refresh, and the sweep ahead of the platforms.
Setup ==
    /\ ~up
    /\ up' = TRUE
    /\ unknown' \in SUBSET Keys
    /\ IF enabled THEN UNCHANGED <<rows, cards>> ELSE Sweep
    /\ covered' = IF enabled THEN covered ELSE covered \cap rows'
    /\ announced' = IF enabled THEN announced ELSE announced \cap rows'
    /\ had' = IF enabled THEN had ELSE had \cap rows'
    /\ UNCHANGED <<options, started, running, live, missed>>

\* A platform reads the option once, as it is set up.
StartPlatform(d) ==
    /\ up
    /\ d \notin started
    /\ started' = started \cup {d}
    /\ running' = IF enabled THEN running \cup {d} ELSE running
    /\ \E lost \in SUBSET Faulty : Build(IF enabled THEN {d} ELSE {}, unknown, lost)
    /\ UNCHANGED <<options, up, unknown, covered, missed>>

\* A poll or a pushed reading: the adders of the running platforms look again.
UpdateWith(K, lost) ==
    /\ up
    /\ unknown' = K
    /\ Build(running \cap Late, K, lost)
    /\ UNCHANGED <<options, up, started, running, covered, missed>>

Update == \E K \in SUBSET Keys : \E lost \in SUBSET Faulty : UpdateWith(K, lost)

\* An unload or a restart: the notices are persistent.
Unload ==
    /\ up
    /\ up' = FALSE
    /\ unknown' = {}
    /\ started' = {}
    /\ running' = {}
    /\ live' = {}
    /\ UNCHANGED <<options, rows, cards, history>>

Next ==
    \/ SaveOn
    \/ SaveOff
    \/ Setup
    \/ \E d \in Domains : StartPlatform(d)
    \/ Update
    \/ Unload

Spec == Init /\ [][Next]_vars

\* Updates go on, and the issue registry does not refuse for ever.
FairSpec == Spec /\ WF_vars(UpdateWith(unknown, {}))

-----------------------------------------------------------------------------
\* No control is there that the user neither consented to nor was told of since
\* consent was last given up, in whatever order the option is switched, the
\* entry reloads and devices become controllable. A refused card is excepted.
NoUnannouncedControl == live \ Faulty \subseteq covered \cup announced

\* A device that had controls since the option came on is announced again only
\* when a save stamped the devices without it.
ReannouncedOnlyIfMissed ==
    [][\A c \in (cards' \ cards) \cap had : c[2] \in missed]_vars

\* A card the registry refused is raised on a later update, as long as the
\* device stays controllable and outside the stamp.
Owed(c) ==
    /\ c[1] \in running \cap Late
    /\ c[2] \in Eligible
    /\ stamped
    /\ c[2] \notin stamp

UnconsentedIsAnnounced == \A c \in Controls : Owed(c) ~> c \in cards \/ ~Owed(c)

=============================================================================
