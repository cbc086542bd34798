------------------------- MODULE HubIdentityMigration -------------------------
(***************************************************************************)
(* The re-key of hub identity from the home id to the (home, hub) pair, of *)
(* one home: the migration at the version boundary, the residual pass that *)
(* setup runs ahead of the platforms, and its listener, over two           *)
(* registries and a version that reach the disk on timers of their own.    *)
(***************************************************************************)
EXTENDS Integers, FiniteSets

CONSTANTS
    Mids,          \* the mids a record of the home may carry; "-3" is no isdigit()
    Wrappers,      \* those of Bluetooth wrapper records, which are no hubs
    Hung,          \* those whose children a version 1 install hung on the hub row, wrappers too
    Suffixes,      \* _HUB_MIGRATABLE_SUFFIXES
    Old            \* the segment an old-shape id does not have

Hubs   == Mids \ Wrappers
Digits == {m \in Mids : m >= 0}

ASSUME MigrationAssumption ==
    /\ Mids \subseteq Int
    /\ Wrappers \subseteq Mids
    /\ Hung \subseteq Mids
    /\ Old \notin Mids

VARIABLES
    dev,       \* device registry: the original hub row's id, the hubs and wrappers whose
               \* children hang on it, and the hub rows registered beside it
    ent,       \* entity registry: the original rows' ids, the rows registered beside them,
               \* and the connectivity rows
    version,   \* of the config entry
    disk,      \* what of the three has been saved
    phase,     \* "down", "failed", "migrated", "setup", "up"
    hubs,      \* coordinator.data["hubs"], wrapper records included
    pending,   \* what the last pass saw: "unread", "old", "settled"
    last,      \* last_hub_mids, which no one reads any more once settled ({} then)
    blind,     \* history: platforms were forwarded after a pass that could not look
    torn       \* history: a crash had saved a device row's re-key, and the version,
               \* without the entity rows'

session == <<phase, hubs, pending, last>>
history == <<blind, torn>>
vars == <<dev, ent, version, disk, session, history>>

Ids == Mids \cup {Old}

Devices  == [id : Ids, kids : SUBSET Mids, fresh : SUBSET Mids]
Entities == [id : [Suffixes -> Ids], fresh : SUBSET (Mids \X Suffixes), conn : SUBSET Mids]

TypeOK ==
    /\ dev \in Devices
    /\ ent \in Entities
    /\ version \in {1, 2}
    /\ disk \in [dev : Devices, ent : Entities, version : {1, 2}]
    /\ phase \in {"down", "failed", "migrated", "setup", "up"}
    /\ hubs \in SUBSET Mids
    /\ pending \in {"unread", "old", "settled"}
    /\ last \in SUBSET Mids
    /\ blind \in BOOLEAN
    /\ torn \in BOOLEAN

-----------------------------------------------------------------------------
(* Which hub the old-shape row belongs to.                                 *)

Least(S) == {m \in S : \A n \in S : m <= n}

\* _resolve_hub_mid: a child's mid, whichever row comes first, else the least of
\* the connectivity rows'.
FromRegistries ==
    IF dev.kids \cap Digits # {} THEN dev.kids \cap Digits ELSE Least(ent.conn \cap Digits)

\* Mutant: every record the cloud lists is a candidate.
FromAnyRecord(H) ==
    IF FromRegistries # {} THEN FromRegistries ELSE Least(H \cap Digits)

\* _resolve_residual_hub_mid: only then what the coordinator lists.
FromRecords(H) ==
    IF FromRegistries # {} THEN FromRegistries ELSE Least((H \ Wrappers) \cap Digits)

\* No source names a hub for the row: the only case in which it is left waiting.
Unplaced(H) == (dev.kids \cup ent.conn \cup (H \ Wrappers)) \cap Digits = {}

\* _move_hub_device_row, refused when another row holds the target.
Moves(m) == m \notin dev.fresh

\* _migrate_hub_entity_unique_ids over the rows as the pass read them, for each hub
\* of M in turn: a target that is taken leaves the row as it is.
Rekeyed(M) ==
    [s \in Suffixes |-> IF ent.id[s] = Old THEN {m \in M : <<m, s>> \notin ent.fresh} ELSE {}]

-----------------------------------------------------------------------------
(* The version boundary.                                                   *)

\* What version 1 leaves: one old-shape row for the home, whatever its hubs.
Init ==
    /\ \E kids \in SUBSET Hung : dev = [id |-> Old, kids |-> kids, fresh |-> {}]
    /\ \E conn \in SUBSET Hubs : ent = [id |-> [s \in Suffixes |-> Old], fresh |-> {}, conn |-> conn]
    /\ version = 1
    /\ disk = [dev |-> dev, ent |-> ent, version |-> version]
    /\ phase = "down"
    /\ hubs = {}
    /\ pending = "unread"
    /\ last = {}
    /\ blind = FALSE
    /\ torn = FALSE

\* The rows the loop over the hub device rows gives to the original entity rows:
\* the original's hub's first, then those of the rows registered since.
TakeOver(first) ==
    \E id \in [Suffixes -> Ids] :
        /\ \A s \in Suffixes :
              LET later == Rekeyed(dev.fresh)[s]
                  own   == Rekeyed(first)[s]
              IN  id[s] \in (IF later # {} THEN later ELSE IF own # {} THEN own ELSE {ent.id[s]})
        /\ ent' = [ent EXCEPT !.id = id]

\* Mutant: the entity pass belongs to the move of its device row.
MigrateOldRowsOnly ==
    /\ phase = "down" /\ version = 1
    /\ phase' = "migrated"
    /\ version' = 2
    /\ IF dev.id = Old
       THEN \E m \in FromRegistries :
               dev' = (IF Moves(m) THEN [dev EXCEPT !.id = m] ELSE dev)
               /\ TakeOver(IF Moves(m) THEN {m} ELSE {})
       ELSE UNCHANGED <<dev, ent>>
    /\ UNCHANGED <<disk, hubs, pending, last, history>>

\* async_migrate_entry
Migrate ==
    /\ phase = "down" /\ version = 1
    /\ \/ phase' = "failed" /\ UNCHANGED <<dev, ent, version>>     \* a registry is unreadable
       \/ /\ phase' = "migrated"
          /\ version' = 2
          /\ \/ dev.id # Old /\ TakeOver({dev.id}) /\ UNCHANGED dev
             \/ dev.id = Old /\ FromRegistries = {} /\ TakeOver({}) /\ UNCHANGED dev
             \/ /\ dev.id = Old
                /\ \E m \in FromRegistries :
                      IF Moves(m) THEN TakeOver({m}) /\ dev' = [dev EXCEPT !.id = m]
                                  ELSE TakeOver({}) /\ UNCHANGED dev
    /\ UNCHANGED <<disk, hubs, pending, last, history>>

\* ConfigEntry.async_migrate returns early once the version matches.
SkipMigration ==
    /\ phase = "down" /\ version = 2
    /\ phase' = "migrated"
    /\ UNCHANGED <<dev, ent, version, disk, hubs, pending, last, history>>

-----------------------------------------------------------------------------
(* The residual pass and its listener.                                     *)

\* _complete_hub_identity_rekey
Pass(readable, H) ==
    \/ ~readable /\ pending' = "unread" /\ UNCHANGED <<dev, ent>>
    \/ readable /\ dev.id # Old /\ pending' = "settled" /\ UNCHANGED <<dev, ent>>
    \/ readable /\ dev.id = Old /\ Unplaced(H) /\ pending' = "old" /\ UNCHANGED <<dev, ent>>
    \/ /\ readable /\ dev.id = Old
       /\ \E m \in FromRecords(H) :
             IF Moves(m)
             THEN /\ pending' = "settled"
                  /\ dev' = [dev EXCEPT !.id = m]
                  /\ ent' = [ent EXCEPT !.id = [s \in Suffixes |->
                                IF Rekeyed({m})[s] # {} THEN m ELSE @[s]]]
             ELSE pending' = "old" /\ UNCHANGED <<dev, ent>>

\* The first refresh, and the pass ahead of the platforms.
Setup ==
    /\ phase = "migrated"
    /\ phase' = "setup"
    /\ \E readable \in BOOLEAN, H \in SUBSET Mids :
          /\ hubs' = H
          /\ Pass(readable, H)
          /\ last' = IF pending' = "settled" THEN {} ELSE H \ Wrappers
    /\ UNCHANGED <<version, disk, history>>

\* _register_hub_devices and the hub platforms, which are set up once: what is
\* listed registers what it does not find. Children find the row of their own hub.
Forward ==
    /\ phase = "setup"
    /\ phase' = "up"
    /\ LET listed == hubs \ Wrappers
       IN  /\ \E kids \in SUBSET dev.kids :
                 dev' = [dev EXCEPT !.fresh = @ \cup (listed \ {dev.id}), !.kids = kids]
           /\ ent' = [ent EXCEPT !.fresh = @ \cup {p \in listed \X Suffixes : ent.id[p[2]] # p[1]},
                                 !.conn = @ \cup listed]
    /\ blind' = (blind \/ pending = "unread")
    /\ UNCHANGED <<version, disk, hubs, pending, last, torn>>

\* Mutant: a pass that could not look closes the latch.
GateLooked(H) == pending = "old" /\ H \ Wrappers # last

\* Mutant: only a pass that could not look is run again.
GateUnread(H) == pending = "unread"

\* Does the listener run the pass on a list H?
Gate(H) == pending = "unread" \/ (pending = "old" /\ H \ Wrappers # last)

UpdateWith(readable, H) ==
    /\ phase \in {"setup", "up"}
    /\ hubs' = H
    /\ IF Gate(H) THEN Pass(readable, H) ELSE UNCHANGED <<dev, ent, pending>>
    /\ last' = IF pending' = "settled" THEN {} ELSE H \ Wrappers
    /\ UNCHANGED <<version, disk, phase, history>>

Update == \E readable \in BOOLEAN, H \in SUBSET Mids : UpdateWith(readable, H)

-----------------------------------------------------------------------------
(* Saves, crashes and reloads.                                             *)

\* The registries and the config entries save on independent debounced timers.
Save ==
    /\ disk' \in {[disk EXCEPT !.dev = dev], [disk EXCEPT !.ent = ent], [disk EXCEPT !.version = version]}
    /\ UNCHANGED <<dev, ent, version, session, history>>

\* Does an entity row lag behind the device row, its target free?
Lags(d, e) ==
    d.id # Old /\ \E s \in Suffixes : e.id[s] = Old /\ <<d.id, s>> \notin e.fresh

\* The process ends, with or without its pending saves.
Crash ==
    /\ phase' = "down"
    /\ dev' = disk.dev
    /\ ent' = disk.ent
    /\ version' = disk.version
    /\ hubs' = {}
    /\ pending' = "unread"
    /\ last' = {}
    /\ torn' = (torn \/ (disk.version = 2 /\ Lags(disk.dev, disk.ent)))
    /\ UNCHANGED <<disk, blind>>

Reload ==
    /\ phase = "up"
    /\ phase' = "down"
    /\ hubs' = {}
    /\ pending' = "unread"
    /\ last' = {}
    /\ UNCHANGED <<dev, ent, version, disk, history>>

Next ==
    \/ Migrate
    \/ SkipMigration
    \/ Setup
    \/ Forward
    \/ Update
    \/ Save
    \/ Crash
    \/ Reload

Spec == Init /\ [][Next]_vars

\* Polls and pushed frames go on, and the registries are read in the end.
FairSpec == Spec /\ WF_vars(UpdateWith(TRUE, hubs))

-----------------------------------------------------------------------------
(* Safety.                                                                 *)

\* No hub gets a second device page while the row with its area, name and children
\* keeps the old id, unless the platforms were set up after a pass that could not
\* look: the first pass stays ahead of them, and the listener ahead of the updates
\* in between.
SplitOnlyWhenBlind == dev.id = Old /\ dev.fresh \cap Digits # {} => blind

\* Once a session is past the migration no entity row lags behind its device row,
\* from whichever shape an interrupted run was resumed; a row whose target is taken
\* excepted, and what a crash tore while the version was already saved.
RekeyIsWhole == phase \in {"setup", "up"} => torn \/ ~Lags(dev, ent)

\* What async_migrate_entry says of an interrupted run: its retry finishes the
\* entity half, whichever half a crash had saved. The code does not keep it.
InterruptedRunRecovers == phase \in {"setup", "up"} => ~Lags(dev, ent)

\* A wrapper's mid gets onto the hub's row only by a child of that wrapper that
\* hangs on it: neither what the coordinator lists, nor the connectivity rows, nor a
\* crash that brings back what was saved, ever puts it there. On a version 1 install
\* with such a child (Hung) the code does take it.
KeyedToAHub == [][dev'.id \in Wrappers /\ dev'.id # dev.id => dev'.id \in dev.kids]_vars

-----------------------------------------------------------------------------
(* Liveness.                                                               *)

\* A hub the migration could not place is re-keyed while a session lasts, as soon
\* as the coordinator lists it, unless another row holds its id.
Waiting == phase = "up" /\ dev.id = Old /\ (hubs \ Wrappers) \cap Digits # {} /\ dev.fresh = {}

ResidualSettles == Waiting ~> ~Waiting

=============================================================================
