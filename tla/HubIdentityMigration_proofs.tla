--------------------- MODULE HubIdentityMigration_proofs ---------------------
(***************************************************************************)
(* The hub identity migration, for every set of mids, of wrappers and of   *)
(* suffixes.  SplitOnlyWhenBlind rests on what the last pass says of the   *)
(* list it saw and on the listener's comparison being with that same list  *)
(* (ListenerIsAhead); RekeyIsWhole on every session past the migration     *)
(* carrying the version that closes it (VersionIsBurned), and on what a    *)
(* crash restores being whole unless it tore (WholeUnlessTorn).            *)
(***************************************************************************)
EXTENDS HubIdentityMigration, TLAPS

Running == phase \in {"setup", "up"}

\* A version 2 entry is the only one a session starts from.
VersionIsBurned == phase \in {"migrated", "setup", "up"} => version = 2

\* SplitOnlyWhenBlind, of what is on the disk as well.
SavedSplit == disk.dev.id = Old /\ disk.dev.fresh \cap Digits # {} => blind

\* What the last pass said still holds of the row and of the list it left.
ListenerIsAhead ==
    Running =>
        /\ pending = "settled" => dev.id # Old
        /\ pending # "settled" => last = hubs \ Wrappers
        /\ pending = "old" /\ ~blind /\ dev.id = Old => (hubs \ Wrappers) \cap Digits = {}

\* What a version 2 entry's registries hold, whatever the phase.
WholeUnlessTorn == version = 2 /\ ~torn => ~Lags(dev, ent)

IInv ==
    /\ TypeOK
    /\ VersionIsBurned
    /\ SplitOnlyWhenBlind
    /\ SavedSplit
    /\ ListenerIsAhead
    /\ WholeUnlessTorn

-----------------------------------------------------------------------------

LEMMA OldIsNoMid == Old \notin Mids
  BY MigrationAssumption

\* A resolved mid is a decimal mid of the home.
LEMMA SourcesAreDecimal ==
    ASSUME TypeOK, NEW H \in SUBSET Mids
    PROVE  FromRegistries \subseteq Digits /\ FromRecords(H) \subseteq Digits
  BY DEF FromRegistries, FromRecords, Least

LEMMA DigitsAreMids == Digits \subseteq Mids
  BY DEF Digits

\* Where a hub of the list could have been named, the row is not left for want of one.
LEMMA UnplacedListsNoHub ==
    ASSUME NEW H \in SUBSET Mids, Unplaced(H)
    PROVE  (H \ Wrappers) \cap Digits = {}
  BY DEF Unplaced

\* The loop over the hub rows gives each entity row an id of the home.
LEMMA TakeOverTyped ==
    ASSUME TypeOK, NEW M \in SUBSET Mids, TakeOver(M)
    PROVE  /\ ent' \in Entities
           /\ ent'.fresh = ent.fresh
  BY DEF TypeOK, TakeOver, Entities

\* After it no entity row lags behind the original hub row.
LEMMA TakeOverIsWhole ==
    ASSUME TypeOK, NEW m \in Mids, TakeOver({m}), dev'.id = m
    PROVE  ~Lags(dev', ent')
<1>1. PICK id \in [Suffixes -> Ids] :
         /\ \A s \in Suffixes :
              LET later == Rekeyed(dev.fresh)[s]
                  own   == Rekeyed({m})[s]
              IN  id[s] \in (IF later # {} THEN later ELSE IF own # {} THEN own ELSE {ent.id[s]})
         /\ ent' = [ent EXCEPT !.id = id]
  BY DEF TakeOver
<1>2. ent'.id = id /\ ent'.fresh = ent.fresh
  BY <1>1 DEF TypeOK, Entities
<1>3. SUFFICES ASSUME NEW s \in Suffixes, id[s] = Old, <<m, s>> \notin ent.fresh
               PROVE  FALSE
  BY <1>2 DEF Lags
<1>4. Rekeyed(dev.fresh)[s] \subseteq Mids /\ Rekeyed({m})[s] \subseteq Mids
  BY DEF Rekeyed, TypeOK, Devices
<1>5. Rekeyed(dev.fresh)[s] = {} /\ Rekeyed({m})[s] = {}
  BY <1>1, <1>3, <1>4, OldIsNoMid
<1>6. ent.id[s] = Old
  BY <1>1, <1>3, <1>5
<1>7. m \in Rekeyed({m})[s]
  BY <1>3, <1>6 DEF Rekeyed
<1>8. QED
  BY <1>5, <1>7


\* What a residual pass on the list H does: nothing while the row is left, else it
\* moves the row to a decimal mid and takes along what can follow.
LEMMA PassFacts ==
    ASSUME TypeOK, NEW readable \in BOOLEAN, NEW H \in SUBSET Mids, Pass(readable, H)
    PROVE  /\ dev' \in Devices /\ ent' \in Entities /\ pending' \in {"unread", "old", "settled"}
           /\ dev'.fresh = dev.fresh /\ ent'.fresh = ent.fresh
           /\ dev.id # Old => dev' = dev /\ ent' = ent
           /\ dev'.id = Old => dev' = dev /\ ent' = ent
           /\ pending' = "settled" => dev'.id # Old
           /\ pending' = "old" => \/ (H \ Wrappers) \cap Digits = {}
                                  \/ dev.id = Old /\ dev.fresh \cap Digits # {}
           /\ dev.id = Old /\ dev'.id # Old => ~Lags(dev', ent')
<1>1. CASE ~readable /\ pending' = "unread" /\ UNCHANGED <<dev, ent>>
  BY <1>1 DEF TypeOK
<1>2. CASE readable /\ dev.id # Old /\ pending' = "settled" /\ UNCHANGED <<dev, ent>>
  BY <1>2 DEF TypeOK
<1>3. CASE readable /\ dev.id = Old /\ Unplaced(H) /\ pending' = "old" /\ UNCHANGED <<dev, ent>>
  BY <1>3, UnplacedListsNoHub DEF TypeOK
<1>4. CASE /\ readable /\ dev.id = Old
           /\ \E m \in FromRecords(H) :
                 IF Moves(m)
                 THEN /\ pending' = "settled"
                      /\ dev' = [dev EXCEPT !.id = m]
                      /\ ent' = [ent EXCEPT !.id = [s \in Suffixes |->
                                    IF Rekeyed({m})[s] # {} THEN m ELSE @[s]]]
                 ELSE pending' = "old" /\ UNCHANGED <<dev, ent>>
  <2>1. PICK m \in FromRecords(H) :
           IF Moves(m)
           THEN /\ pending' = "settled"
                /\ dev' = [dev EXCEPT !.id = m]
                /\ ent' = [ent EXCEPT !.id = [s \in Suffixes |->
                              IF Rekeyed({m})[s] # {} THEN m ELSE @[s]]]
           ELSE pending' = "old" /\ UNCHANGED <<dev, ent>>
    BY <1>4
  <2>2. m \in Digits /\ m \in Mids /\ m # Old
    BY SourcesAreDecimal, DigitsAreMids, OldIsNoMid
  <2>3. CASE ~Moves(m)
    <3>1. m \in dev.fresh \cap Digits
      BY <2>2, <2>3 DEF Moves
    <3>2. QED
      BY <1>4, <2>1, <2>3, <3>1 DEF TypeOK
  <2>4. CASE Moves(m)
    <3>1. /\ pending' = "settled"
          /\ dev' = [dev EXCEPT !.id = m]
          /\ ent' = [ent EXCEPT !.id = [s \in Suffixes |->
                        IF Rekeyed({m})[s] # {} THEN m ELSE ent.id[s]]]
      BY <2>1, <2>4
    <3>2. dev' \in Devices /\ dev'.id = m /\ dev'.fresh = dev.fresh
      BY <2>2, <3>1 DEF TypeOK, Devices, Ids
    <3>3. /\ ent' \in Entities /\ ent'.fresh = ent.fresh
          /\ ent'.id = [s \in Suffixes |-> IF Rekeyed({m})[s] # {} THEN m ELSE ent.id[s]]
      BY <2>2, <3>1 DEF TypeOK, Entities, Ids
    <3>4. ~Lags(dev', ent')
      <4>1. SUFFICES ASSUME NEW s \in Suffixes, ent'.id[s] = Old, <<m, s>> \notin ent.fresh
                     PROVE  FALSE
        BY <3>2, <3>3 DEF Lags
      <4>2. Rekeyed({m})[s] = {} /\ ent.id[s] = Old
        BY <2>2, <3>3, <4>1
      <4>3. m \in Rekeyed({m})[s]
        BY <4>1, <4>2 DEF Rekeyed
      <4>4. QED
        BY <4>2, <4>3
    <3>5. QED
      BY <1>4, <2>2, <3>1, <3>2, <3>3, <3>4
  <2>5. QED
    BY <2>3, <2>4
<1>5. QED
  BY <1>1, <1>2, <1>3, <1>4 DEF Pass

-----------------------------------------------------------------------------
(* The invariant.                                                          *)

LEMMA InitIInv == Init => IInv
<1>1. SUFFICES ASSUME Init PROVE IInv
  OBVIOUS
<1>2. PICK kids \in SUBSET Hung : dev = [id |-> Old, kids |-> kids, fresh |-> {}]
  BY <1>1 DEF Init
<1>3. PICK conn \in SUBSET Hubs : ent = [id |-> [s \in Suffixes |-> Old], fresh |-> {}, conn |-> conn]
  BY <1>1 DEF Init
<1>4. dev \in Devices /\ ent \in Entities
  BY <1>2, <1>3, MigrationAssumption DEF Devices, Entities, Ids, Hubs
<1>5. TypeOK
  BY <1>1, <1>4 DEF Init, TypeOK
<1>6. QED
  BY <1>1, <1>2, <1>5 DEF Init, IInv, VersionIsBurned, SplitOnlyWhenBlind, SavedSplit,
                          ListenerIsAhead, Running, WholeUnlessTorn

LEMMA MigrateIInv == IInv /\ Migrate => IInv'
<1>1. SUFFICES ASSUME IInv, Migrate PROVE IInv'
  OBVIOUS
<1>2. TypeOK
  BY <1>1 DEF IInv
<1>3. CASE phase' = "failed" /\ UNCHANGED <<dev, ent, version>>
  BY <1>1, <1>3 DEF IInv, Migrate, TypeOK, VersionIsBurned, SplitOnlyWhenBlind, SavedSplit,
                    ListenerIsAhead, Running, WholeUnlessTorn, Lags, history
<1>4. CASE phase' = "migrated" /\ version' = 2 /\ UNCHANGED dev /\ \E M \in SUBSET Mids : TakeOver(M) /\ dev.id \in M \cup {Old}
                                                             /\ (dev.id # Old => M = {dev.id})
  <2>1. PICK M \in SUBSET Mids : TakeOver(M) /\ dev.id \in M \cup {Old} /\ (dev.id # Old => M = {dev.id})
    BY <1>4
  <2>2. TypeOK'
    BY <1>1, <1>2, <1>4, <2>1, TakeOverTyped DEF Migrate, TypeOK, history
  <2>3. ~Lags(dev', ent')
    <3>1. CASE dev.id = Old
      BY <1>4, <3>1 DEF Lags
    <3>2. CASE dev.id # Old
      <4>1. dev.id \in Mids /\ TakeOver({dev.id}) /\ dev'.id = dev.id
        BY <1>4, <2>1, <3>2
      <4>2. QED
        BY <1>2, <4>1, TakeOverIsWhole
    <3>3. QED
      BY <3>1, <3>2
  <2>4. QED
    BY <1>1, <1>4, <2>2, <2>3 DEF IInv, Migrate, VersionIsBurned, SplitOnlyWhenBlind, SavedSplit,
                             ListenerIsAhead, Running, WholeUnlessTorn, history
<1>5. CASE phase' = "migrated" /\ version' = 2 /\ dev.id = Old
           /\ \E m \in FromRegistries : TakeOver({m}) /\ dev' = [dev EXCEPT !.id = m]
  <2>1. PICK m \in FromRegistries : TakeOver({m}) /\ dev' = [dev EXCEPT !.id = m]
    BY <1>5
  <2>2. m \in Mids /\ m # Old
    BY <1>2, SourcesAreDecimal, DigitsAreMids, OldIsNoMid DEF TypeOK
  <2>3. dev' \in Devices /\ dev'.id = m
    BY <1>2, <2>1, <2>2 DEF TypeOK, Devices, Ids
  <2>4. TypeOK'
    BY <1>1, <1>2, <1>5, <2>1, <2>2, <2>3, TakeOverTyped DEF Migrate, TypeOK, history
  <2>5. ~Lags(dev', ent')
    BY <1>2, <2>1, <2>2, <2>3, TakeOverIsWhole
  <2>6. QED
    BY <1>1, <1>5, <2>2, <2>3, <2>4, <2>5 DEF IInv, Migrate, VersionIsBurned, SplitOnlyWhenBlind, SavedSplit,
                             ListenerIsAhead, Running, WholeUnlessTorn, history
<1>6. QED
  <2>1. CASE phase' = "migrated" /\ version' = 2 /\ dev.id # Old /\ TakeOver({dev.id}) /\ UNCHANGED dev
    BY <1>2, <1>4, <2>1 DEF TypeOK, Devices, Ids
  <2>2. CASE phase' = "migrated" /\ version' = 2 /\ dev.id = Old /\ TakeOver({}) /\ UNCHANGED dev
    BY <1>4, <2>2
  <2>3. QED
    BY <1>1, <1>3, <1>5, <2>1, <2>2 DEF Migrate

LEMMA SkipIInv == IInv /\ SkipMigration => IInv'
  BY DEF IInv, SkipMigration, TypeOK, VersionIsBurned, SplitOnlyWhenBlind, SavedSplit,
         ListenerIsAhead, Running, WholeUnlessTorn, Lags, history

LEMMA SetupIInv == IInv /\ Setup => IInv'
<1>1. SUFFICES ASSUME IInv, Setup PROVE IInv'
  OBVIOUS
<1>2. PICK readable \in BOOLEAN, H \in SUBSET Mids :
         /\ hubs' = H
         /\ Pass(readable, H)
         /\ last' = IF pending' = "settled" THEN {} ELSE H \ Wrappers
  BY <1>1 DEF Setup
<1>3. TypeOK
  BY <1>1 DEF IInv
<1>4. TypeOK'
  BY <1>1, <1>2, <1>3, PassFacts DEF Setup, TypeOK, history
<1>5. SplitOnlyWhenBlind'
  BY <1>1, <1>2, <1>3, PassFacts DEF IInv, Setup, SplitOnlyWhenBlind, history
<1>6. ListenerIsAhead'
  BY <1>1, <1>2, <1>3, PassFacts DEF IInv, Setup, SplitOnlyWhenBlind, ListenerIsAhead, Running, history
<1>7. WholeUnlessTorn'
  BY <1>1, <1>2, <1>3, PassFacts DEF IInv, Setup, WholeUnlessTorn, Lags, history
<1>8. QED
  BY <1>1, <1>4, <1>5, <1>6, <1>7 DEF IInv, Setup, VersionIsBurned, SavedSplit, history

LEMMA UpdateIInv == IInv /\ Update => IInv'
<1>1. SUFFICES ASSUME IInv, NEW readable \in BOOLEAN, NEW H \in SUBSET Mids, UpdateWith(readable, H)
               PROVE  IInv'
  BY DEF Update
<1>2. TypeOK /\ Running
  BY <1>1 DEF IInv, UpdateWith, Running
<1>3. CASE Gate(H)
  <2>1. Pass(readable, H) /\ pending # "settled"
    BY <1>1, <1>3 DEF UpdateWith, Gate
  <2>2. TypeOK'
    BY <1>1, <1>2, <2>1, PassFacts DEF UpdateWith, TypeOK, history
  <2>3. SplitOnlyWhenBlind'
    BY <1>1, <1>2, <2>1, PassFacts DEF IInv, UpdateWith, SplitOnlyWhenBlind, history
  <2>4. ListenerIsAhead'
    BY <1>1, <1>2, <2>1, PassFacts DEF IInv, UpdateWith, SplitOnlyWhenBlind, ListenerIsAhead, Running, history
  <2>5. WholeUnlessTorn'
    BY <1>1, <1>2, <2>1, PassFacts DEF IInv, UpdateWith, WholeUnlessTorn, Lags, history
  <2>6. QED
    BY <1>1, <2>2, <2>3, <2>4, <2>5 DEF IInv, UpdateWith, VersionIsBurned, SavedSplit, history
<1>4. CASE ~Gate(H)
  <2>1. UNCHANGED <<dev, ent, pending, version, disk, phase, history>>
    BY <1>1, <1>4 DEF UpdateWith
  <2>2. TypeOK'
    BY <1>1, <1>2, <2>1 DEF UpdateWith, TypeOK, history
  <2>3. ListenerIsAhead'
    <3>1. CASE pending = "settled"
      BY <1>1, <1>2, <2>1, <3>1 DEF IInv, ListenerIsAhead, Running, history
    <3>2. CASE pending = "old"
      <4>1. H \ Wrappers = last /\ last = hubs \ Wrappers /\ last' = H \ Wrappers /\ hubs' = H
        BY <1>1, <1>2, <1>4, <3>2 DEF IInv, ListenerIsAhead, Gate, UpdateWith
      <4>2. QED
        BY <1>1, <1>2, <2>1, <3>2, <4>1 DEF IInv, ListenerIsAhead, Running, history
    <3>3. QED
      BY <1>2, <1>4, <3>1, <3>2 DEF Gate, TypeOK
  <2>4. QED
    BY <1>1, <2>1, <2>2, <2>3 DEF IInv, VersionIsBurned, SplitOnlyWhenBlind, SavedSplit,
                                  WholeUnlessTorn, Lags, history
<1>5. QED
  BY <1>3, <1>4

LEMMA ForwardIInv == IInv /\ Forward => IInv'
<1>1. SUFFICES ASSUME IInv, Forward PROVE IInv'
  OBVIOUS
<1>2. TypeOK /\ Running
  BY <1>1 DEF IInv, Forward, Running
<1>3. DEFINE listed == hubs \ Wrappers
<1>4. PICK kids \in SUBSET dev.kids :
         dev' = [dev EXCEPT !.fresh = @ \cup (listed \ {dev.id}), !.kids = kids]
  BY <1>1 DEF Forward
<1>5. dev' \in Devices /\ dev'.id = dev.id /\ dev'.fresh = dev.fresh \cup (listed \ {dev.id})
  BY <1>2, <1>4 DEF TypeOK, Devices
<1>6. /\ ent' = [ent EXCEPT !.fresh = @ \cup {p \in listed \X Suffixes : ent.id[p[2]] # p[1]},
                            !.conn = @ \cup listed]
      /\ blind' = (blind \/ pending = "unread")
      /\ phase' = "up"
      /\ UNCHANGED <<version, disk, hubs, pending, last, torn>>
  BY <1>1 DEF Forward
<1>7. ent' \in Entities /\ ent'.id = ent.id /\ ent.fresh \subseteq ent'.fresh
  BY <1>2, <1>6 DEF TypeOK, Entities
<1>8. TypeOK'
  BY <1>2, <1>5, <1>6, <1>7 DEF TypeOK
<1>9. SplitOnlyWhenBlind'
  <2>1. SUFFICES ASSUME dev.id = Old, ~blind, pending # "unread"
                 PROVE  dev'.fresh \cap Digits = {}
    BY <1>5, <1>6 DEF SplitOnlyWhenBlind
  <2>2. pending = "old"
    BY <1>1, <1>2, <2>1 DEF IInv, ListenerIsAhead, TypeOK
  <2>3. listed \cap Digits = {} /\ dev.fresh \cap Digits = {}
    BY <1>1, <1>2, <2>1, <2>2 DEF IInv, ListenerIsAhead, SplitOnlyWhenBlind
  <2>4. QED
    BY <1>5, <2>3
<1>10. ListenerIsAhead'
  BY <1>1, <1>2, <1>5, <1>6 DEF IInv, ListenerIsAhead, Running
<1>11. WholeUnlessTorn'
  BY <1>1, <1>5, <1>6, <1>7 DEF IInv, WholeUnlessTorn, Lags
<1>12. QED
  BY <1>1, <1>2, <1>6, <1>8, <1>9, <1>10, <1>11 DEF IInv, VersionIsBurned, SavedSplit, Running

LEMMA SaveIInv == IInv /\ Save => IInv'
<1>1. SUFFICES ASSUME IInv, Save PROVE IInv'
  OBVIOUS
<1>2. UNCHANGED <<dev, ent, version, session, history>>
  BY <1>1 DEF Save
<1>3. /\ disk' \in [dev : Devices, ent : Entities, version : {1, 2}]
      /\ disk'.dev \in {dev, disk.dev}
  BY <1>1 DEF IInv, TypeOK, Save
<1>4. TypeOK'
  BY <1>1, <1>2, <1>3 DEF IInv, TypeOK, session, history
<1>5. SavedSplit'
  BY <1>1, <1>2, <1>3 DEF IInv, SavedSplit, SplitOnlyWhenBlind, session, history
<1>6. QED
  BY <1>1, <1>2, <1>4, <1>5 DEF IInv, VersionIsBurned, SplitOnlyWhenBlind, ListenerIsAhead, Running,
                                WholeUnlessTorn, Lags, session, history

LEMMA CrashIInv == IInv /\ Crash => IInv'
<1>1. SUFFICES ASSUME IInv, Crash PROVE IInv'
  OBVIOUS
<1>2. TypeOK'
  BY <1>1 DEF IInv, TypeOK, Crash
<1>3. WholeUnlessTorn'
  BY <1>1 DEF Crash, WholeUnlessTorn, Lags
<1>4. QED
  BY <1>1, <1>2, <1>3 DEF IInv, Crash, VersionIsBurned, SplitOnlyWhenBlind, SavedSplit,
                          ListenerIsAhead, Running

LEMMA ReloadIInv == IInv /\ Reload => IInv'
<1>1. SUFFICES ASSUME IInv, Reload PROVE IInv'
  OBVIOUS
<1>2. TypeOK'
  BY <1>1 DEF IInv, TypeOK, Reload, history
<1>3. QED
  BY <1>1, <1>2 DEF IInv, Reload, VersionIsBurned, SplitOnlyWhenBlind, SavedSplit,
                    ListenerIsAhead, Running, WholeUnlessTorn, Lags, history

LEMMA StutterIInv == IInv /\ UNCHANGED vars => IInv'
  BY DEF IInv, vars, session, history, TypeOK, VersionIsBurned, SplitOnlyWhenBlind, SavedSplit,
         ListenerIsAhead, Running, WholeUnlessTorn, Lags

\* The inductive invariant holds of every behaviour.
THEOREM Inductive == Spec => []IInv
<1>1. IInv /\ [Next]_vars => IInv'
  BY MigrateIInv, SkipIInv, SetupIInv, UpdateIInv, ForwardIInv, SaveIInv, CrashIInv, ReloadIInv,
     StutterIInv DEF Next
<1>2. QED
  BY InitIInv, <1>1, PTL DEF Spec

-----------------------------------------------------------------------------
(* The results.                                                            *)

\* Whatever hubs, wrappers and suffixes a home has, and wherever a crash falls, the
\* registries, the saved copies and the listener's state keep their types.
THEOREM TypeCorrect == Spec => []TypeOK
<1>1. IInv => TypeOK
  BY DEF IInv
<1>2. QED
  BY Inductive, <1>1, PTL

\* A home's hub is never split over two device pages by an orderly start: the pass
\* ahead of the platforms, and the listener ahead of the updates in between, re-key
\* the row before a hub of the home registers its own.
THEOREM NoSplitUnlessBlind == Spec => []SplitOnlyWhenBlind
<1>1. IInv => SplitOnlyWhenBlind
  BY DEF IInv
<1>2. QED
  BY Inductive, <1>1, PTL

\* Whichever registry saves a crash lost, a session that gets past the migration
\* runs with no entity row behind its device row, unless the saved version had
\* already closed the migration over torn registries.
THEOREM RekeyIsCompleted == Spec => []RekeyIsWhole
<1>1. IInv => RekeyIsWhole
  BY DEF IInv, RekeyIsWhole, VersionIsBurned, WholeUnlessTorn
<1>2. QED
  BY Inductive, <1>1, PTL

-----------------------------------------------------------------------------
(* Wrappers.                                                               *)

\* A connectivity row is a hub's, and the saved device row is keyed as the live one
\* is or not yet re-keyed.
Provenance ==
    /\ ent.conn \subseteq Hubs
    /\ disk.ent.conn \subseteq Hubs
    /\ disk.dev.id \in {Old, dev.id}

\* The only source that names a wrapper is a child on the row.
LEMMA OnlyChildrenNameWrappers ==
    ASSUME Provenance, NEW H, NEW m \in (FromRegistries \cup FromRecords(H)) \cap Wrappers
    PROVE  m \in dev.kids
BY DEF Provenance, FromRegistries, FromRecords, Least, Hubs

LEMMA TakeOverKeepsConn ==
    ASSUME TypeOK, NEW M, TakeOver(M)
    PROVE  ent'.conn = ent.conn
BY DEF TypeOK, TakeOver, Entities

\* What a step may do to the key of the row.
KeyedStep == dev'.id \in Wrappers /\ dev'.id # dev.id => dev'.id \in dev.kids

LEMMA ProvenanceStep ==
    ASSUME TypeOK, Provenance, [Next]_vars
    PROVE  Provenance' /\ KeyedStep
<1> USE DEF KeyedStep
<1>0. Old \notin Wrappers
  BY OldIsNoMid, MigrationAssumption
<1>1. CASE Migrate
  <2>1. disk' = disk
    BY <1>1 DEF Migrate
  <2>2. CASE UNCHANGED <<dev, ent>>
    BY <2>1, <2>2 DEF Provenance
  <2>3. CASE TakeOver({dev.id}) /\ UNCHANGED dev
    BY <2>1, <2>3, TakeOverKeepsConn DEF Provenance
  <2>4. CASE TakeOver({}) /\ UNCHANGED dev
    BY <2>1, <2>4, TakeOverKeepsConn DEF Provenance
  <2>5. ASSUME NEW m \in FromRegistries, dev.id = Old, TakeOver({m}), dev' = [dev EXCEPT !.id = m]
        PROVE  Provenance' /\ KeyedStep
    <3>1. dev'.id = m /\ (m \in Wrappers => m \in dev.kids)
      BY <2>5, OnlyChildrenNameWrappers DEF TypeOK, Devices
    <3> QED  BY <2>1, <2>5, <3>1, TakeOverKeepsConn DEF Provenance
  <2> QED  BY <1>1, <2>2, <2>3, <2>4, <2>5 DEF Migrate
<1>2. ASSUME NEW readable, NEW H, Pass(readable, H), disk' = disk
      PROVE  Provenance' /\ KeyedStep
  <2>1. CASE UNCHANGED <<dev, ent>>
    BY <1>2, <2>1 DEF Provenance
  <2>2. ASSUME NEW m \in FromRecords(H), dev.id = Old,
               dev' = [dev EXCEPT !.id = m],
               ent' = [ent EXCEPT !.id = [s \in Suffixes |->
                          IF Rekeyed({m})[s] # {} THEN m ELSE @[s]]]
        PROVE  Provenance' /\ KeyedStep
    <3>1. dev'.id = m /\ (m \in Wrappers => m \in dev.kids) /\ ent'.conn = ent.conn
      BY <2>2, OnlyChildrenNameWrappers DEF TypeOK, Devices, Entities
    <3> QED  BY <1>2, <2>2, <3>1 DEF Provenance
  <2> QED  BY <1>2, <2>1, <2>2 DEF Pass
<1>3. CASE Setup
  BY <1>2, <1>3 DEF Setup
<1>4. CASE Update
  BY <1>2, <1>4 DEF Update, UpdateWith, Provenance
<1>5. CASE Forward
  <2>1. /\ dev'.id = dev.id
        /\ ent'.conn = ent.conn \cup (hubs \ Wrappers)
        /\ disk' = disk
    BY <1>5 DEF Forward, TypeOK, Devices, Entities
  <2>2. hubs \ Wrappers \subseteq Hubs
    BY DEF TypeOK, Hubs
  <2> QED  BY <2>1, <2>2 DEF Provenance
<1>6. CASE Save
  <2>1. /\ UNCHANGED <<dev, ent>>
        /\ disk'.dev \in {disk.dev, dev} /\ disk'.ent \in {disk.ent, ent}
    BY <1>6 DEF Save, TypeOK
  <2> QED  BY <2>1 DEF Provenance
<1>7. CASE Crash
  BY <1>0, <1>7 DEF Crash, Provenance
<1>8. CASE SkipMigration \/ Reload \/ UNCHANGED vars
  BY <1>8 DEF SkipMigration, Reload, vars, Provenance
<1> QED  BY <1>1, <1>3, <1>4, <1>5, <1>6, <1>7, <1>8 DEF Next

\* On every install the row is keyed to a wrapper's record only by a child of that
\* wrapper that hangs on it (_resolve_hub_mid reads children first and cannot tell a
\* wrapper's): the residual pass takes none from the coordinator's list
\* (_resolve_residual_hub_mid), and no crash brings an earlier key back.
THEOREM RowsAreKeyedToHubs == Spec => KeyedToAHub
<1>1. Init => Provenance
  <2> SUFFICES ASSUME Init PROVE Provenance
    OBVIOUS
  <2>1. PICK conn \in SUBSET Hubs :
           ent = [id |-> [s \in Suffixes |-> Old], fresh |-> {}, conn |-> conn]
    BY DEF Init
  <2>2. ent.conn = conn /\ disk.dev = dev /\ disk.ent = ent /\ dev.id = Old
    BY <2>1 DEF Init
  <2> QED  BY <2>2 DEF Provenance
<1>2. TypeOK /\ Provenance /\ [Next]_vars => Provenance' /\ [KeyedStep]_vars
  BY ProvenanceStep
<1>3. QED
  BY <1>1, <1>2, TypeCorrect, PTL DEF Spec, KeyedToAHub, KeyedStep

-----------------------------------------------------------------------------
(* The latch is not shut too early.                                        *)

\* A pass that looked and left the row waiting had no hub to give it to, unless a
\* row registered since stands in its way.
LatchIsJust ==
    Running /\ pending = "old" /\ dev.id = Old /\ dev.fresh \cap Digits = {}
        => (hubs \ Wrappers) \cap Digits = {}

LEMMA LatchStep == IInv /\ LatchIsJust /\ [Next]_vars => LatchIsJust'
<1> SUFFICES ASSUME IInv, LatchIsJust, [Next]_vars
             PROVE  LatchIsJust'
  OBVIOUS
<1>0. TypeOK
  BY DEF IInv
<1>1. CASE Setup
  <2>1. PICK readable \in BOOLEAN, H \in SUBSET Mids : hubs' = H /\ Pass(readable, H)
    BY <1>1 DEF Setup
  <2> QED  BY <1>0, <2>1, PassFacts DEF LatchIsJust
<1>2. ASSUME NEW readable \in BOOLEAN, NEW H \in SUBSET Mids, UpdateWith(readable, H)
      PROVE  LatchIsJust'
  <2>1. CASE Gate(H)
    BY <1>0, <1>2, <2>1, PassFacts DEF UpdateWith, LatchIsJust
  <2>2. CASE ~Gate(H) /\ pending = "old"
    <3>1. H \ Wrappers = hubs \ Wrappers
      BY <1>2, <2>2 DEF Gate, UpdateWith, IInv, ListenerIsAhead, Running
    <3> QED  BY <1>2, <2>2, <3>1 DEF UpdateWith, LatchIsJust, Running
  <2>3. CASE ~Gate(H) /\ pending # "old"
    BY <1>2, <2>3 DEF UpdateWith, LatchIsJust
  <2> QED  BY <2>1, <2>2, <2>3
<1>3. CASE Forward
  <2>1. dev'.id = dev.id /\ dev.fresh \subseteq dev'.fresh
    BY <1>0, <1>3 DEF Forward, TypeOK, Devices
  <2> QED  BY <1>3, <2>1 DEF Forward, LatchIsJust, Running
<1>4. CASE Save
  BY <1>4 DEF Save, session, LatchIsJust, Running
<1>5. CASE Migrate \/ SkipMigration \/ Crash \/ Reload
  BY <1>5 DEF Migrate, SkipMigration, Crash, Reload, LatchIsJust, Running
<1>6. CASE UNCHANGED vars
  BY <1>6 DEF vars, session, LatchIsJust, Running
<1> QED  BY <1>1, <1>2, <1>3, <1>4, <1>5, <1>6 DEF Next, Update

\* A readable update gives the waiting row to a hub the list names.
LEMMA UpdateSettles ==
    ASSUME IInv, LatchIsJust, Waiting, UpdateWith(TRUE, hubs)
    PROVE  ~Waiting'
<1>1. TypeOK /\ Running /\ dev.id = Old /\ dev.fresh \cap Digits = {}
      /\ (hubs \ Wrappers) \cap Digits # {}
  BY DEF IInv, Waiting, Running
<1>2. Gate(hubs) /\ Pass(TRUE, hubs)
  <2>1. pending = "unread"
    BY <1>1 DEF IInv, ListenerIsAhead, LatchIsJust, TypeOK
  <2> QED  BY <2>1 DEF Gate, UpdateWith
<1>3. pending' # "unread"
  BY <1>2 DEF Pass
<1>4. dev'.id # Old
  BY <1>1, <1>2, <1>3, PassFacts DEF TypeOK
<1> QED  BY <1>4 DEF Waiting

\* The next readable update can run while a row waits.
PassCanRun == Waiting => ENABLED <<UpdateWith(TRUE, hubs)>>_vars

\* A row the migration could not place does not wait for ever in a session whose
\* coordinator lists its hub: the listener of _complete_hub_identity_rekey_on_updates
\* never stops looking before the row has been given a hub.
THEOREM ResidualIsSettled == FairSpec /\ []PassCanRun => ResidualSettles
<1>1. Init => LatchIsJust
  BY DEF Init, LatchIsJust, Running
<1>2. IInv /\ LatchIsJust /\ Waiting /\ <<UpdateWith(TRUE, hubs)>>_vars => ~Waiting'
  BY UpdateSettles
<1> QED
  BY <1>1, <1>2, LatchStep, Inductive, PTL DEF Spec, FairSpec, PassCanRun, ResidualSettles

=============================================================================
