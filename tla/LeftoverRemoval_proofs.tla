----------------------- MODULE LeftoverRemoval_proofs -----------------------
(***************************************************************************)
(* Theorems of LeftoverRemoval for every set of rows, platforms and        *)
(* builders, and every length of the window.                               *)
(***************************************************************************)
EXTENDS LeftoverRemoval, TLAPS

-----------------------------------------------------------------------------
(* What the parts of a step do.                                            *)

LEMMA Shapes ==
  /\ None \notin Offer
  /\ \A o \in Offer : o.shape \in {"leftover", "departed"} /\ o.pairs \subseteq Rows /\ o # None
  /\ None.shape = "none" /\ None.pairs = {}
BY DEF None, Offer

LEMMA BumpType ==
  ASSUME NEW n \in 0 .. LeftoverDebounce
  PROVE  /\ Bump(n) \in 0 .. LeftoverDebounce /\ n <= Bump(n)
         /\ \A m \in 0 .. n : Bump(m) <= Bump(n)
BY LeftoverAssumption DEF Bump

LEMMA DeadType == TypeOK => Dead \subseteq rows \ (ledger \cup live \cup Outlets) /\ Dead \subseteq Rows
BY DEF Dead, TypeOK

\* The adders hand over `fresh`: the sensor adder only while the record's mark is
\* not set, the others only what their ledger does not hold.
LEMMA CollectFacts ==
  ASSUME TypeOK, NEW v \in Views, NEW P \in SUBSET Platforms, Collect(v, P)
  PROVE  \E fresh \in SUBSET Rows :
            /\ ledger' = ledger \cup fresh /\ rows' = rows \cup fresh /\ live' = live \cup fresh
            /\ deviceRow' = (deviceRow \/ fresh # {})
            /\ refused' = refused \cup (fresh \cap live)
            /\ marks' \subseteq Records /\ marks \subseteq marks'
            /\ fresh # {} => v.sensor \in Records
            /\ \A r \in fresh :
                  IF PlatformOf[r] = KeyIndexed
                  THEN v.sensor \notin marks /\ v.sensor \in marks' /\ r \in Emits[v.sensor]
                  ELSE r \notin ledger
<1>1. PICK built \in Buildable(v) :
         /\ ledger' = ledger \cup Fresh(v, built, P)
         /\ marks' = IF KeyIndexed \in P THEN marks \cup ({v.sensor} \cap Records) ELSE marks
         /\ rows' = rows \cup Fresh(v, built, P)
         /\ deviceRow' = (deviceRow \/ Fresh(v, built, P) # {})
         /\ live' = live \cup Fresh(v, built, P)
         /\ refused' = refused \cup (Fresh(v, built, P) \cap live)
  BY DEF Collect
<1>2. built \subseteq Rows /\ (built # {} => v.sensor \in Records /\ built \subseteq Emits[v.sensor])
  BY LeftoverAssumption DEF Buildable
<1>3. Fresh(v, built, P) \subseteq built
  BY DEF Fresh
<1>4. marks' \subseteq Records /\ marks \subseteq marks'
  BY <1>1 DEF TypeOK
<1>5. ASSUME NEW r \in Fresh(v, built, P)
      PROVE  IF PlatformOf[r] = KeyIndexed
             THEN v.sensor \notin marks /\ v.sensor \in marks' /\ r \in Emits[v.sensor]
             ELSE r \notin ledger
  BY <1>1, <1>2, <1>3, <1>5 DEF Fresh
<1> QED
  BY <1>1, <1>2, <1>3, <1>4, <1>5

\* A confirm of the still-present shape takes dead rows of the offer that have
\* served their window.
LEMMA RemoveLeftoverFacts ==
  ASSUME TypeOK, NEW offered \in SUBSET Rows, RemoveLeftover(offered)
  PROVE  \E taken \in SUBSET (Dead \cap offered) :
            /\ rows' = rows \ taken /\ live' = live \ taken
            /\ UNCHANGED <<deviceRow, ledger, marks>>
            /\ \A r \in taken : counts[r] >= LeftoverDebounce
<1> DEFINE Scope(blind) == IF blind THEN {} ELSE Settled(view, counts) \cap offered
<1>1. PICK blind \in BOOLEAN : \E failed \in SUBSET Scope(blind) :
         RemoveRows(Scope(blind) \ failed) /\ UNCHANGED <<deviceRow, books>>
  BY DEF RemoveLeftover, LeftoverNow
<1>2. PICK failed \in SUBSET Scope(blind) :
         RemoveRows(Scope(blind) \ failed) /\ UNCHANGED <<deviceRow, books>>
  BY <1>1
<1>3. Scope(blind) \subseteq Dead \cap offered /\ \A r \in Scope(blind) : counts[r] >= LeftoverDebounce
  BY DEF Settled, Derived
<1> QED
  BY <1>2, <1>3 DEF RemoveRows, books

\* A confirm of the departed shape takes nothing, or rows of the offer while the
\* key is unlisted; what it leaves in the registry keeps its bookkeeping.
LEMMA RemoveDepartedFacts ==
  ASSUME TypeOK, NEW offered \in SUBSET Rows, RemoveDeparted(offered)
  PROVE  \/ UNCHANGED <<rows, deviceRow, live, ledger, marks>>
         \/ /\ view.listed = "no"
            /\ \E failed \in SUBSET (offered \cap rows) :
                  /\ rows' = rows \ (offered \ failed) /\ live' = live \ (offered \ failed)
                  /\ deviceRow' \in BOOLEAN
                  /\ deviceRow /\ ~deviceRow' => rows' = {}
                  /\ ledger' = Kept(failed \cup (ledger \ offered))
                  /\ marks' = IF OnPlatform(ledger', KeyIndexed) = {} THEN {} ELSE marks
BY DEF RemoveDeparted, ReleaseDeviceRow, RemoveRows, Forget, registries, books, TypeOK

LEMMA KeptFacts ==
  ASSUME NEW held
  PROVE  /\ Kept(held) \subseteq ledger
         /\ ledger \cap held \subseteq Kept(held)
         /\ \A r \in Kept(held) : PlatformOf[r] # KeyIndexed => r \in held
         /\ OnPlatform(Kept(held), KeyIndexed) # {} => OnPlatform(ledger \cap held, KeyIndexed) # {}
BY DEF Kept, OnPlatform

\* What a sweep may do to the window, the manager and the card.
LEMMA SweepFacts ==
  ASSUME TypeOK, NEW v \in Views, NEW blind \in BOOLEAN, NEW readable \in BOOLEAN,
         NEW accepted \in BOOLEAN, Sweep(v, blind, readable, accepted)
  PROVE  /\ counts' \in [Rows -> 0 .. LeftoverDebounce]
         /\ \A r \in Rows : \/ counts'[r] = counts[r] \/ counts'[r] = 0
                            \/ counts'[r] = Bump(counts[r])
         /\ \E record \in Offer \cup {None} :
               /\ ledger = {} => record = None
               /\ v.aged /\ ledger # {} => record.shape = "departed" /\ ledger \subseteq record.pairs
               /\ record.shape = "departed" => v.aged /\ ledger # {} /\ ledger \subseteq record.pairs
               /\ record.shape = "leftover" =>
                     /\ v.sensor = "reading"
                     /\ record.pairs \subseteq Dead
                     /\ \A r \in record.pairs : Bump(counts[r]) >= LeftoverDebounce
               /\ SyncIssues(record, blind, accepted)
<1> DEFINE leftover == IF blind THEN {} ELSE Settled(v, Window(v))
           record == Verdict(v, leftover, Extra(readable))
<1>1. counts' = (IF blind THEN counts ELSE Window(v)) /\ SyncIssues(record, blind, accepted)
  BY DEF Sweep
<1>2. \A r \in Rows : Window(v)[r] = IF r \in Derived(v) THEN Bump(counts[r]) ELSE 0
  BY DEF Window
<1>3. Window(v) \in [Rows -> 0 .. LeftoverDebounce]
  BY LeftoverAssumption, BumpType DEF Window, TypeOK
<1>4. Derived(v) \subseteq Dead /\ (Derived(v) # {} => v.sensor = "reading")
  BY DEF Derived
<1>5. leftover \subseteq Derived(v) /\ \A r \in leftover : Bump(counts[r]) >= LeftoverDebounce
  BY <1>2, <1>4, DeadType DEF Settled
<1>6. Extra(readable) \subseteq Rows /\ leftover \subseteq Rows /\ ledger \subseteq Rows
  BY <1>4, <1>5, DeadType DEF Extra, TypeOK
<1>7. record \in Offer \cup {None}
  BY <1>6 DEF Verdict, Offer
<1>8. /\ ledger = {} => record = None
      /\ v.aged /\ ledger # {} => record.shape = "departed" /\ ledger \subseteq record.pairs
      /\ record.shape = "departed" => v.aged /\ ledger # {} /\ ledger \subseteq record.pairs
  BY DEF Verdict, None
<1>9. record.shape = "leftover" => leftover # {} /\ record.pairs = leftover
  BY DEF Verdict, None
<1> HIDE DEF record, leftover
<1>10. record.shape = "leftover" =>
         /\ v.sensor = "reading"
         /\ record.pairs \subseteq Dead
         /\ \A r \in record.pairs : Bump(counts[r]) >= LeftoverDebounce
  BY <1>4, <1>5, <1>9
<1>11. /\ counts' \in [Rows -> 0 .. LeftoverDebounce]
       /\ \A r \in Rows : \/ counts'[r] = counts[r] \/ counts'[r] = 0
                          \/ counts'[r] = Bump(counts[r])
  BY <1>1, <1>2, <1>3 DEF TypeOK
<1> QED
  BY <1>1, <1>7, <1>8, <1>10, <1>11

\* The manager leaves the card, refuses to touch it, clears it, or publishes.
LEMMA SyncFacts ==
  ASSUME TypeOK, NEW record \in Offer \cup {None}, NEW hold \in BOOLEAN,
         NEW accepted \in BOOLEAN, SyncIssues(record, hold, accepted)
  PROVE  \/ /\ record # None /\ active /\ card # None /\ published = record
            /\ UNCHANGED <<active, published, card>>
         \/ /\ record # None /\ active' = TRUE /\ published' = record /\ card' = record
         \/ /\ record # None /\ active' = (active /\ card # None)
            /\ published' = published /\ card' = card
         \/ /\ record = None /\ active' = FALSE /\ published' = None /\ card' = None
            /\ ledger # {} \/ active
         \/ /\ record = None /\ UNCHANGED <<active, published, card>>
            /\ (ledger # {} \/ active) => hold /\ published.shape = "leftover"
BY DEF SyncIssues, RaiseIssue, ClearIssue, manager

-----------------------------------------------------------------------------
(* Type correctness.                                                       *)

LEMMA InitType == Init => TypeOK
<1> SUFFICES ASSUME Init PROVE TypeOK
  OBVIOUS
<1>1. Blank \in Views
  BY DEF Blank, Views
<1>2. 0 \in 0 .. LeftoverDebounce
  BY LeftoverAssumption
<1> QED
  BY <1>1, <1>2 DEF Init, TypeOK

LEMMA EndSessionType ==
  ASSUME TypeOK, EndSession
  PROVE  /\ rows' \subseteq Rows /\ deviceRow' \in BOOLEAN /\ live' \subseteq Rows
         /\ started' \subseteq Platforms /\ view' \in Views /\ ledger' \subseteq Rows
         /\ marks' \subseteq Records /\ counts' \in [Rows -> 0 .. LeftoverDebounce]
         /\ active' \in BOOLEAN /\ published' \in Offer \cup {None}
         /\ refused' \subseteq Rows /\ idle' \in [Rows -> 0 .. LeftoverDebounce]
         /\ seen' \in BOOLEAN
<1>1. Blank \in Views
  BY DEF Blank, Views
<1>2. 0 \in 0 .. LeftoverDebounce
  BY LeftoverAssumption
<1> QED
  BY <1>1, <1>2 DEF EndSession, TypeOK, registries

LEMMA NextType == TypeOK /\ [Next]_vars => TypeOK'
<1> SUFFICES ASSUME TypeOK, [Next]_vars PROVE TypeOK'
  OBVIOUS
<1> USE DEF registries, books, manager, history
<1>1. CASE Setup
  BY <1>1 DEF Setup, ViewStep, TypeOK
<1>2. ASSUME NEW p \in Platforms, StartPlatform(p) PROVE TypeOK'
  <2>1. Collect(view, {p}) /\ view \in Views /\ {p} \subseteq Platforms
    BY <1>2 DEF StartPlatform, TypeOK
  <2>2. PICK fresh \in SUBSET Rows :
           /\ ledger' = ledger \cup fresh /\ rows' = rows \cup fresh /\ live' = live \cup fresh
           /\ deviceRow' = (deviceRow \/ fresh # {})
           /\ refused' = refused \cup (fresh \cap live)
           /\ marks' \subseteq Records
    BY <2>1, CollectFacts
  <2> QED
    BY <1>2, <2>2 DEF StartPlatform, TypeOK
<1>3. CASE Unload
  BY <1>3, EndSessionType DEF Unload, TypeOK
<1>4. CASE Restart
  BY <1>4, EndSessionType DEF Restart, TypeOK
<1>5. CASE RemoveEntry
  BY <1>5 DEF RemoveEntry, TypeOK
<1>6. CASE Update
  <2>1. PICK w \in Views, blind \in BOOLEAN, readable \in BOOLEAN, accepted \in BOOLEAN :
           UpdateWith(w, blind, readable, accepted)
    BY <1>6 DEF Update
  <2>2. Sweep(w, blind, readable, accepted) /\ Collect(w, started) /\ started \subseteq Platforms
    BY <2>1 DEF UpdateWith, TypeOK
  <2>3. PICK record \in Offer \cup {None} :
           counts' \in [Rows -> 0 .. LeftoverDebounce] /\ SyncIssues(record, blind, accepted)
    BY <2>2, SweepFacts
  <2>4. active' \in BOOLEAN /\ published' \in Offer \cup {None} /\ card' \in Offer \cup {None}
    BY <2>3, SyncFacts DEF TypeOK
  <2>5. PICK fresh \in SUBSET Rows :
           /\ ledger' = ledger \cup fresh /\ rows' = rows \cup fresh /\ live' = live \cup fresh
           /\ deviceRow' = (deviceRow \/ fresh # {})
           /\ refused' = refused \cup (fresh \cap live)
           /\ marks' \subseteq Records
    BY <2>2, CollectFacts
  <2>6. idle' \in [Rows -> 0 .. LeftoverDebounce]
    BY <2>1, BumpType, LeftoverAssumption DEF UpdateWith, TypeOK
  <2>7. seen' \in BOOLEAN /\ view' \in Views
    BY <2>1 DEF UpdateWith, ViewStep, TypeOK
  <2>8. UNCHANGED <<session, started, dialog>>
    BY <2>1 DEF UpdateWith
  <2>9. ledger' \subseteq Rows /\ rows' \subseteq Rows /\ live' \subseteq Rows
        /\ deviceRow' \in BOOLEAN /\ refused' \subseteq Rows /\ marks' \subseteq Records
    BY <2>5 DEF TypeOK
  <2> QED
    BY <2>3, <2>4, <2>6, <2>7, <2>8, <2>9 DEF TypeOK
<1>7. CASE OpenDialog
  BY <1>7 DEF OpenDialog, TypeOK
<1>8. CASE CloseDialog \/ SubmitAborts
  BY <1>8 DEF CloseDialog, SubmitAborts, TypeOK
<1>9. CASE Submit
  <2>1. dialog \in Offer
    BY <1>9 DEF Submit, TypeOK
  <2>2. dialog.pairs \in SUBSET Rows
    BY <2>1, Shapes
  <2>3. /\ rows' \subseteq Rows /\ live' \subseteq Rows /\ deviceRow' \in BOOLEAN
        /\ ledger' \subseteq Rows /\ marks' \subseteq Records
    <3>1. CASE RemoveLeftover(dialog.pairs)
      BY <2>2, <3>1, RemoveLeftoverFacts DEF TypeOK
    <3>2. CASE RemoveDeparted(dialog.pairs)
      <4>1. CASE UNCHANGED <<rows, deviceRow, live, ledger, marks>>
        BY <4>1 DEF TypeOK
      <4>2. CASE ~ UNCHANGED <<rows, deviceRow, live, ledger, marks>>
        <5>1. PICK failed \in SUBSET (dialog.pairs \cap rows) :
                 /\ rows' = rows \ (dialog.pairs \ failed)
                 /\ live' = live \ (dialog.pairs \ failed)
                 /\ deviceRow' \in BOOLEAN
                 /\ ledger' = Kept(failed \cup (ledger \ dialog.pairs))
                 /\ marks' = IF OnPlatform(ledger', KeyIndexed) = {} THEN {} ELSE marks
          BY <2>2, <3>2, <4>2, RemoveDepartedFacts
        <5>2. ledger' \subseteq ledger
          BY <5>1, KeptFacts
        <5> QED
          BY <5>1, <5>2 DEF TypeOK
      <4> QED
        BY <4>1, <4>2
    <3> QED
      BY <1>9, <3>1, <3>2 DEF Submit
  <2> QED
    BY <1>9, <2>3 DEF Submit, TypeOK
<1>10. CASE UNCHANGED vars
  BY <1>10 DEF vars, TypeOK
<1> QED
  BY <1>1, <1>2, <1>3, <1>4, <1>5, <1>6, <1>7, <1>8, <1>9, <1>10 DEF Next

\* Every variable keeps its type.
THEOREM TypeCorrect == Spec => []TypeOK
BY InitType, NextType, PTL DEF Spec

-----------------------------------------------------------------------------
(* The inductive invariant.                                                *)

\* Between sessions nothing is held and nothing is live.
AsleepIsEmpty == ~Up => ledger = {} /\ live = {} /\ active = FALSE

\* A row the sensor adder holds is one that a mark it set accounts for.
MarksCoverLedger ==
    \A r \in ledger : PlatformOf[r] = KeyIndexed => \E s \in marks : r \in Emits[s]

\* A departed offer names every row that the bookkeeping outlived.
OfferCoversGaps ==
    /\ card.shape = "departed" => ledger \ rows \subseteq card.pairs
    /\ dialog.shape = "departed" => ledger \ rows \subseteq dialog.pairs

\* The window never runs ahead of the time the row spent with nothing behind it.
WindowIsIdle == \A r \in rows \ ledger : counts[r] <= idle[r]

PublishedIsCard == active /\ card # None => published = card

\* A departed card that this session could clear stands on the key's absence, or
\* the device has been listed since it was raised.
DepartedEvidence ==
    card.shape = "departed" =>
        /\ active => ledger # {}
        /\ view.listed = "yes" => seen
        /\ ledger # {} => seen \/ view.aged

Bookkeeping ==
    /\ AsleepIsEmpty
    /\ live \subseteq ledger
    /\ MarksCoverLedger
    /\ NothingOfferedTwice
    /\ LedgerBacked
    /\ OfferCoversGaps
    /\ WindowIsIdle

Cards == LeftoverCardOwned /\ PublishedIsCard /\ DepartedEvidence

IInv == TypeOK /\ Bookkeeping /\ Cards

LEMMA InitInv == Init => IInv
<1> SUFFICES ASSUME Init PROVE IInv
  OBVIOUS
<1>1. TypeOK
  BY InitType
<1>2. Bookkeeping
  BY LeftoverAssumption DEF Init, Bookkeeping, AsleepIsEmpty, MarksCoverLedger,
     NothingOfferedTwice, LedgerBacked, OfferCoversGaps, WindowIsIdle, None
<1>3. Cards
  BY DEF Init, Cards, LeftoverCardOwned, PublishedIsCard, DepartedEvidence, None
<1> QED
  BY <1>1, <1>2, <1>3 DEF IInv

\* The adders' half of a step: what they add is never held, and never missing.
LEMMA CollectKeeps ==
  ASSUME TypeOK, Bookkeeping, NEW v \in Views, NEW P \in SUBSET Platforms, Collect(v, P)
  PROVE  /\ live' \subseteq ledger' /\ MarksCoverLedger' /\ NothingOfferedTwice' /\ LedgerBacked'
         /\ ledger \subseteq ledger' /\ rows \subseteq rows' /\ (deviceRow => deviceRow')
         /\ ledger' \ rows' \subseteq ledger \ rows
         /\ rows' \ ledger' \subseteq rows \ ledger
         /\ ledger = {} /\ ledger' # {} => v.listed = "yes"
<1>1. PICK fresh \in SUBSET Rows :
         /\ ledger' = ledger \cup fresh /\ rows' = rows \cup fresh /\ live' = live \cup fresh
         /\ deviceRow' = (deviceRow \/ fresh # {})
         /\ refused' = refused \cup (fresh \cap live)
         /\ marks' \subseteq Records /\ marks \subseteq marks'
         /\ fresh # {} => v.sensor \in Records
         /\ \A r \in fresh :
               IF PlatformOf[r] = KeyIndexed
               THEN v.sensor \notin marks /\ v.sensor \in marks' /\ r \in Emits[v.sensor]
               ELSE r \notin ledger
  BY CollectFacts
<1>2. live' \subseteq ledger' /\ MarksCoverLedger'
  BY <1>1 DEF Bookkeeping, MarksCoverLedger
<1>3. fresh \cap live = {}
  <2> SUFFICES ASSUME NEW r \in fresh, r \in live PROVE FALSE
    OBVIOUS
  <2>1. r \in ledger
    BY DEF Bookkeeping
  <2>2. PlatformOf[r] = KeyIndexed /\ v.sensor \notin marks /\ r \in Emits[v.sensor]
    BY <1>1, <2>1
  <2>3. PICK s \in marks : r \in Emits[s]
    BY <2>1, <2>2 DEF Bookkeeping, MarksCoverLedger
  <2>4. s \in Records /\ v.sensor \in Records /\ s # v.sensor
    BY <1>1, <2>2, <2>3 DEF TypeOK
  <2>5. r \in Emits["reading"] \cap Emits["silent"]
    BY <2>2, <2>3, <2>4 DEF Records
  <2> QED
    BY <2>2, <2>5, LeftoverAssumption
<1>4. NothingOfferedTwice'
  BY <1>1, <1>3 DEF Bookkeeping, NothingOfferedTwice
<1>5. ledger' \ rows' \subseteq ledger \ rows /\ rows' \ ledger' \subseteq rows \ ledger
      /\ ledger \cap rows \subseteq ledger' \cap rows'
  BY <1>1
<1>6. LedgerBacked'
  BY <1>5 DEF Bookkeeping, LedgerBacked, OnPlatform
<1>7. ledger = {} /\ ledger' # {} => v.listed = "yes"
  BY <1>1 DEF Views, Records
<1> QED
  BY <1>1, <1>2, <1>4, <1>5, <1>6, <1>7

\* The executor's half of a Submit.
LEMMA SubmitKeeps ==
  ASSUME TypeOK, Bookkeeping, Submit
  PROVE  Bookkeeping'
<1>1. dialog \in Offer /\ dialog.pairs \in SUBSET Rows
  BY Shapes DEF Submit, TypeOK
<1>2. card' = None /\ dialog' = None /\ Up' /\ UNCHANGED <<counts, refused, idle>>
  BY DEF Submit, Up, history
<1>3. AsleepIsEmpty' /\ NothingOfferedTwice' /\ OfferCoversGaps'
  BY <1>2, Shapes DEF Bookkeeping, AsleepIsEmpty, NothingOfferedTwice, OfferCoversGaps
<1>4. CASE RemoveLeftover(dialog.pairs)
  <2>1. PICK taken \in SUBSET (Dead \cap dialog.pairs) :
           /\ rows' = rows \ taken /\ live' = live \ taken
           /\ UNCHANGED <<deviceRow, ledger, marks>>
    BY <1>1, <1>4, RemoveLeftoverFacts
  <2>2. taken \cap ledger = {}
    BY <2>1, DeadType
  <2>3. live' \subseteq ledger' /\ MarksCoverLedger'
    BY <2>1 DEF Bookkeeping, MarksCoverLedger
  <2>4. LedgerBacked'
    BY <2>1, <2>2 DEF Bookkeeping, LedgerBacked, OnPlatform
  <2>5. WindowIsIdle'
    BY <1>2, <2>1 DEF Bookkeeping, WindowIsIdle
  <2> QED
    BY <1>3, <2>3, <2>4, <2>5 DEF Bookkeeping
<1>5. CASE dialog.shape = "departed" /\ RemoveDeparted(dialog.pairs)
  <2>1. CASE UNCHANGED <<rows, deviceRow, live, ledger, marks>>
    BY <1>2, <1>3, <2>1 DEF Bookkeeping, MarksCoverLedger, LedgerBacked, WindowIsIdle, OnPlatform
  <2>2. CASE ~ UNCHANGED <<rows, deviceRow, live, ledger, marks>>
    <3>1. PICK failed \in SUBSET (dialog.pairs \cap rows) :
             /\ rows' = rows \ (dialog.pairs \ failed)
             /\ live' = live \ (dialog.pairs \ failed)
             /\ ledger' = Kept(failed \cup (ledger \ dialog.pairs))
             /\ marks' = IF OnPlatform(ledger', KeyIndexed) = {} THEN {} ELSE marks
      BY <1>1, <1>5, <2>2, RemoveDepartedFacts
    <3> DEFINE held == failed \cup (ledger \ dialog.pairs)
    <3>2. /\ ledger' \subseteq ledger /\ ledger \cap held \subseteq ledger'
          /\ \A r \in ledger' : PlatformOf[r] # KeyIndexed => r \in held
          /\ OnPlatform(ledger', KeyIndexed) # {} => OnPlatform(ledger \cap held, KeyIndexed) # {}
      BY <3>1, KeptFacts
    <3>3. ledger \ rows \subseteq dialog.pairs
      BY <1>5 DEF Bookkeeping, OfferCoversGaps
    <3>4. held \cap ledger \subseteq rows'
      BY <3>1, <3>3
    <3>5. live' \subseteq ledger'
      BY <3>1, <3>2 DEF Bookkeeping
    <3>6. MarksCoverLedger'
      <4> SUFFICES ASSUME NEW r \in ledger', PlatformOf[r] = KeyIndexed
                   PROVE  \E s \in marks' : r \in Emits[s]
        BY DEF MarksCoverLedger
      <4>1. marks' = marks
        BY <3>1 DEF OnPlatform
      <4> QED
        BY <3>2, <4>1 DEF Bookkeeping, MarksCoverLedger
    <3>7. LedgerBacked'
      <4> SUFFICES ASSUME NEW r \in ledger' \ rows'
                   PROVE  PlatformOf[r] = KeyIndexed /\ OnPlatform(ledger' \cap rows', KeyIndexed) # {}
        BY DEF LedgerBacked, OnPlatform
      <4>1. PlatformOf[r] = KeyIndexed
        BY <3>2, <3>4
      <4>2. PICK q \in ledger \cap held : PlatformOf[q] = KeyIndexed
        BY <3>2, <4>1 DEF OnPlatform
      <4> QED
        BY <3>2, <3>4, <4>1, <4>2 DEF OnPlatform
    <3>8. rows' \ ledger' \subseteq rows \ ledger
      BY <3>1, <3>2
    <3>9. WindowIsIdle'
      BY <1>2, <3>8 DEF Bookkeeping, WindowIsIdle
    <3> QED
      BY <1>3, <3>5, <3>6, <3>7, <3>9 DEF Bookkeeping
  <2> QED
    BY <2>1, <2>2
<1> QED
  BY <1>1, <1>4, <1>5, Shapes DEF Submit

\* The half of an update that moves the window and the idle time together.
LEMMA UpdateKeepsBooks ==
  ASSUME TypeOK, TypeOK', Bookkeeping, Cards, NEW w \in Views, NEW blind \in BOOLEAN,
         NEW readable \in BOOLEAN, NEW accepted \in BOOLEAN,
         UpdateWith(w, blind, readable, accepted)
  PROVE  Bookkeeping'
<1>1. Sweep(w, blind, readable, accepted) /\ Collect(w, started) /\ started \subseteq Platforms
      /\ Up /\ Up' /\ dialog' = dialog
      /\ \A r \in Rows : idle'[r] = IF r \in live' THEN 0 ELSE Bump(idle[r])
  BY DEF UpdateWith, TypeOK, Up
<1>2. /\ live' \subseteq ledger' /\ MarksCoverLedger' /\ NothingOfferedTwice' /\ LedgerBacked'
      /\ ledger' \ rows' \subseteq ledger \ rows
      /\ rows' \ ledger' \subseteq rows \ ledger
  BY <1>1, CollectKeeps
<1>3. PICK record \in Offer \cup {None} :
         /\ record.shape = "departed" => ledger \subseteq record.pairs
         /\ SyncIssues(record, blind, accepted)
  BY <1>1, SweepFacts
<1>4. card' = card \/ card' = record \/ card' = None
  BY <1>3, SyncFacts
<1>5. OfferCoversGaps'
  BY <1>1, <1>2, <1>3, <1>4, Shapes DEF Bookkeeping, OfferCoversGaps
<1>6. WindowIsIdle'
  <2> SUFFICES ASSUME NEW r \in rows' \ ledger' PROVE counts'[r] <= idle'[r]
    BY DEF WindowIsIdle
  <2>1. r \in rows \ ledger /\ r \in Rows /\ r \notin live'
    BY <1>2 DEF TypeOK
  <2>2. counts[r] \in 0 .. LeftoverDebounce /\ idle[r] \in 0 .. LeftoverDebounce /\ counts[r] <= idle[r]
    BY <2>1 DEF Bookkeeping, WindowIsIdle, TypeOK
  <2>3. idle'[r] = Bump(idle[r])
    BY <1>1, <2>1
  <2>4. counts'[r] = counts[r] \/ counts'[r] = 0 \/ counts'[r] = Bump(counts[r])
    BY <1>1, <2>1, SweepFacts
  <2>5. /\ idle'[r] \in 0 .. LeftoverDebounce /\ idle[r] <= idle'[r]
        /\ counts[r] \in 0 .. idle[r]
        /\ Bump(counts[r]) <= idle'[r]
    BY <2>2, <2>3, BumpType, LeftoverAssumption
  <2> QED
    BY <2>2, <2>4, <2>5, LeftoverAssumption
<1> QED
  BY <1>1, <1>2, <1>5, <1>6 DEF Bookkeeping, AsleepIsEmpty

\* The coordinator withdraws a verdict only by listing the key.
LEMMA VerdictLasts ==
  ASSUME TypeOK, NEW w \in Views, ViewStep(w), view.aged
  PROVE  w.aged \/ w.listed = "yes"
BY DEF ViewStep, TypeOK, Views, Coordinator!Update, Coordinator!Carried, Coordinator!LeftOut,
       Coordinator!NoList

\* The card's half.
LEMMA UpdateKeepsCards ==
  ASSUME TypeOK, Bookkeeping, Cards, NEW w \in Views, NEW blind \in BOOLEAN,
         NEW readable \in BOOLEAN, NEW accepted \in BOOLEAN,
         UpdateWith(w, blind, readable, accepted)
  PROVE  Cards'
<1>1. Sweep(w, blind, readable, accepted) /\ Collect(w, started) /\ started \subseteq Platforms
      /\ Up' /\ view' = w /\ ViewStep(w)
      /\ seen' = (IF card'.shape = "departed" /\ card' # card THEN FALSE
                  ELSE seen \/ w.listed = "yes")
  BY DEF UpdateWith, ViewStep, TypeOK, Up
<1>2. ledger \subseteq ledger' /\ (ledger = {} /\ ledger' # {} => w.listed = "yes")
  BY <1>1, CollectKeeps
<1>3. PICK record \in Offer \cup {None} :
         /\ ledger = {} => record = None
         /\ record.shape = "departed" => w.aged /\ ledger # {}
         /\ SyncIssues(record, blind, accepted)
  BY <1>1, SweepFacts
<1>4. \/ /\ record # None /\ active /\ card # None /\ published = record
         /\ UNCHANGED <<active, published, card>>
      \/ /\ record # None /\ active' = TRUE /\ published' = record /\ card' = record
      \/ /\ record # None /\ active' = (active /\ card # None)
         /\ published' = published /\ card' = card
      \/ /\ record = None /\ active' = FALSE /\ published' = None /\ card' = None
      \/ /\ record = None /\ UNCHANGED <<active, published, card>>
  BY <1>3, SyncFacts
<1>5. LeftoverCardOwned' /\ PublishedIsCard'
  <2>1. card.shape = "leftover" => card # None /\ active /\ published = card
    BY Shapes DEF Cards, LeftoverCardOwned
  <2> QED
    BY <1>1, <1>4, <2>1, Shapes DEF Cards, LeftoverCardOwned, PublishedIsCard, TypeOK
<1>6. DepartedEvidence'
  <2> SUFFICES ASSUME card'.shape = "departed"
               PROVE  /\ active' => ledger' # {}
                      /\ view'.listed = "yes" => seen'
                      /\ ledger' # {} => seen' \/ view'.aged
    BY DEF DepartedEvidence
  <2>1. w.aged => w.listed = "no"
    BY DEF Views
  <2>2. CASE card' # card
    <3>1. card' = record /\ w.aged /\ ledger # {}
      BY <1>3, <1>4, <2>2, Shapes
    <3> QED
      BY <1>1, <1>2, <2>1, <3>1
  <2>3. CASE card' = card
    <3>1. card.shape = "departed" /\ (seen' = (seen \/ w.listed = "yes"))
      BY <1>1, <2>3
    <3>2. /\ active => ledger # {}
          /\ ledger # {} => seen \/ view.aged
      BY <3>1 DEF Cards, DepartedEvidence
    <3>3. active' => ledger # {}
      BY <1>3, <1>4, <3>1, <3>2, Shapes
    <3>4. view.aged => w.aged \/ w.listed = "yes"
      BY <1>1, VerdictLasts
    <3>5. ledger' # {} => seen' \/ w.aged
      BY <1>2, <3>1, <3>2, <3>4
    <3> QED
      BY <1>1, <1>2, <3>1, <3>3, <3>5
  <2> QED
    BY <2>2, <2>3
<1> QED
  BY <1>5, <1>6 DEF Cards

LEMMA StartKeeps ==
  ASSUME TypeOK, Bookkeeping, Cards, NEW p \in Platforms, StartPlatform(p)
  PROVE  Bookkeeping' /\ Cards'
<1>1. /\ Collect(view, {p}) /\ view \in Views /\ {p} \subseteq Platforms /\ Up /\ Up'
      /\ UNCHANGED <<view, counts, active, published, card, dialog, idle, seen>>
  BY DEF StartPlatform, TypeOK, Up, manager
<1>2. /\ live' \subseteq ledger' /\ MarksCoverLedger' /\ NothingOfferedTwice' /\ LedgerBacked'
      /\ ledger \subseteq ledger'
      /\ ledger' \ rows' \subseteq ledger \ rows
      /\ rows' \ ledger' \subseteq rows \ ledger
      /\ ledger = {} /\ ledger' # {} => view.listed = "yes"
  BY <1>1, CollectKeeps
<1>3. OfferCoversGaps' /\ WindowIsIdle' /\ AsleepIsEmpty'
  BY <1>1, <1>2 DEF Bookkeeping, OfferCoversGaps, WindowIsIdle, AsleepIsEmpty
<1>4. LeftoverCardOwned' /\ PublishedIsCard'
  BY <1>1 DEF Cards, LeftoverCardOwned, PublishedIsCard
<1>5. DepartedEvidence'
  BY <1>1, <1>2 DEF Cards, DepartedEvidence
<1> QED
  BY <1>2, <1>3, <1>4, <1>5 DEF Bookkeeping, Cards

\* Sessions and the dialog, apart from the executor.
LEMMA SessionKeeps ==
  ASSUME TypeOK, Bookkeeping, Cards,
         \/ Setup \/ Unload \/ Restart \/ RemoveEntry
         \/ OpenDialog \/ CloseDialog \/ SubmitAborts
  PROVE  Bookkeeping' /\ Cards'
<1> USE DEF registries, books, manager, history
<1>1. CASE Setup
  <2>1. ledger = {} /\ live = {} /\ active = FALSE
    BY <1>1 DEF Setup, Bookkeeping, AsleepIsEmpty, Up
  <2>2. card.shape # "leftover"
    BY <1>1 DEF Setup, Cards, LeftoverCardOwned, Up
  <2>3. UNCHANGED <<rows, live, ledger, marks, counts, active, published, card, dialog, refused, idle>>
        /\ (view'.listed = "yes" => seen')
    BY <1>1 DEF Setup, ViewStep
  <2> QED
    BY <2>1, <2>2, <2>3 DEF Bookkeeping, Cards, AsleepIsEmpty, MarksCoverLedger, NothingOfferedTwice,
       LedgerBacked, OfferCoversGaps, WindowIsIdle, LeftoverCardOwned, PublishedIsCard,
       DepartedEvidence
<1>2. CASE Unload \/ Restart
  <2>1. EndSession /\ ~Up' /\ (dialog' = dialog \/ dialog' = None)
    BY <1>2 DEF Unload, Restart, Up
  <2>2. card' = None \/ (card' = card /\ card.shape # "leftover")
    BY <1>2, Shapes DEF Unload, Restart, Cards, LeftoverCardOwned
  <2>3. /\ ledger' = {} /\ live' = {} /\ active' = FALSE /\ view' = Blank /\ refused' = refused
        /\ rows' \subseteq Rows
        /\ \A r \in Rows : counts'[r] = 0 /\ idle'[r] = 0
    BY <2>1 DEF EndSession, TypeOK
  <2>4. Bookkeeping'
    BY <2>1, <2>3 DEF Bookkeeping, AsleepIsEmpty, MarksCoverLedger, NothingOfferedTwice,
       LedgerBacked, OfferCoversGaps, WindowIsIdle
  <2>5. Cards'
    BY <2>2, <2>3, Shapes DEF Cards, LeftoverCardOwned, PublishedIsCard, DepartedEvidence, Blank
  <2> QED
    BY <2>4, <2>5
<1>3. CASE RemoveEntry
  <2>1. ledger = {} /\ live = {} /\ active = FALSE /\ ~Up'
    BY <1>3 DEF RemoveEntry, Bookkeeping, AsleepIsEmpty, Up
  <2>2. card' = None /\ rows' = {} /\ UNCHANGED <<live, ledger, active, dialog, refused>>
    BY <1>3 DEF RemoveEntry
  <2> QED
    BY <2>1, <2>2, Shapes DEF Bookkeeping, Cards, AsleepIsEmpty, MarksCoverLedger,
       NothingOfferedTwice, LedgerBacked, OfferCoversGaps, WindowIsIdle, LeftoverCardOwned,
       PublishedIsCard, DepartedEvidence
<1>4. CASE OpenDialog \/ CloseDialog \/ SubmitAborts
  <2>1. /\ UNCHANGED <<rows, live, session, view, ledger, marks, counts, active, published,
                       card, refused, idle, seen>>
        /\ dialog' = card \/ dialog' = None
    BY <1>4 DEF OpenDialog, CloseDialog, SubmitAborts
  <2>2. Bookkeeping'
    BY <2>1, Shapes DEF Bookkeeping, AsleepIsEmpty, MarksCoverLedger, NothingOfferedTwice,
       LedgerBacked, OfferCoversGaps, WindowIsIdle, Up, OnPlatform
  <2>3. Cards'
    BY <2>1 DEF Cards, LeftoverCardOwned, PublishedIsCard, DepartedEvidence, Up
  <2> QED
    BY <2>2, <2>3
<1> QED
  BY <1>1, <1>2, <1>3, <1>4

LEMMA NextInv == IInv /\ [Next]_vars => IInv'
<1> SUFFICES ASSUME IInv, [Next]_vars PROVE IInv'
  OBVIOUS
<1>1. TypeOK /\ Bookkeeping /\ Cards /\ TypeOK'
  BY NextType DEF IInv
<1>2. CASE \/ Setup \/ Unload \/ Restart \/ RemoveEntry
           \/ OpenDialog \/ CloseDialog \/ SubmitAborts
  BY <1>1, <1>2, SessionKeeps DEF IInv
<1>3. ASSUME NEW p \in Platforms, StartPlatform(p) PROVE IInv'
  BY <1>1, <1>3, StartKeeps DEF IInv
<1>4. CASE Update
  <2>1. PICK w \in Views, blind \in BOOLEAN, readable \in BOOLEAN, accepted \in BOOLEAN :
           UpdateWith(w, blind, readable, accepted)
    BY <1>4 DEF Update
  <2> QED
    BY <1>1, <2>1, UpdateKeepsBooks, UpdateKeepsCards DEF IInv
<1>5. CASE Submit
  <2>1. Bookkeeping'
    BY <1>1, <1>5, SubmitKeeps
  <2>2. Cards'
    BY <1>5, Shapes DEF Submit, Cards, LeftoverCardOwned, PublishedIsCard, DepartedEvidence
  <2> QED
    BY <1>1, <2>1, <2>2 DEF IInv
<1>6. CASE UNCHANGED vars
  BY <1>1, <1>6 DEF vars, registries, books, manager, history, IInv, Bookkeeping, Cards,
     AsleepIsEmpty, MarksCoverLedger, NothingOfferedTwice, LedgerBacked, OfferCoversGaps,
     WindowIsIdle, LeftoverCardOwned, PublishedIsCard, DepartedEvidence, Up, OnPlatform
<1> QED
  BY <1>2, <1>3, <1>4, <1>5, <1>6 DEF Next

LEMMA Invariance == Spec => []IInv
BY InitInv, NextInv, PTL DEF Spec

-----------------------------------------------------------------------------
(* What the invariant gives.                                               *)

\* No adder of the integration ever hands over a unique id that is in use,
\* whatever removals failed or were never confirmed.
THEOREM NeverOfferedTwice == Spec => []NothingOfferedTwice
BY Invariance, PTL DEF IInv, Bookkeeping

\* The bookkeeping outlives a row only on account of one that could not go.
THEOREM LedgerIsBacked == Spec => []LedgerBacked
BY Invariance, PTL DEF IInv, Bookkeeping

\* No card of the still-present shape outlives the session that raised it.
THEOREM LeftoverCardIsOwned == Spec => []LeftoverCardOwned
BY Invariance, PTL DEF IInv, Cards

LEMMA SubmitConfirms ==
  ASSUME IInv, Submit
  PROVE  Consent!Confirm
<1> USE DEF registries
<1>1. TypeOK /\ Bookkeeping
  BY DEF IInv
<1>2. dialog # None /\ dialog' = None /\ card' = None
  BY DEF Submit
<1>3. dialog \in Offer /\ dialog.pairs \in SUBSET Rows
  BY <1>1, <1>2, Shapes DEF TypeOK
<1>4. CASE dialog.shape = "leftover"
  <2>1. PICK taken \in SUBSET (Dead \cap dialog.pairs) :
           /\ rows' = rows \ taken /\ deviceRow' = deviceRow
           /\ \A r \in taken : counts[r] >= LeftoverDebounce
    BY <1>1, <1>3, <1>4, RemoveLeftoverFacts DEF Submit
  <2>2. ASSUME NEW r \in taken PROVE r \in Takable
    <3>1. r \in rows \ ledger /\ r \notin live /\ r \in Rows
      BY <1>1, <2>1, DeadType
    <3>2. counts[r] <= idle[r] /\ counts[r] >= LeftoverDebounce
      BY <1>1, <2>1, <3>1 DEF Bookkeeping, WindowIsIdle
    <3>3. counts[r] \in 0 .. LeftoverDebounce /\ idle[r] \in 0 .. LeftoverDebounce
      BY <1>1, <3>1 DEF TypeOK
    <3>4. idle[r] = LeftoverDebounce
      BY <3>2, <3>3, LeftoverAssumption
    <3> QED
      BY <1>4, <3>1, <3>4 DEF Takable
  <2>3. rows' \subseteq rows /\ rows \ rows' \subseteq dialog.pairs \cap Takable
    BY <2>1, <2>2
  <2> QED
    BY <1>2, <2>1, <2>3 DEF Consent!Confirm
<1>5. CASE dialog.shape # "leftover"
  <2>1. RemoveDeparted(dialog.pairs)
    BY <1>5 DEF Submit
  <2>2. CASE UNCHANGED <<rows, deviceRow, live, ledger, marks>>
    BY <1>2, <2>2 DEF Consent!Confirm
  <2>3. CASE ~ UNCHANGED <<rows, deviceRow, live, ledger, marks>>
    <3>1. /\ view.listed = "no"
          /\ \E failed \in SUBSET (dialog.pairs \cap rows) :
                /\ rows' = rows \ (dialog.pairs \ failed)
                /\ deviceRow /\ ~deviceRow' => rows' = {}
      BY <1>1, <1>3, <2>1, <2>3, RemoveDepartedFacts
    <3>2. Takable = Rows
      BY <1>5, <3>1 DEF Takable
    <3>3. rows' \subseteq rows /\ rows \ rows' \subseteq dialog.pairs \cap Takable
      BY <1>3, <3>1, <3>2
    <3> QED
      BY <1>2, <3>1, <3>3 DEF Consent!Confirm
  <2> QED
    BY <2>2, <2>3
<1> QED
  BY <1>4, <1>5

LEMMA StepKeepsConsent ==
  ASSUME IInv, [Next]_vars
  PROVE  [Consent!Next]_(Consent!vars)
<1> USE DEF registries, history
<1>1. TypeOK /\ Bookkeeping
  BY DEF IInv
<1>2. CASE Setup \/ Unload \/ Restart
  <2>1. UNCHANGED <<rows, deviceRow>> /\ (dialog' = dialog \/ dialog' = None)
    BY <1>2 DEF Setup, Unload, Restart, EndSession
  <2> QED
    BY <2>1 DEF Consent!Next, Consent!Propose
<1>3. CASE RemoveEntry
  BY <1>3 DEF RemoveEntry, Consent!Next, Consent!Leave
<1>4. CASE OpenDialog
  BY <1>4 DEF OpenDialog, Consent!Next, Consent!Show
<1>5. CASE CloseDialog \/ SubmitAborts
  <2>1. UNCHANGED <<rows, deviceRow>> /\ dialog' = None
    BY <1>5 DEF CloseDialog, SubmitAborts
  <2> QED
    BY <2>1 DEF Consent!Next, Consent!Propose
<1>6. ASSUME NEW p \in Platforms, StartPlatform(p) PROVE Consent!Next
  <2>1. Collect(view, {p}) /\ view \in Views /\ {p} \subseteq Platforms /\ dialog' = dialog
    BY <1>1, <1>6 DEF StartPlatform, TypeOK
  <2>2. rows \subseteq rows' /\ (deviceRow => deviceRow')
    BY <1>1, <2>1, CollectKeeps
  <2> QED
    BY <2>1, <2>2 DEF Consent!Next, Consent!Propose
<1>7. CASE Update
  <2>1. PICK w \in Views : Collect(w, started) /\ dialog' = dialog
    BY <1>7 DEF Update, UpdateWith
  <2>2. rows \subseteq rows' /\ (deviceRow => deviceRow')
    BY <1>1, <2>1, CollectKeeps DEF TypeOK
  <2> QED
    BY <2>1, <2>2 DEF Consent!Next, Consent!Propose
<1>8. CASE Submit
  BY <1>8, SubmitConfirms DEF Consent!Next
<1>9. CASE UNCHANGED vars
  BY <1>9 DEF vars, Takable, Consent!vars
<1> QED
  BY <1>2, <1>3, <1>4, <1>5, <1>6, <1>7, <1>8, <1>9 DEF Next

\* The removal flow keeps what it promises: no row is deleted but one the open
\* dialog named, and that is as dead, or as departed, when Submit is pressed as
\* it was when the card was raised.
THEOREM RemovalIsConsented == Spec => ConsentKept
<1>1. ASSUME Init PROVE Consent!Init
  BY <1>1 DEF Init, Takable, Consent!Init
<1> QED
  BY <1>1, Invariance, StepKeepsConsent, PTL DEF Spec, ConsentKept, Consent!Spec

LEMMA CardMoves ==
  ASSUME IInv, [Next]_vars, card' # card
  PROVE  \/ Submit
         \/ card' = None
         \/ \E w \in Views, blind, readable, accepted \in BOOLEAN :
               UpdateWith(w, blind, readable, accepted)
<1> USE DEF manager
<1> QED
  BY DEF Next, Update, Setup, StartPlatform, Unload, Restart, RemoveEntry, OpenDialog,
     CloseDialog, SubmitAborts, vars

\* A card of the still-present shape names only rows of a reporting device that
\* spent the whole window without an entity in this session.
THEOREM LeftoverOfferIsEarned == Spec => LeftoverOfferEarned
<1>1. ASSUME IInv, [Next]_vars, card'.shape = "leftover", card' # card
      PROVE  /\ view'.sensor = "reading"
             /\ \A r \in card'.pairs :
                   r \in rows \ (live \cup Outlets) /\ idle[r] >= LeftoverDebounce - 1
  <2>1. TypeOK /\ Bookkeeping
    BY <1>1 DEF IInv
  <2>2. PICK w \in Views, blind \in BOOLEAN, readable \in BOOLEAN, accepted \in BOOLEAN :
           UpdateWith(w, blind, readable, accepted)
    BY <1>1, CardMoves, Shapes DEF Submit
  <2>3. PICK record \in Offer \cup {None} :
           /\ record.shape = "leftover" =>
                 /\ w.sensor = "reading"
                 /\ record.pairs \subseteq Dead
                 /\ \A r \in record.pairs : Bump(counts[r]) >= LeftoverDebounce
           /\ SyncIssues(record, blind, accepted)
    BY <2>1, <2>2, SweepFacts DEF UpdateWith
  <2>4. card' = record /\ view' = w
    BY <1>1, <2>1, <2>2, <2>3, SyncFacts, Shapes DEF UpdateWith, ViewStep
  <2>5. ASSUME NEW r \in card'.pairs
        PROVE  r \in rows \ (live \cup Outlets) /\ idle[r] >= LeftoverDebounce - 1
    <3>1. r \in Dead /\ Bump(counts[r]) >= LeftoverDebounce
      BY <1>1, <2>3, <2>4, <2>5
    <3>2. r \in rows \ (ledger \cup live \cup Outlets) /\ r \in Rows
      BY <2>1, <3>1, DeadType
    <3>3. counts[r] <= idle[r]
      BY <2>1, <3>2 DEF Bookkeeping, WindowIsIdle
    <3>4. counts[r] \in 0 .. LeftoverDebounce /\ idle[r] \in 0 .. LeftoverDebounce
      BY <2>1, <3>2 DEF TypeOK
    <3> QED
      BY <3>1, <3>2, <3>3, <3>4, LeftoverAssumption DEF Bump
  <2> QED
    BY <1>1, <2>3, <2>4, <2>5
<1>2. IInv /\ [Next]_vars =>
        [card'.shape = "leftover" /\ card' # card =>
          /\ view'.sensor = "reading"
          /\ \A r \in card'.pairs :
                r \in rows \ (live \cup Outlets) /\ idle[r] >= LeftoverDebounce - 1]_vars
  BY <1>1
<1> QED
  BY <1>2, Invariance, PTL DEF Spec, LeftoverOfferEarned

LEMMA StepKeepsDeparted ==
  ASSUME IInv, [Next]_vars, card.shape = "departed", card'.shape # "departed"
  PROVE  seen' \/ (Up /\ dialog # None /\ dialog' = None) \/ session' = "removed"
<1> USE DEF manager
<1>1. TypeOK /\ Bookkeeping /\ Cards
  BY DEF IInv
<1>2. CASE Submit
  BY <1>2 DEF Submit
<1>3. CASE RemoveEntry
  BY <1>3 DEF RemoveEntry
<1>4. CASE Unload \/ Restart
  <2>1. card # None /\ (active => published = card)
    BY <1>1, Shapes DEF Cards, PublishedIsCard
  <2> QED
    BY <1>4, <2>1 DEF Unload, Restart
<1>5. CASE \/ Setup \/ (\E p \in Platforms : StartPlatform(p))
           \/ OpenDialog \/ CloseDialog \/ SubmitAborts \/ UNCHANGED vars
  BY <1>5 DEF Setup, StartPlatform, OpenDialog, CloseDialog, SubmitAborts, vars
<1>6. CASE Update
  <2>1. PICK w \in Views, blind \in BOOLEAN, readable \in BOOLEAN, accepted \in BOOLEAN :
           UpdateWith(w, blind, readable, accepted)
    BY <1>6 DEF Update
  <2>2. /\ Sweep(w, blind, readable, accepted) /\ ViewStep(w)
        /\ seen' = (seen \/ w.listed = "yes")
    BY <2>1 DEF UpdateWith
  <2>3. PICK record \in Offer \cup {None} :
           /\ ledger = {} => record = None
           /\ w.aged /\ ledger # {} => record.shape = "departed"
           /\ record.shape = "leftover" => w.sensor = "reading"
           /\ SyncIssues(record, blind, accepted)
    BY <1>1, <2>2, SweepFacts
  <2>4. \/ record # None /\ card' = record
        \/ record = None /\ card' = None /\ (ledger # {} \/ active)
    BY <1>1, <2>3, SyncFacts
  <2>5. CASE record # None /\ card' = record
    <3>1. w.sensor = "reading"
      BY <2>3, <2>5, Shapes
    <3> QED
      BY <2>2, <3>1 DEF Views
  <2>6. CASE record = None /\ (ledger # {} \/ active)
    <3>1. ledger # {} /\ ~w.aged
      BY <1>1, <2>3, <2>6, Shapes DEF Cards, DepartedEvidence
    <3>2. CASE seen
      BY <2>2, <3>2
    <3>3. CASE view.aged
      BY <1>1, <2>2, <3>1, <3>3, VerdictLasts
    <3> QED
      BY <1>1, <3>1, <3>2, <3>3 DEF Cards, DepartedEvidence
  <2> QED
    BY <2>4, <2>5, <2>6
<1> QED
  BY <1>2, <1>3, <1>4, <1>5, <1>6 DEF Next

\* The card of a departed device outlives reloads, restarts and aborted flows.
THEOREM DepartedCardIsKept == Spec => DepartedCardKept
<1>1. IInv /\ [Next]_vars =>
        [card.shape = "departed" /\ card'.shape # "departed" =>
          \/ seen'
          \/ Up /\ dialog # None /\ dialog' = None
          \/ session' = "removed"]_vars
  BY StepKeepsDeparted
<1> QED
  BY <1>1, Invariance, PTL DEF Spec, DepartedCardKept
-----------------------------------------------------------------------------
(* What is assumed of the coordinator.                                     *)

\* The removal flow sees a key through what PublishedKey lets the coordinator
\* publish of it, and through nothing else: the view moves only by a published
\* update or with the session (_read_aged_out_keys, _enumerated_keys_or_none,
\* _read_current_sensors).
THEOREM ViewIsPublished == Spec => Coordinator!Spec
<1>1. Init => Coordinator!Init
  BY DEF Init, Blank, Coordinator!Init
<1>2. [Next]_vars => [Coordinator!Next]_(Coordinator!published)
  <2> SUFFICES ASSUME [Next]_vars
               PROVE  Coordinator!Next \/ UNCHANGED view
    BY DEF Coordinator!published
  <2>1. CASE Setup
    BY <2>1 DEF Setup, ViewStep, Coordinator!Next
  <2>2. CASE Unload \/ Restart
    BY <2>2 DEF Unload, Restart, EndSession, Blank, Coordinator!Next, Coordinator!Forgotten
  <2>3. CASE Update
    BY <2>3 DEF Update, UpdateWith, ViewStep, Coordinator!Next
  <2>4. CASE \/ \E p \in Platforms : StartPlatform(p)
             \/ RemoveEntry \/ OpenDialog \/ CloseDialog \/ SubmitAborts \/ Submit
             \/ UNCHANGED vars
    BY <2>4 DEF StartPlatform, RemoveEntry, OpenDialog, CloseDialog, SubmitAborts, Submit, vars
  <2> QED
    BY <2>1, <2>2, <2>3, <2>4 DEF Next
<1> QED
  BY <1>1, <1>2, PTL DEF Spec, Coordinator!Spec

-----------------------------------------------------------------------------
(* The card follows the key.                                               *)

\* An update that reads the registries and whose card is accepted leaves the card
\* that the key's record asks for, or none.
LEMMA GoodUpdateSettlesCard ==
  ASSUME IInv, Up, ledger # {}, UpdateWith(view, FALSE, TRUE, TRUE)
  PROVE  /\ view.aged => card'.shape = "departed"
         /\ card'.shape = "departed" => view.aged
<1>1. TypeOK /\ view \in Views /\ Sweep(view, FALSE, TRUE, TRUE) /\ PublishedIsCard
  BY DEF UpdateWith, IInv, TypeOK, Cards
<1>2. PICK record \in Offer \cup {None} :
         /\ view.aged => record.shape = "departed"
         /\ record.shape = "departed" => view.aged
         /\ SyncIssues(record, FALSE, TRUE)
  BY <1>1, SweepFacts
<1>3. CASE record # None
  <2>1. RaiseIssue(record, TRUE)
    BY <1>2, <1>3 DEF SyncIssues
  <2>2. card' = record
    BY <1>1, <2>1 DEF RaiseIssue, manager, PublishedIsCard
  <2> QED
    BY <1>2, <2>2
<1>4. CASE record = None
  <2>1. card' = None
    BY <1>2, <1>4 DEF SyncIssues, ClearIssue
  <2> QED
    BY <1>2, <1>4, <2>1
<1> QED
  BY <1>3, <1>4

\* The next such update can run while the card is wrong.
UpdateCanCorrect ==
    /\ Departed /\ ~(card.shape = "departed") => ENABLED <<UpdateWith(view, FALSE, TRUE, TRUE)>>_vars
    /\ Reporting /\ ~(card.shape # "departed") => ENABLED <<UpdateWith(view, FALSE, TRUE, TRUE)>>_vars

\* The departed card follows the key: offered once it has aged out, withdrawn once
\* the device reports again, whichever session raised it and whatever became of
\* the flows in between (_sync_orphaned_entity_issues, async_sync).
THEOREM CardFollowsKey == FairSpec /\ []UpdateCanCorrect => DepartedCardFollows
<1>1. IInv /\ Departed /\ <<UpdateWith(view, FALSE, TRUE, TRUE)>>_vars => (card.shape = "departed")'
  BY GoodUpdateSettlesCard DEF Departed
<1>2. IInv /\ Reporting /\ <<UpdateWith(view, FALSE, TRUE, TRUE)>>_vars => (card.shape # "departed")'
  <2>1. IInv /\ Reporting => ~view.aged
    BY DEF IInv, TypeOK, Views, Reporting
  <2> QED
    BY <2>1, GoodUpdateSettlesCard DEF Reporting
<1> QED
  BY <1>1, <1>2, Invariance, PTL DEF FairSpec, UpdateCanCorrect, DepartedCardFollows

-----------------------------------------------------------------------------
(* A dead row is offered.                                                  *)

Waits(r)   == Reporting /\ r \in Dead
Offers(r)  == card.shape = "leftover" /\ r \in card.pairs
Settles(r) == Offers(r) \/ ~Waits(r)

\* The window of the row has run for n updates, or is full.
Served(n, r) == Waits(r) /\ (counts[r] >= n \/ counts[r] = LeftoverDebounce)

\* An update that reads the registries advances the window of a row that waits.
LEMMA WindowAdvances ==
  ASSUME IInv, NEW r \in Rows, Waits(r), NEW w \in Views, NEW blind \in BOOLEAN,
         NEW readable \in BOOLEAN, NEW accepted \in BOOLEAN,
         UpdateWith(w, blind, readable, accepted), Waits(r)'
  PROVE  /\ ~blind => counts'[r] = Bump(counts[r])
         /\ blind => counts'[r] = counts[r]
<1>1. w.sensor = "reading" /\ ledger # {} /\ r \in Dead
  BY DEF UpdateWith, ViewStep, Waits, Reporting
<1>2. counts' = IF blind THEN counts ELSE Window(w)
  BY DEF UpdateWith, Sweep
<1> QED
  BY <1>1, <1>2 DEF Window, Derived

LEMMA ServedLasts ==
  ASSUME IInv, [Next]_vars, NEW n \in Nat, NEW r \in Rows, Served(n, r)
  PROVE  Served(n, r)' \/ ~Waits(r)'
<1> SUFFICES ASSUME Waits(r)' PROVE counts'[r] >= n \/ counts'[r] = LeftoverDebounce
  BY DEF Served
<1>1. counts[r] \in 0 .. LeftoverDebounce
  BY DEF IInv, TypeOK
<1>2. CASE Update
  <2>1. PICK w \in Views, blind \in BOOLEAN, readable \in BOOLEAN, accepted \in BOOLEAN :
           UpdateWith(w, blind, readable, accepted)
    BY <1>2 DEF Update
  <2>2. counts'[r] = counts[r] \/ counts'[r] = Bump(counts[r])
    BY <2>1, WindowAdvances DEF Served
  <2> QED
    BY <1>1, <2>2, LeftoverAssumption DEF Bump, Served
<1>3. CASE Setup \/ Unload \/ Restart \/ RemoveEntry
  BY <1>3 DEF Setup, Unload, Restart, RemoveEntry, Served, Waits, Reporting, Up
<1>4. CASE \/ \E p \in Platforms : StartPlatform(p)
           \/ OpenDialog \/ CloseDialog \/ SubmitAborts \/ Submit \/ UNCHANGED vars
  <2>1. counts' = counts
    BY <1>4 DEF StartPlatform, OpenDialog, CloseDialog, SubmitAborts, Submit, vars
  <2> QED
    BY <2>1 DEF Served
<1> QED
  BY <1>2, <1>3, <1>4 DEF Next

LEMMA GoodUpdateServes ==
  ASSUME IInv, NEW n \in Nat, NEW r \in Rows, Served(n, r), UpdateWith(view, FALSE, TRUE, TRUE)
  PROVE  Served(n + 1, r)' \/ ~Waits(r)'
<1> SUFFICES ASSUME Waits(r)' PROVE counts'[r] >= n + 1 \/ counts'[r] = LeftoverDebounce
  BY DEF Served
<1>1. counts[r] \in 0 .. LeftoverDebounce /\ view \in Views
  BY DEF IInv, TypeOK
<1>2. counts'[r] = Bump(counts[r])
  BY <1>1, WindowAdvances DEF Served
<1> QED
  BY <1>1, <1>2, LeftoverAssumption DEF Bump, Served

\* With the window full, the same update puts the row on the card.
LEMMA GoodUpdateOffers ==
  ASSUME IInv, NEW r \in Rows, Waits(r), counts[r] = LeftoverDebounce,
         UpdateWith(view, FALSE, TRUE, TRUE)
  PROVE  Offers(r)'
<1> DEFINE record == Verdict(view, Settled(view, Window(view)), Extra(TRUE))
<1>1. TypeOK /\ PublishedIsCard /\ view \in Views /\ view.sensor = "reading"
      /\ ledger # {} /\ r \in Dead /\ SyncIssues(record, FALSE, TRUE)
  BY DEF IInv, TypeOK, Cards, Waits, Reporting, UpdateWith, Sweep
<1>2. r \in Settled(view, Window(view))
  BY <1>1, LeftoverAssumption DEF Settled, Window, Derived, Bump
<1>3. record = [shape |-> "leftover", pairs |-> Settled(view, Window(view))]
  BY <1>1, <1>2 DEF Verdict, Views
<1> HIDE DEF record
<1>4. record # None
  BY <1>3 DEF None
<1>5. RaiseIssue(record, TRUE)
  BY <1>1, <1>4 DEF SyncIssues
<1>6. card' = record
  BY <1>1, <1>5 DEF RaiseIssue, manager, PublishedIsCard
<1> QED
  BY <1>2, <1>3, <1>6 DEF Offers

\* Such an update can run while a row waits for its card.
UpdateCanOffer ==
    (\E r \in Rows : Waits(r) /\ ~Offers(r)) => ENABLED <<UpdateWith(view, FALSE, TRUE, TRUE)>>_vars

Live == FairSpec /\ []UpdateCanOffer

Climbs(m, n, r) == Served(m, r) ~> Served(n, r) \/ Settles(r)

LEMMA OneUpdate ==
  ASSUME NEW n \in Nat, NEW r \in Rows
  PROVE  Live => Climbs(n, n + 1, r)
<1>1. IInv /\ Served(n, r) /\ [Next]_vars => Served(n, r)' \/ Settles(r)'
  BY ServedLasts DEF Settles
<1>2. IInv /\ Served(n, r) /\ <<UpdateWith(view, FALSE, TRUE, TRUE)>>_vars
        => Served(n + 1, r)' \/ Settles(r)'
  BY GoodUpdateServes DEF Settles
<1>3. UpdateCanOffer /\ Served(n, r) /\ ~Settles(r)
        => ENABLED <<UpdateWith(view, FALSE, TRUE, TRUE)>>_vars
  BY DEF UpdateCanOffer, Served, Settles
<1> QED
  BY <1>1, <1>2, <1>3, Invariance, PTL DEF Live, FairSpec, Spec, Climbs

LEMMA LastUpdate ==
  ASSUME LeftoverDebounce <= 32, NEW r \in Rows
  PROVE  Live => (Served(32, r) ~> Settles(r))
<1>1. IInv /\ Served(32, r) /\ [Next]_vars => Served(32, r)' \/ Settles(r)'
  BY ServedLasts DEF Settles
<1>2. IInv /\ Served(32, r) /\ <<UpdateWith(view, FALSE, TRUE, TRUE)>>_vars => Settles(r)'
  <2>1. IInv /\ Served(32, r) => counts[r] = LeftoverDebounce /\ Waits(r)
    BY LeftoverAssumption DEF IInv, TypeOK, Served
  <2> QED
    BY <2>1, GoodUpdateOffers DEF Settles
<1>3. UpdateCanOffer /\ Served(32, r) /\ ~Settles(r)
        => ENABLED <<UpdateWith(view, FALSE, TRUE, TRUE)>>_vars
  BY DEF UpdateCanOffer, Served, Settles
<1> QED
  BY <1>1, <1>2, <1>3, Invariance, PTL DEF Live, FairSpec, Spec

LEMMA ClimbsOn ==
  ASSUME NEW a \in Nat, NEW b \in Nat, NEW c \in Nat, NEW r \in Rows
  PROVE  Climbs(a, b, r) /\ Climbs(b, c, r) => Climbs(a, c, r)
BY PTL DEF Climbs

\* No induction: the updates are added up by doubling.
LEMMA ThirtyTwoUpdates ==
  ASSUME NEW r \in Rows
  PROVE  Live => Climbs(0, 32, r)
<1>1. Live => \A n \in Nat : Climbs(n, n + 1, r)
  BY OneUpdate
<1>2. (\A n \in Nat : Climbs(n, n + 1, r)) => \A n \in Nat : Climbs(n, n + 2, r)
  BY ClimbsOn
<1>3. (\A n \in Nat : Climbs(n, n + 2, r)) => \A n \in Nat : Climbs(n, n + 4, r)
  BY ClimbsOn
<1>4. (\A n \in Nat : Climbs(n, n + 4, r)) => \A n \in Nat : Climbs(n, n + 8, r)
  BY ClimbsOn
<1>5. (\A n \in Nat : Climbs(n, n + 8, r)) => \A n \in Nat : Climbs(n, n + 16, r)
  BY ClimbsOn
<1>6. (\A n \in Nat : Climbs(n, n + 16, r)) => Climbs(0, 16, r) /\ Climbs(16, 32, r)
  OBVIOUS
<1>7. Climbs(0, 16, r) /\ Climbs(16, 32, r) => Climbs(0, 32, r)
  BY ClimbsOn
<1> QED
  BY <1>1, <1>2, <1>3, <1>4, <1>5, <1>6, <1>7

\* A row that stays dead on a device that reports is offered, whatever was offered,
\* refused, confirmed or unreadable in between (_build_leftover_row_pairs,
\* async_sync). The code's window is 30 updates.
THEOREM DeadRowGetsItsCard ==
  ASSUME LeftoverDebounce <= 32
  PROVE  Live => DeadRowIsOffered
<1>1. ASSUME NEW r \in Rows
      PROVE  Live => (Waits(r) ~> Settles(r))
  <2>1. IInv /\ Waits(r) => Served(0, r)
    BY DEF IInv, TypeOK, Served
  <2>2. Live => Climbs(0, 32, r)
    BY ThirtyTwoUpdates
  <2>3. Live => (Served(32, r) ~> Settles(r))
    BY LastUpdate
  <2> QED
    BY <2>1, <2>2, <2>3, Invariance, PTL DEF Live, FairSpec, Climbs
<1>2. Live => \A r \in Rows : (Waits(r) ~> Settles(r))
  BY <1>1
<1> QED
  BY <1>2 DEF DeadRowIsOffered, Waits, Settles, Offers

=============================================================================
