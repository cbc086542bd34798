------------------------ MODULE ControlConsent_proofs ------------------------
(***************************************************************************)
(* For any keys, platforms and catalog: no control is there unconsented    *)
(* and unannounced, and a device is announced again only when a save       *)
(* stamped the devices without it.                                         *)
(***************************************************************************)
EXTENDS ControlConsent, TLAPS

-----------------------------------------------------------------------------
(* The inductive invariant.                                                *)

\* What is registered was consented to or announced, not only what is live.
RowsAccounted == rows \ Faulty \subseteq covered \cup announced

\* A card that is there, and so suppresses another, was raised for this row.
CardsAccounted == cards \ Faulty \subseteq announced

\* There is a stamp only with the option on; it names only what was consented to,
\* and whom it leaves out was missed.
StampAccounted ==
    stamped => /\ enabled
               /\ ControlsOf(Domains, stamp) \subseteq covered
               /\ Keys \ stamp \subseteq missed

\* A sweep runs while no session holds an entity.
DownIsEmpty == ~up => live = {}

IInv == TypeOK /\ DownIsEmpty /\ RowsAccounted /\ CardsAccounted /\ StampAccounted

-----------------------------------------------------------------------------
(* The builders.                                                           *)

LEMMA ControlsOfType ==
    ASSUME NEW D, NEW K
    PROVE  ControlsOf(D, K) \subseteq Controls
BY DEF ControlsOf

LEMMA InDomains ==
    ASSUME NEW c \in Controls
    PROVE  c[1] \in Domains /\ c[2] \in Keys
BY DEF Controls

\* A build keeps the books, whatever it hands over and whatever card is refused.
LEMMA BuildKeeps ==
    ASSUME IInv, NEW D, NEW K, NEW lost, Build(D, K, lost)
    PROVE  /\ rows' \subseteq Controls
           /\ live' \subseteq rows'
           /\ had' \subseteq rows'
           /\ cards' \subseteq Controls
           /\ announced' \subseteq Controls
           /\ rows' \ Faulty \subseteq covered \cup announced'
           /\ cards' \ Faulty \subseteq announced'
<1> DEFINE built == ControlsOf(D, K)
           raise == Raised(built)
<1>1. built \subseteq Controls
  BY ControlsOfType
<1>2. raise \subseteq built
  BY DEF Raised
<1>3. /\ lost \subseteq raise \cap Faulty
      /\ cards' = cards \cup (raise \ lost)
      /\ announced' = announced \cup (raise \ lost)
      /\ rows' = rows \cup built
      /\ live' = live \cup built
      /\ had' = had \cup built
  BY DEF Build
<1>4. ASSUME NEW c \in built, c \notin Faulty
      PROVE  c \in covered \cup announced'
  <2>1. CASE c \in cards
    BY <2>1, <1>3, <1>4 DEF IInv, CardsAccounted
  <2>2. CASE Unannounced(c) /\ c \notin cards
    <3>1. c \in raise
      BY <2>2, <1>4 DEF Raised
    <3> QED  BY <3>1, <1>3, <1>4
  <2>3. CASE ~Unannounced(c) /\ stamped
    <3>1. c[2] \in stamp /\ c \in Controls
      BY <2>3, <1>1, <1>4 DEF Unannounced
    <3>2. c \in ControlsOf(Domains, stamp)
      BY <3>1, InDomains DEF ControlsOf
    <3> QED  BY <3>2, <2>3 DEF IInv, StampAccounted
  <2>4. CASE ~Unannounced(c) /\ ~stamped
    <3>1. c \in rows
      BY <2>4 DEF Unannounced
    <3> QED  BY <3>1, <1>3, <1>4 DEF IInv, RowsAccounted
  <2> QED  BY <2>1, <2>2, <2>3, <2>4
<1>5. rows' \subseteq Controls /\ live' \subseteq rows' /\ had' \subseteq rows'
  BY <1>1, <1>3 DEF IInv, TypeOK
<1>6. cards' \subseteq Controls /\ announced' \subseteq Controls
  BY <1>1, <1>2, <1>3 DEF IInv, TypeOK
<1>7. rows' \ Faulty \subseteq covered \cup announced'
  BY <1>3, <1>4 DEF IInv, RowsAccounted
<1>8. cards' \ Faulty \subseteq announced'
  BY <1>3 DEF IInv, CardsAccounted
<1> HIDE DEF built, raise
<1> QED  BY <1>5, <1>6, <1>7, <1>8

-----------------------------------------------------------------------------
(* Every step.                                                             *)

LEMMA InitIInv == Init => IInv
<1> SUFFICES ASSUME Init PROVE IInv
  OBVIOUS
<1>1. rows \subseteq Controls
  BY DEF Init
<1> QED  BY <1>1 DEF Init, IInv, TypeOK, DownIsEmpty, RowsAccounted, CardsAccounted, StampAccounted

LEMMA EligibleType == ASSUME TypeOK PROVE Eligible \subseteq Keys
BY DEF TypeOK, Eligible

LEMMA NextIInv == ASSUME IInv, [Next]_vars PROVE IInv'
<1>1. CASE SaveOn
  <2>1. CASE up
    <3>1. /\ stamped' = TRUE /\ stamp' = Eligible /\ enabled'
          /\ covered' = covered \cup ControlsOf(Domains, Eligible)
          /\ missed' = Keys \ Eligible
      BY <1>1, <2>1 DEF SaveOn, StampEligible, Stamp
    <3>2. Eligible \subseteq Keys
      BY EligibleType DEF IInv
    <3>3. ControlsOf(Domains, Eligible) \subseteq Controls
      BY ControlsOfType
    <3>4. TypeOK'
      BY <1>1, <3>1, <3>2, <3>3 DEF SaveOn, IInv, TypeOK, session, Controls, Datapoints, Commandable
    <3>5. RowsAccounted' /\ CardsAccounted'
      BY <1>1, <3>1 DEF SaveOn, IInv, RowsAccounted, CardsAccounted
    <3>6. ControlsOf(Domains, stamp)' = ControlsOf(Domains, Eligible)
      BY <3>1 DEF ControlsOf, Controls, Datapoints, Commandable
    <3>7. StampAccounted'
      BY <3>1, <3>6 DEF StampAccounted
    <3>8. DownIsEmpty'
      BY <1>1, <2>1 DEF SaveOn, session, DownIsEmpty
    <3> QED  BY <3>4, <3>5, <3>7, <3>8 DEF IInv
  <2>2. CASE ~up
    <3>1. UNCHANGED <<stamped, stamp, covered, missed>>
      BY <1>1, <2>2 DEF SaveOn, StampEligible
    <3> QED  BY <1>1, <3>1
             DEF SaveOn, IInv, TypeOK, session, DownIsEmpty, RowsAccounted, CardsAccounted, StampAccounted,
                 ControlsOf, Controls, Datapoints, Commandable
  <2> QED  BY <2>1, <2>2
<1>2. CASE SaveOff
  BY <1>2 DEF SaveOff, IInv, TypeOK, session, DownIsEmpty, RowsAccounted, CardsAccounted, StampAccounted,
              Controls, Datapoints, Commandable
<1>3. CASE Setup
  <2>1. CASE enabled
    BY <1>3, <2>1 DEF Setup, options, IInv, TypeOK, DownIsEmpty, RowsAccounted, CardsAccounted,
                      StampAccounted, ControlsOf, Controls, Datapoints, Commandable
  <2>2. CASE ~enabled
    <3>1. /\ rows' \subseteq rows /\ cards' \subseteq cards \cap Faulty
          /\ covered' = covered \cap rows' /\ announced' = announced \cap rows'
          /\ had' = had \cap rows'
      BY <1>3, <2>2 DEF Setup, Sweep, RemoveStaleRows, WithdrawCards
    <3>2. TypeOK'
      BY <1>3, <3>1 DEF Setup, options, IInv, TypeOK, DownIsEmpty, Controls, Datapoints, Commandable
    <3>3. RowsAccounted' /\ CardsAccounted'
      BY <3>1 DEF IInv, RowsAccounted, CardsAccounted
    <3>4. StampAccounted'
      BY <1>3, <2>2 DEF Setup, options, IInv, StampAccounted
    <3>5. DownIsEmpty'
      BY <1>3 DEF Setup, DownIsEmpty
    <3> QED  BY <3>2, <3>3, <3>4, <3>5 DEF IInv
  <2> QED  BY <2>1, <2>2
<1>4. ASSUME NEW D, NEW K, NEW lost, Build(D, K, lost),
             UNCHANGED options, up' = TRUE, unknown' \subseteq Keys,
             started' \subseteq Domains, running' \subseteq started',
             covered' = covered, missed' = missed
      PROVE  IInv'
  <2>1. /\ rows' \subseteq Controls
        /\ live' \subseteq rows'
        /\ had' \subseteq rows'
        /\ cards' \subseteq Controls
        /\ announced' \subseteq Controls
        /\ rows' \ Faulty \subseteq covered \cup announced'
        /\ cards' \ Faulty \subseteq announced'
    BY <1>4, BuildKeeps
  <2>2. Controls' = Controls
    BY DEF Controls, Datapoints, Commandable
  <2>3. TypeOK'
    BY <1>4, <2>1, <2>2 DEF options, IInv, TypeOK
  <2>4. RowsAccounted' /\ CardsAccounted'
    BY <1>4, <2>1 DEF RowsAccounted, CardsAccounted
  <2>5. StampAccounted'
    BY <1>4, <2>2 DEF options, IInv, StampAccounted, ControlsOf
  <2>6. DownIsEmpty'
    BY <1>4 DEF DownIsEmpty
  <2> QED  BY <2>3, <2>4, <2>5, <2>6 DEF IInv
<1>5. ASSUME NEW d \in Domains, StartPlatform(d)
      PROVE  IInv'
  <2>1. PICK lost \in SUBSET Faulty : Build(IF enabled THEN {d} ELSE {}, unknown, lost)
    BY <1>5 DEF StartPlatform
  <2>2. /\ UNCHANGED <<options, up, unknown, covered, missed>>
        /\ started' = started \cup {d}
        /\ running' = IF enabled THEN running \cup {d} ELSE running
    BY <1>5 DEF StartPlatform
  <2>3. /\ up' = TRUE /\ unknown' \subseteq Keys
        /\ started' \subseteq Domains /\ running' \subseteq started'
    BY <1>5, <2>2 DEF StartPlatform, IInv, TypeOK
  <2> QED  BY <1>4, <2>1, <2>2, <2>3
<1>6. CASE Update
  <2>1. PICK K \in SUBSET Keys, lost \in SUBSET Faulty : UpdateWith(K, lost)
    BY <1>6 DEF Update
  <2>2. /\ Build(running \cap Late, K, lost)
        /\ unknown' = K
        /\ UNCHANGED <<options, up, started, running, covered, missed>>
    BY <2>1 DEF UpdateWith
  <2>3. /\ up' = TRUE /\ unknown' \subseteq Keys
        /\ started' \subseteq Domains /\ running' \subseteq started'
    BY <2>1, <2>2 DEF UpdateWith, IInv, TypeOK
  <2> QED  BY <1>4, <2>2, <2>3
<1>7. CASE Unload
  BY <1>7 DEF Unload, options, history, IInv, TypeOK, DownIsEmpty, RowsAccounted, CardsAccounted,
              StampAccounted, ControlsOf, Controls, Datapoints, Commandable
<1>8. CASE UNCHANGED vars
  BY <1>8 DEF vars, options, session, history, IInv, TypeOK, DownIsEmpty, RowsAccounted, CardsAccounted,
              StampAccounted, ControlsOf, Controls, Datapoints, Commandable
<1> QED  BY <1>1, <1>2, <1>3, <1>5, <1>6, <1>7, <1>8 DEF Next

-----------------------------------------------------------------------------
(* The theorems.                                                           *)

THEOREM Inductive == Spec => []IInv
<1>1. Init => IInv
  BY InitIInv
<1>2. IInv /\ [Next]_vars => IInv'
  BY NextIInv
<1> QED  BY <1>1, <1>2, PTL DEF Spec

\* Every variable stays in its type: rows and cards are of controls the gate
\* admits, and what is live is registered.
THEOREM TypeCorrect == Spec => []TypeOK
<1>1. IInv => TypeOK
  BY DEF IInv
<1> QED  BY <1>1, Inductive, PTL

\* No control is live, on whatever devices and platforms, that the user neither
\* consented to nor was told of (_notify_if_newly_controlled).
THEOREM NoneUnannounced == Spec => []NoUnannouncedControl
<1>1. IInv => NoUnannouncedControl
  BY DEF IInv, TypeOK, RowsAccounted, NoUnannouncedControl
<1> QED  BY <1>1, Inductive, PTL

\* A device that had controls is announced again only when the last save that
\* stamped the devices missed it (_with_control_consent).
THEOREM MissedIsReannounced == Spec => ReannouncedOnlyIfMissed
<1> DEFINE A == \A c \in (cards' \ cards) \cap had : c[2] \in missed
<1>1. ASSUME IInv, NEW D, NEW K, NEW lost, Build(D, K, lost)
      PROVE  A
  <2> SUFFICES ASSUME NEW c \in (cards' \ cards) \cap had
               PROVE  c[2] \in missed
    OBVIOUS
  <2>1. Unannounced(c)
    BY <1>1 DEF Build, Raised
  <2>2. c \in rows /\ c[2] \in Keys
    BY <1>1, InDomains DEF IInv, TypeOK
  <2>3. stamped /\ c[2] \notin stamp
    BY <2>1, <2>2 DEF Unannounced
  <2> QED  BY <1>1, <2>2, <2>3 DEF IInv, StampAccounted
<1>2. IInv /\ [Next]_vars => [A]_vars
  <2> SUFFICES ASSUME IInv, Next PROVE A
    OBVIOUS
  <2>1. CASE SaveOn \/ SaveOff \/ Unload
    <3>1. cards' = cards
      BY <2>1 DEF SaveOn, SaveOff, Unload
    <3> QED  BY <3>1
  <2>2. CASE Setup
    <3>1. cards' \subseteq cards
      BY <2>2 DEF Setup, Sweep, RemoveStaleRows, WithdrawCards
    <3> QED  BY <3>1
  <2>3. ASSUME NEW d \in Domains, StartPlatform(d)
        PROVE  A
    BY <2>3, <1>1 DEF StartPlatform
  <2>4. CASE Update
    BY <2>4, <1>1 DEF Update, UpdateWith
  <2> HIDE DEF A
  <2> QED  BY <2>1, <2>2, <2>3, <2>4 DEF Next
<1>3. [][A]_vars => ReannouncedOnlyIfMissed
  BY DEF ReannouncedOnlyIfMissed
<1> QED  BY <1>2, <1>3, Inductive, PTL DEF Spec

-----------------------------------------------------------------------------
(* A refused card is made up for.                                          *)

\* The next update can do something about a card that is owed.
UpdateCanRaise ==
    (\E c \in Controls : Owed(c) /\ c \notin cards) => ENABLED <<UpdateWith(unknown, {})>>_vars

\* An update whose cards are not refused raises every card that is owed.
LEMMA UpdateRaises ==
    ASSUME NEW c \in Controls, Owed(c), UpdateWith(unknown, {})
    PROVE  c \in cards'
<1>1. c \in ControlsOf(running \cap Late, unknown)
  BY DEF Owed, ControlsOf, Eligible
<1>2. Unannounced(c)
  BY DEF Owed, Unannounced
<1>3. Build(running \cap Late, unknown, {})
  BY DEF UpdateWith
<1> QED  BY <1>1, <1>2, <1>3 DEF Build, Raised

THEOREM RefusedIsRaisedLater == FairSpec /\ []UpdateCanRaise => UnconsentedIsAnnounced
<1>1. ASSUME NEW c \in Controls
      PROVE  FairSpec /\ []UpdateCanRaise => (Owed(c) ~> c \in cards \/ ~Owed(c))
  <2>1. Owed(c) /\ <<UpdateWith(unknown, {})>>_vars => (c \in cards)'
    BY UpdateRaises
  <2>2. UpdateCanRaise => (Owed(c) /\ ~(c \in cards) => ENABLED <<UpdateWith(unknown, {})>>_vars)
    BY DEF UpdateCanRaise
  <2> QED  BY <2>1, <2>2, PTL DEF FairSpec
<1> QED  BY <1>1 DEF UnconsentedIsAnnounced

=============================================================================
