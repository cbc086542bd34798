----------------------- MODULE HubConnectivity_proofs -----------------------
(***************************************************************************)
(* Theorems of HubConnectivity for every value of the constants.           *)
(***************************************************************************)
EXTENDS HubConnectivity, TLAPS

-----------------------------------------------------------------------------
(* The operators the poll is built from.                                   *)

\* Any part of a device list with one home per hub has one home per hub.
LEMMA SublistIsAccount ==
  ASSUME NEW A \in Accounts, NEW L \in SUBSET A
  PROVE  L \in Accounts
BY DEF Accounts, OneHome

\* The provisional-absence counters stay inside their window.
LEMMA AbsentCountsType ==
  ASSUME NEW last \in SUBSET Hubs, NEW L \in SUBSET Hubs,
         NEW counts \in [Hubs -> 0 .. AbsentDebounce]
  PROVE  /\ AbsentCounts(last, counts, L) \in [Hubs -> 0 .. AbsentDebounce]
         /\ Remembered(last, counts, L) \subseteq Hubs
BY AbsentDebounceAssumption DEF AbsentCounts, Remembered, Provisional

\* A poll shows a record for every mid, and hides only hubs it does not list.
LEMMA ShownType ==
  ASSUME TypeOK, NEW L \in SUBSET Hubs
  PROVE  /\ Gone(L) \subseteq Hubs
         /\ Gone(L) \cap L = {}
         /\ Shown(L) \in [Mids -> Record]
<1>1. Gone(L) \subseteq Hubs /\ Gone(L) \cap L = {}
  BY DEF TypeOK, Gone, Provisional
<1>2. Polled(L) \in [Mids -> Record]
  BY DEF TypeOK, Polled, Guarded, NoRecord, Record, Moment
<1>3. Shown(L) \in [Mids -> Record]
  BY <1>2 DEF TypeOK, Shown
<1> QED
  BY <1>1, <1>3

\* A window starts at some moment of the clock.
LEMMA StartType ==
  ASSUME TypeOK, NEW L \in SUBSET Hubs, NEW h \in Hubs
  PROVE  Start(L, h) \in Time
<1>1. Shown(L)[MidOf[h]].moment \in Moment
  BY ShownType, ConnectivityAssumption DEF Record
<1>2. since[h] \in Moment /\ now \in Time
  BY DEF TypeOK
<1>3. \A x \in Moment : x # None => x \in Time
  BY DEF Moment
<1> QED
  BY <1>1, <1>2, <1>3 DEF Start, WindowStart, Earlier

\* A poll leaves every hub with a window that starts at a moment, or with none.
LEMMA WindowsType ==
  ASSUME TypeOK, NEW L \in SUBSET Hubs
  PROVE  Windows(L) \in [Hubs -> Moment]
BY StartType DEF Windows, Moment, TypeOK

\* Cards are raised over real hubs of the list only.
LEMMA DueType ==
  ASSUME NEW L \in SUBSET Hubs
  PROVE  Due(L) \subseteq L \cap RealHubs /\ Up(L) \subseteq L \cap RealHubs
BY DEF Due, Up, InState

\* What the manager does keeps cards on real hubs, and its belief founded.
LEMMA SyncIssuesStep ==
  ASSUME active \subseteq cards, cards \subseteq RealHubs, stuck \subseteq Faulty,
         NEW raise \in SUBSET RealHubs, NEW clear \in SUBSET Hubs,
         SyncIssues(raise, clear)
  PROVE  /\ active' \subseteq cards'
         /\ cards' \subseteq RealHubs
         /\ stuck' \subseteq Faulty
         /\ active' \subseteq active \cup raise
         /\ cards' \cap clear \subseteq stuck' \cup raise
         /\ cards' \ stuck' \subseteq (cards \ stuck) \cup raise
BY DEF SyncIssues

-----------------------------------------------------------------------------
(* Type correctness.                                                       *)

\* The first coordinator of a session has every variable in its type.
LEMMA InitType == Init => TypeOK
<1> SUFFICES ASSUME Init PROVE TypeOK
  OBVIOUS
<1>1. {} \in Accounts
  BY DEF Accounts, OneHome
<1>2. NoRecord \in Record
  BY DEF NoRecord, Record, Moment
<1>3. now \in Time /\ [state |-> "connected", moment |-> 0] \in [state : Flag, moment : Time]
  BY ConnectivityAssumption DEF Init, Time, Flag
<1>4. truth \in [Mids -> [state : Flag, moment : Time]]
  BY <1>3 DEF Init
<1>5. reply \in [Mids -> Record] /\ conn \in [Mids -> Record]
  BY <1>2 DEF Init, Pending
<1>6. /\ since \in [Hubs -> Moment] /\ backAt \in [Hubs -> Moment]
      /\ drops \in [Mids -> SUBSET Time]
  BY DEF Init, Moment
<1>7. absent \in [Hubs -> 0 .. AbsentDebounce] /\ omitted \in [Hubs -> 0 .. AbsentDebounce + 1]
  BY AbsentDebounceAssumption DEF Init
<1> QED
  BY <1>1, <1>3, <1>4, <1>5, <1>6, <1>7 DEF Init, TypeOK

\* The reconnect noted for a hub is a moment, or none.
LEMMA NoteReconnectsType ==
  ASSUME backAt \in [Hubs -> Moment], conn' \in [Mids -> Record], NoteReconnects
  PROVE  backAt' \in [Hubs -> Moment]
<1> SUFFICES ASSUME NEW h \in Hubs
             PROVE  (IF conn'[MidOf[h]].moment = None THEN None
                     ELSE IF conn'[MidOf[h]].state = "connected" /\ h \in dataHubs'
                     THEN conn'[MidOf[h]].moment
                     ELSE backAt[h]) \in Moment
  BY DEF NoteReconnects
<1>1. conn'[MidOf[h]] \in Record
  BY ConnectivityAssumption
<1> QED
  BY <1>1 DEF Record, Moment

\* The tail of a poll, whichever list it ends.
LEMMA FinishType ==
  ASSUME TypeOK, active \subseteq cards, NEW L \in Accounts, Finish(L)
  PROVE  TypeOK' /\ (active \subseteq cards)'
<1> USE DEF Finish
<1>1. L \in SUBSET Hubs
  BY DEF Accounts
<1>2. UNCHANGED <<now, cloud>> /\ phase' = "idle" /\ listed' = {} /\ dataHubs' = L
  OBVIOUS
<1>3. reply' \in [Mids -> Record] /\ conn' \in [Mids -> Record]
  BY <1>1, ShownType DEF Pending, NoRecord, Record, Moment
<1>4. /\ since' \in [Hubs -> Moment]
      /\ lastHubs' \subseteq Hubs
      /\ absent' \in [Hubs -> 0 .. AbsentDebounce]
      /\ omitted' \in [Hubs -> 0 .. AbsentDebounce + 1]
      /\ active' \subseteq cards' /\ cards' \subseteq RealHubs /\ stuck' \subseteq Faulty
  <2>1. CASE Reconcile(L)
    <3>1. since' \in [Hubs -> Moment]
      BY <1>1, <2>1, WindowsType DEF Reconcile
    <3>2. /\ lastHubs' \subseteq Hubs
          /\ absent' \in [Hubs -> 0 .. AbsentDebounce]
      <4>1. CASE L = {}
        BY <2>1, <4>1 DEF Reconcile, TypeOK, track
      <4>2. CASE L # {}
        <5>1. /\ lastHubs' = Remembered(lastHubs, absent, L)
              /\ absent' = AbsentCounts(lastHubs, absent, L)
          BY <2>1, <4>2 DEF Reconcile
        <5>2. lastHubs \in SUBSET Hubs /\ absent \in [Hubs -> 0 .. AbsentDebounce]
          BY DEF TypeOK
        <5> QED
          BY <1>1, <5>1, <5>2, AbsentCountsType
      <4> QED
        BY <4>1, <4>2
    <3>3. omitted' \in [Hubs -> 0 .. AbsentDebounce + 1]
      <4>1. CASE L = {}
        BY <2>1, <4>1 DEF Reconcile, TypeOK, track
      <4>2. CASE L # {}
        <5>1. omitted' = [h \in Hubs |->
                 IF h \in L THEN 0
                 ELSE IF omitted[h] > AbsentDebounce THEN omitted[h]
                 ELSE omitted[h] + 1]
          BY <2>1, <4>2 DEF Reconcile
        <5>2. omitted \in [Hubs -> 0 .. AbsentDebounce + 1]
          BY DEF TypeOK
        <5> HIDE DEF Finish
        <5> QED
          BY <5>1, <5>2, AbsentDebounceAssumption
      <4> QED
        BY <4>1, <4>2
    <3>4. Due(L) \ active \in SUBSET RealHubs
      BY <1>1, DueType
    <3>5. Cleared(L) \in SUBSET Hubs
      BY <1>1, DueType, ConnectivityAssumption DEF Cleared, TypeOK
    <3>6. active' \subseteq cards' /\ cards' \subseteq RealHubs /\ stuck' \subseteq Faulty
      BY <2>1, <3>4, <3>5, SyncIssuesStep DEF Reconcile, TypeOK
    <3> QED
      BY <3>1, <3>2, <3>3, <3>6
  <2>2. CASE UNCHANGED <<since, track, issues>>
    BY <2>2 DEF TypeOK, track, issues
  <2> QED
    BY <2>1, <2>2
<1>5. active' \subseteq RealHubs
  BY <1>4
<1>6. {} \in Accounts
  BY DEF Accounts, OneHome
<1>7. backAt' \in [Hubs -> Moment]
  BY <1>3, NoteReconnectsType DEF TypeOK
<1> QED
  BY <1>2, <1>3, <1>4, <1>5, <1>6, <1>7 DEF TypeOK, cloud

\* The manager's belief and the types hold together; neither is inductive alone.
LEMMA NextType == TypeOK /\ ActiveCardsStand /\ [Next]_vars => TypeOK' /\ ActiveCardsStand'
<1> SUFFICES ASSUME TypeOK, ActiveCardsStand, [Next]_vars
             PROVE  TypeOK' /\ ActiveCardsStand'
  OBVIOUS
<1> USE DEF ActiveCardsStand
<1>0. account \in Accounts /\ listed \in Accounts /\ {} \in Accounts
  BY DEF TypeOK, Accounts, OneHome
<1>1. CASE PollList
  <2>1. PICK L \in SUBSET account :
           IF L = {} THEN Finish(L)
           ELSE /\ phase' = "status"
                /\ listed' = L
                /\ UNCHANGED <<now, cloud, reply, data, since, track, issues>>
    BY <1>1 DEF PollList
  <2>2. L \in Accounts
    BY <1>0, SublistIsAccount
  <2>3. CASE L = {}
    BY <2>1, <2>2, <2>3, FinishType
  <2>4. CASE L # {}
    BY <2>1, <2>2, <2>4 DEF TypeOK, cloud, data, track, issues
  <2> QED
    BY <2>3, <2>4
<1>2. ASSUME NEW m \in Mids, FetchStatus(m)
      PROVE  TypeOK' /\ ActiveCardsStand'
  <2>1. PICK r \in Record : reply' = [reply EXCEPT ![m] = r]
    <3>1. view[m] \in Record
      BY DEF TypeOK, Record, Moment, Flag
    <3>2. Served(m) \subseteq Record
      BY <3>1 DEF Served, Record, Moment
    <3>3. \A s \in Served(m) : [s EXCEPT !.state = "unknown"] \in Record
      BY <3>2 DEF Record
    <3>4. Unknown \in Record
      BY DEF Unknown, Record, Moment
    <3> QED
      BY <1>2, <3>2, <3>3, <3>4 DEF FetchStatus
  <2>2. reply' \in [Mids -> Record]
    BY <2>1 DEF TypeOK
  <2> QED
    BY <1>2, <2>2 DEF FetchStatus, TypeOK, cloud, data, track, issues
<1>3. CASE PollTail
  BY <1>0, <1>3, FinishType DEF PollTail
<1>4. CASE PollFails
  BY <1>0, <1>4 DEF PollFails, TypeOK, Pending, NoRecord, Record, Moment, cloud, data, track, issues
<1>5. ASSUME NEW f \in frames, PushHub(f)
      PROVE  TypeOK' /\ ActiveCardsStand'
  <2>1. PICK h \in dataHubs \cap RealHubs :
           /\ conn' = [conn EXCEPT ![f.mid] = [state |-> f.state, moment |-> f.moment]]
           /\ EdgeDecides(f, h)
    BY <1>5 DEF PushHub
  <2>2. f \in [mid : Mids, state : Flag, moment : Time]
    BY DEF TypeOK
  <2>3. conn' \in [Mids -> Record]
    BY <2>1, <2>2 DEF TypeOK, Record, Moment
  <2>4. /\ since' \in [Hubs -> Moment]
        /\ active' \subseteq cards' /\ cards' \subseteq RealHubs /\ stuck' \subseteq Faulty
    <3>1. CASE f.state = "connected"
      <4>1. {h} \in SUBSET Hubs /\ {} \in SUBSET RealHubs
        BY ConnectivityAssumption
      <4>2. SyncIssues({}, {h}) /\ since' = [since EXCEPT ![h] = None]
        BY <2>1, <3>1 DEF EdgeDecides
      <4>3. active' \subseteq cards' /\ cards' \subseteq RealHubs /\ stuck' \subseteq Faulty
        BY <4>1, <4>2, SyncIssuesStep DEF TypeOK
      <4> QED
        BY <4>2, <4>3 DEF TypeOK, Moment
    <3>2. CASE f.state # "connected"
      BY <2>1, <3>2 DEF EdgeDecides, TypeOK, issues
    <3> QED
      BY <3>1, <3>2
  <2>5. backAt' \in [Hubs -> Moment]
    BY <1>5, <2>3, NoteReconnectsType DEF PushHub, TypeOK
  <2> QED
    BY <1>5, <2>3, <2>4, <2>5 DEF PushHub, TypeOK, cloud, poll, track
<1>6. ASSUME NEW end \in SessionEnds, NewSession(end)
      PROVE  TypeOK' /\ ActiveCardsStand'
  <2>1. conn' \in [Mids -> Record]
    BY <1>6 DEF NewSession, NoRecord, Record, Moment
  <2>2. backAt' \in [Hubs -> Moment]
    BY <1>6, <2>1, NoteReconnectsType DEF NewSession, TypeOK
  <2> QED
    BY <1>0, <1>6, <2>1, <2>2, AbsentDebounceAssumption
       DEF NewSession, TypeOK, Pending, NoRecord, Record, Moment, cloud
<1>7. CASE Tick
  BY <1>7, ConnectivityAssumption DEF Tick, TypeOK, Time, cloud, poll, data, track, issues
<1>8. ASSUME NEW m \in Mids, Flip(m)
      PROVE  TypeOK' /\ ActiveCardsStand'
  BY <1>8 DEF Flip, TypeOK, Flag, Moment, poll, data, track, issues
<1>9. ASSUME NEW m \in Mids, ViewCatchesUp(m)
      PROVE  TypeOK' /\ ActiveCardsStand'
  BY <1>9 DEF ViewCatchesUp, TypeOK, poll, data, track, issues
<1>10. ASSUME NEW f \in frames, LoseFrame(f)
       PROVE  TypeOK' /\ ActiveCardsStand'
  BY <1>10 DEF LoseFrame, TypeOK, poll, data, track, issues
<1>11. CASE AccountChanges
  BY <1>11 DEF AccountChanges, TypeOK, poll, data, track, issues
<1>12. CASE Stabilise
  BY <1>12 DEF Stabilise, TypeOK, poll, data, track, issues
<1>13. CASE UNCHANGED vars
  BY <1>13 DEF vars, TypeOK, cloud, poll, data, track, issues
<1> QED
  BY <1>1, <1>2, <1>3, <1>4, <1>5, <1>6, <1>7, <1>8, <1>9, <1>10, <1>11, <1>12, <1>13
     DEF Next, Poll

\* Every variable keeps its type, for any hubs, mids, thresholds and clocks.
THEOREM TypeCorrect == Spec => []TypeOK
<1>1. Init => TypeOK /\ ActiveCardsStand
  BY InitType DEF Init, ActiveCardsStand
<1> QED
  BY <1>1, NextType, PTL DEF Spec

\* The manager never believes in a card that the issue registry does not hold,
\* even when the registry refuses calls (RainPointHubConnectivityIssues).
THEOREM BeliefIsFounded == Spec => []ActiveCardsStand
<1>1. Init => TypeOK /\ ActiveCardsStand
  BY InitType DEF Init, ActiveCardsStand
<1> QED
  BY <1>1, NextType, PTL DEF Spec

-----------------------------------------------------------------------------
(* What is shown, the windows and the cards.                               *)

\* The frame of every step below.
Believed == TypeOK /\ ActiveCardsStand

\* The two facts above, as one invariant for the steps below.
LEMMA BelievedHolds == Spec => []Believed
BY TypeCorrect, BeliefIsFounded, PTL DEF Believed

\* After a poll, every listed hub's window and card agree with its record.
LEMMA FinishAgrees ==
  ASSUME Believed, NEW L \in Accounts, Finish(L)
  PROVE  WindowOnlyWhileDown' /\ NoCardOverConnectedHub'
<1>1. L \in SUBSET Hubs /\ dataHubs' = L /\ conn' = Shown(L)
  BY DEF Finish, Accounts
<1>2. CASE L = {}
  BY <1>1, <1>2 DEF WindowOnlyWhileDown, NoCardOverConnectedHub
<1>3. CASE L # {}
  <2>1. since' = Windows(L) /\ SyncIssues(Due(L) \ active, Cleared(L))
    BY <1>3 DEF Finish, Reconcile
  <2>2. Gone(L) \cap L = {}
    BY <1>1, ShownType DEF Believed
  <2>3. WindowOnlyWhileDown'
    BY <1>1, <2>1, <2>2 DEF WindowOnlyWhileDown, Windows, InState
  <2>4. NoCardOverConnectedHub'
    <3> SUFFICES ASSUME NEW h \in L, h \in cards', h \notin stuck',
                        Shown(L)[MidOf[h]].state = "connected"
                 PROVE  FALSE
      BY <1>1 DEF NoCardOverConnectedHub
    <3>1. /\ Due(L) \ active \in SUBSET RealHubs
          /\ Cleared(L) \in SUBSET Hubs
      BY <1>1, DueType, ConnectivityAssumption DEF Cleared, Believed, TypeOK
    <3>2. /\ cards' \subseteq RealHubs
          /\ cards' \cap Cleared(L) \subseteq stuck' \cup (Due(L) \ active)
      BY <2>1, <3>1, SyncIssuesStep DEF Believed, ActiveCardsStand, TypeOK
    <3>3. h \in Up(L) /\ h \notin Due(L)
      BY <3>2 DEF Up, Due, InState
    <3> QED
      BY <3>2, <3>3 DEF Cleared
  <2> QED
    BY <2>3, <2>4
<1> QED
  BY <1>2, <1>3

Agreement == WindowOnlyWhileDown /\ NoCardOverConnectedHub

\* Every step keeps windows and cards in agreement with the records shown: a
\* poll by FinishAgrees, a pushed connected edge by shutting and clearing both.
LEMMA AgreementStep == Believed /\ Agreement /\ [Next]_vars => Agreement'
<1> SUFFICES ASSUME Believed, Agreement, [Next]_vars
             PROVE  Agreement'
  OBVIOUS
<1> USE DEF Agreement
<1>0. account \in Accounts /\ listed \in Accounts
  BY DEF Believed, TypeOK
<1>a. ASSUME UNCHANGED <<data, since, issues>>
      PROVE  Agreement'
  BY <1>a DEF WindowOnlyWhileDown, NoCardOverConnectedHub, data, issues
<1>1. CASE PollList
  <2>1. PICK L \in SUBSET account :
           IF L = {} THEN Finish(L) ELSE UNCHANGED <<data, since, issues>>
    BY <1>1 DEF PollList, data, issues
  <2>2. L \in Accounts
    BY <1>0, SublistIsAccount
  <2> QED
    BY <1>a, <2>1, <2>2, FinishAgrees
<1>2. ASSUME NEW m \in Mids, FetchStatus(m)
      PROVE  Agreement'
  BY <1>a, <1>2 DEF FetchStatus
<1>3. CASE PollTail
  BY <1>0, <1>3, FinishAgrees DEF PollTail
<1>4. CASE PollFails
  BY <1>a, <1>4 DEF PollFails
<1>5. ASSUME NEW f \in frames, PushHub(f)
      PROVE  Agreement'
  <2>1. PICK h \in dataHubs \cap RealHubs :
           /\ MidOf[h] = f.mid
           /\ conn' = [conn EXCEPT ![f.mid] = [state |-> f.state, moment |-> f.moment]]
           /\ EdgeDecides(f, h)
    BY <1>5 DEF PushHub
  <2>2. /\ f \in [mid : Mids, state : Flag, moment : Time]
        /\ conn \in [Mids -> Record] /\ since \in [Hubs -> Moment]
        /\ h \in Hubs /\ dataHubs \in SUBSET Hubs
    BY DEF Believed, TypeOK, Accounts
  <2>3. dataHubs' = dataHubs
    BY <1>5 DEF PushHub
  <2>4. \A g \in dataHubs : MidOf[g] = f.mid => g = h
    BY <2>1 DEF Believed, TypeOK, Accounts, OneHome
  <2>5. conn'[f.mid].state = f.state
    BY <2>1, <2>2
  <2>6. \A g \in dataHubs \ {h} : conn'[MidOf[g]] = conn[MidOf[g]]
    BY <2>1, <2>2, <2>4, ConnectivityAssumption
  <2>7. CASE f.state = "connected"
    <3>1. since' = [since EXCEPT ![h] = None] /\ SyncIssues({}, {h})
      BY <2>1, <2>7 DEF EdgeDecides
    <3>2. {h} \in SUBSET Hubs /\ {} \in SUBSET RealHubs
      BY <2>2
    <3>3. /\ cards' \cap {h} \subseteq stuck' \cup {}
          /\ cards' \ stuck' \subseteq (cards \ stuck) \cup {}
      BY <3>1, <3>2, SyncIssuesStep DEF Believed, ActiveCardsStand, TypeOK
    <3>4. WindowOnlyWhileDown'
      BY <2>2, <2>3, <2>6, <3>1 DEF WindowOnlyWhileDown
    <3>5. NoCardOverConnectedHub'
      BY <2>3, <2>6, <3>3 DEF NoCardOverConnectedHub
    <3> QED
      BY <3>4, <3>5
  <2>8. CASE f.state # "connected"
    <3>1. UNCHANGED <<since, issues>> /\ f.state = "disconnected"
      BY <2>1, <2>2, <2>8 DEF EdgeDecides, Flag
    <3>2. WindowOnlyWhileDown'
      BY <2>1, <2>3, <2>5, <2>6, <3>1 DEF WindowOnlyWhileDown
    <3>3. NoCardOverConnectedHub'
      BY <2>1, <2>3, <2>5, <2>6, <3>1 DEF NoCardOverConnectedHub, issues
    <3> QED
      BY <3>2, <3>3
  <2> QED
    BY <2>7, <2>8
<1>6. ASSUME NEW end \in SessionEnds, NewSession(end)
      PROVE  Agreement'
  BY <1>6 DEF NewSession, WindowOnlyWhileDown, NoCardOverConnectedHub
<1>7. CASE Tick
  BY <1>a, <1>7 DEF Tick
<1>8. ASSUME NEW m \in Mids, Flip(m)
      PROVE  Agreement'
  BY <1>a, <1>8 DEF Flip
<1>9. ASSUME NEW m \in Mids, ViewCatchesUp(m)
      PROVE  Agreement'
  BY <1>a, <1>9 DEF ViewCatchesUp
<1>10. ASSUME NEW f \in frames, LoseFrame(f)
       PROVE  Agreement'
  BY <1>a, <1>10 DEF LoseFrame
<1>11. CASE AccountChanges
  BY <1>a, <1>11 DEF AccountChanges
<1>12. CASE Stabilise
  BY <1>a, <1>12 DEF Stabilise
<1>13. CASE UNCHANGED vars
  BY <1>a, <1>13 DEF vars
<1> QED
  BY <1>1, <1>2, <1>3, <1>4, <1>5, <1>6, <1>7, <1>8, <1>9, <1>10, <1>11, <1>12, <1>13
     DEF Next, Poll

\* A running outage window always belongs to a hub that is shown disconnected
\* (_sync_hub_connectivity_issues and the connected edge of
\* apply_hub_push_update), so no outage inherits the start of an earlier one.
THEOREM WindowsBelongToOutages == Spec => []WindowOnlyWhileDown
<1>1. Init => Agreement
  BY DEF Init, Agreement, WindowOnlyWhileDown, NoCardOverConnectedHub
<1> QED
  BY <1>1, AgreementStep, BelievedHolds, PTL DEF Spec, Agreement

\* No hub is shown connected under its outage card, even one that an earlier
\* session raised, unless the registry refused to delete it.
THEOREM CardsAgreeWithRecords == Spec => []NoCardOverConnectedHub
<1>1. Init => Agreement
  BY DEF Init, Agreement, WindowOnlyWhileDown, NoCardOverConnectedHub
<1> QED
  BY <1>1, AgreementStep, BelievedHolds, PTL DEF Spec, Agreement

-----------------------------------------------------------------------------
(* The two ordering guards and the floor of the window.                    *)

\* Moments other than None are integers, so they are ordered.
LEMMA MomentIsInt ==
  ASSUME NEW r \in Record, r.moment # None
  PROVE  r.moment \in Int
BY DEF Record, Moment, Time

\* What a poll shows is the record held or a reply that is not provably older.
LEMMA ShownIsNoOlder ==
  ASSUME Believed, NEW L \in Accounts, NEW m \in Mids,
         conn[m].moment # None, Shown(L)[m].moment # None
  PROVE  Shown(L)[m].moment >= conn[m].moment
<1>1. /\ conn[m].moment \in Int
      /\ reply[m].moment # None => reply[m].moment \in Int
  <2>1. conn[m] \in Record /\ reply[m] \in Record
    BY DEF Believed, TypeOK
  <2> QED
    BY <2>1, MomentIsInt
<1>2. Shown(L)[m] = conn[m] \/ Shown(L)[m] = Polled(L)[m]
  BY DEF Shown
<1>3. CASE Shown(L)[m] = conn[m]
  BY <1>1, <1>3
<1>4. CASE Shown(L)[m] = Polled(L)[m]
  <2>1. Shown(L)[m] = Guarded(reply[m], conn[m])
    BY <1>4 DEF Polled, NoRecord
  <2>2. CASE reply[m].moment < conn[m].moment
    BY <1>1, <2>1, <2>2 DEF Guarded
  <2>3. CASE ~(reply[m].moment < conn[m].moment)
    BY <1>1, <2>1, <2>3 DEF Guarded
  <2> QED
    BY <2>2, <2>3
<1> QED
  BY <1>2, <1>3, <1>4

\* No step moves a recorded edge backwards: what a poll shows is the record
\* held or a reply that is not provably older (_guard_hub_connectivity_order),
\* and a pushed edge is applied only when newer (apply_hub_push_update).
THEOREM RecordsMoveForward == Spec => EdgesNeverRegress
<1> DEFINE Forward ==
      \A m \in Mids : conn[m].moment # None /\ conn'[m].moment # None
                        => conn'[m].moment >= conn[m].moment
<1>1. ASSUME Believed, NEW L \in Accounts, Finish(L)
      PROVE  Forward
  BY <1>1, ShownIsNoOlder DEF Finish
<1>2. ASSUME Believed, NEW f \in frames, PushHub(f)
      PROVE  Forward
  <2>1. /\ conn' = [conn EXCEPT ![f.mid] = [state |-> f.state, moment |-> f.moment]]
        /\ ~Older(f, conn[f.mid])
    BY <1>2 DEF PushHub
  <2>2. conn \in [Mids -> Record] /\ f \in [mid : Mids, state : Flag, moment : Time]
    BY <1>2 DEF Believed, TypeOK
  <2>3. f.moment \in Int
    BY <2>2 DEF Time
  <2>4. \A m \in Mids : conn[m].moment # None => conn[m].moment \in Int
    BY <2>2, MomentIsInt
  <2> QED
    BY <2>1, <2>2, <2>3, <2>4 DEF Older
<1>3. ASSUME Believed, UNCHANGED conn
      PROVE  Forward
  BY <1>3, MomentIsInt DEF Believed, TypeOK
<1>4. ASSUME NEW end \in SessionEnds, NewSession(end)
      PROVE  Forward
  BY <1>4 DEF NewSession, NoRecord
<1>5. Believed /\ [Next]_vars => [Forward]_vars
  <2> SUFFICES ASSUME Believed, [Next]_vars
               PROVE  Forward
    OBVIOUS
  <2>0. account \in Accounts /\ listed \in Accounts
    BY DEF Believed, TypeOK
  <2>1. CASE PollList
    <3>1. PICK L \in SUBSET account : IF L = {} THEN Finish(L) ELSE UNCHANGED conn
      BY <2>1 DEF PollList, data
    <3> QED
      BY <1>1, <1>3, <2>0, <3>1, SublistIsAccount
  <2>2. CASE PollTail
    BY <1>1, <2>0, <2>2 DEF PollTail
  <2>3. CASE \E m \in Mids : FetchStatus(m)
    BY <1>3, <2>3 DEF FetchStatus, data
  <2>4. CASE PollFails \/ Tick \/ AccountChanges \/ Stabilise
    BY <1>3, <2>4 DEF PollFails, Tick, AccountChanges, Stabilise, data
  <2>5. CASE \E m \in Mids : Flip(m) \/ ViewCatchesUp(m)
    BY <1>3, <2>5 DEF Flip, ViewCatchesUp, data
  <2>6. CASE \E f \in frames : LoseFrame(f)
    BY <1>3, <2>6 DEF LoseFrame, data
  <2>7. CASE UNCHANGED vars
    BY <1>3, <2>7 DEF vars, data
  <2> QED
    BY <1>2, <1>4, <2>1, <2>2, <2>3, <2>4, <2>5, <2>6, <2>7 DEF Next, Poll
<1> QED
  BY <1>5, BelievedHolds, PTL DEF Spec, EdgesNeverRegress

\* A window in progress is only ever moved earlier (_hub_disconnect_window_start),
\* so re-stamped edges cannot keep an outage from ever reaching the threshold.
THEOREM WindowsMoveBack == Spec => WindowNeverMovesForward
<1> DEFINE Back ==
      \A h \in Hubs : since[h] # None /\ since'[h] # None => since'[h] <= since[h]
<1>0. ASSUME Believed, NEW h \in Hubs, since[h] # None
      PROVE  since[h] \in Int
  <2>1. since[h] \in Moment
    BY <1>0 DEF Believed, TypeOK
  <2> QED
    BY <1>0, <2>1 DEF Moment, Time
<1>1. ASSUME Believed, UNCHANGED since
      PROVE  Back
  BY <1>0, <1>1
<1>2. ASSUME Believed, NEW L \in Accounts, Finish(L)
      PROVE  Back
  <2>1. CASE Reconcile(L)
    <3> SUFFICES ASSUME NEW h \in Hubs, since[h] # None, since'[h] # None
                 PROVE  since'[h] <= since[h]
      OBVIOUS
    <3>1. since[h] \in Int
      BY <1>0, <1>2
    <3>2. since'[h] = Start(L, h) \/ since'[h] = since[h]
      BY <2>1 DEF Reconcile, Windows
    <3>3. L \in SUBSET Hubs /\ TypeOK
      BY <1>2 DEF Believed, Accounts
    <3>4. Start(L, h) <= since[h]
      <4> DEFINE r == Shown(L)[MidOf[h]]
      <4>1. r \in Record
        BY <3>3, ShownType, ConnectivityAssumption
      <4>2. CASE r.moment = None
        BY <3>1, <4>2 DEF Start, WindowStart
      <4>3. CASE r.moment # None
        <5>1. r.moment \in Int
          BY <4>1, <4>3, MomentIsInt
        <5>2. Start(L, h) = Earlier(since[h], r.moment)
          BY <4>3 DEF Start, WindowStart
        <5> QED
          BY <3>1, <5>1, <5>2 DEF Earlier
      <4> QED
        BY <4>2, <4>3
    <3> QED
      BY <3>1, <3>2, <3>4
  <2>2. CASE UNCHANGED <<since, track, issues>>
    BY <1>1, <1>2, <2>2
  <2> QED
    BY <1>2, <2>1, <2>2 DEF Finish
<1>3. ASSUME Believed, NEW f \in frames, PushHub(f)
      PROVE  Back
  <2>1. UNCHANGED since \/ \E h \in Hubs : since' = [since EXCEPT ![h] = None]
    BY <1>3, ConnectivityAssumption DEF PushHub, EdgeDecides
  <2>2. since \in [Hubs -> Moment]
    BY <1>3 DEF Believed, TypeOK
  <2>3. CASE \E h \in Hubs : since' = [since EXCEPT ![h] = None]
    BY <1>0, <1>3, <2>2, <2>3
  <2> QED
    BY <1>1, <1>3, <2>1, <2>3
<1>4. ASSUME NEW end \in SessionEnds, NewSession(end)
      PROVE  Back
  BY <1>4 DEF NewSession
<1>5. Believed /\ [Next]_vars => [Back]_vars
  <2> SUFFICES ASSUME Believed, [Next]_vars
               PROVE  Back
    OBVIOUS
  <2>0. account \in Accounts /\ listed \in Accounts
    BY DEF Believed, TypeOK
  <2>1. CASE PollList
    <3>1. PICK L \in SUBSET account : IF L = {} THEN Finish(L) ELSE UNCHANGED since
      BY <2>1 DEF PollList
    <3> QED
      BY <1>1, <1>2, <2>0, <3>1, SublistIsAccount
  <2>2. CASE PollTail
    BY <1>2, <2>0, <2>2 DEF PollTail
  <2>3. CASE \E m \in Mids : FetchStatus(m)
    BY <1>1, <2>3 DEF FetchStatus
  <2>4. CASE PollFails \/ Tick \/ AccountChanges \/ Stabilise
    BY <1>1, <2>4 DEF PollFails, Tick, AccountChanges, Stabilise
  <2>5. CASE \E m \in Mids : Flip(m) \/ ViewCatchesUp(m)
    BY <1>1, <2>5 DEF Flip, ViewCatchesUp
  <2>6. CASE \E f \in frames : LoseFrame(f)
    BY <1>1, <2>6 DEF LoseFrame
  <2>7. CASE UNCHANGED vars
    BY <1>1, <2>7 DEF vars
  <2> QED
    BY <1>3, <1>4, <2>1, <2>2, <2>3, <2>4, <2>5, <2>6, <2>7 DEF Next, Poll
<1> QED
  BY <1>5, BelievedHolds, PTL DEF Spec, WindowNeverMovesForward

-----------------------------------------------------------------------------
(* No record in the system is later than the edge the cloud knows, so that *)
(* an answer that has caught up with the cloud is never passed over.       *)

NotAfter(m, r) == r.moment # None => r.moment <= truth[m].moment

Chronology ==
    /\ \A m \in Mids :
          /\ NotAfter(m, view[m])
          /\ NotAfter(m, reply[m])
          /\ NotAfter(m, conn[m])
          /\ phase = "idle" => reply[m] = Pending
    /\ \A f \in frames : NotAfter(f.mid, f)

\* The tail of a poll shows no later record than it held or was answered.
LEMMA FinishChronology ==
  ASSUME TypeOK, Chronology, NEW L \in SUBSET Hubs, Finish(L)
  PROVE  Chronology'
<1>1. UNCHANGED <<truth, view, frames>>
  BY DEF Finish, cloud
<1>2. ASSUME NEW m \in Mids
      PROVE  reply'[m] = Pending /\ conn'[m] \in {conn[m], reply[m], NoRecord}
  BY DEF Finish, Shown, Polled, Guarded
<1> QED
  BY <1>1, <1>2 DEF Chronology, NotAfter, Pending, NoRecord

\* Neither does any other step: an edge that flips is later than all before.
LEMMA ChronologyStep == Believed /\ Chronology /\ [Next]_vars => Chronology'
<1> SUFFICES ASSUME Believed, Chronology, [Next]_vars
             PROVE  Chronology'
  OBVIOUS
<1>0. TypeOK /\ account \in Accounts /\ listed \in Accounts
  BY DEF Believed, TypeOK
<1>a. ASSUME UNCHANGED <<truth, view, frames, reply, conn>>, phase' = phase \/ phase' = "status"
      PROVE  Chronology'
  BY <1>a DEF Chronology, NotAfter
<1>1. CASE PollList
  <2>1. PICK L \in SUBSET account :
           IF L = {} THEN Finish(L)
           ELSE phase' = "status" /\ UNCHANGED <<cloud, reply, data>>
    BY <1>1 DEF PollList
  <2>2. L \in SUBSET Hubs
    BY <1>0 DEF Accounts
  <2> QED
    BY <1>0, <1>a, <2>1, <2>2, FinishChronology DEF data, cloud
<1>2. ASSUME NEW m \in Mids, FetchStatus(m)
      PROVE  Chronology'
  <2>1. PICK r \in Served(m) \cup {Unknown} \cup {[s EXCEPT !.state = "unknown"] : s \in Served(m)} :
           reply' = [reply EXCEPT ![m] = r]
    BY <1>2 DEF FetchStatus
  <2>2. UNCHANGED <<truth, view, frames, conn>> /\ phase' = "status"
    BY <1>2 DEF FetchStatus, data, cloud
  <2>3. NotAfter(m, r)
    <3>1. view[m] \in [state : Flag, moment : Time] /\ NotAfter(m, view[m])
      BY <1>0 DEF TypeOK, Chronology
    <3>2. \A s \in Served(m) : s.moment \in {view[m].moment, None}
      BY <3>1 DEF Served
    <3>3. r.moment \in {view[m].moment, None}
      BY <2>1, <3>1, <3>2 DEF Unknown, Served
    <3> QED
      BY <3>1, <3>3 DEF NotAfter
  <2>4. reply \in [Mids -> Record]
    BY <1>0 DEF TypeOK
  <2> QED
    BY <2>1, <2>2, <2>3, <2>4 DEF Chronology, NotAfter
<1>3. CASE PollTail
  BY <1>0, <1>3, FinishChronology DEF PollTail, Accounts
<1>4. CASE PollFails
  BY <1>4 DEF PollFails, Chronology, NotAfter, Pending, NoRecord, cloud, data
<1>5. ASSUME NEW f \in frames, PushHub(f)
      PROVE  Chronology'
  <2>1. conn' = [conn EXCEPT ![f.mid] = [state |-> f.state, moment |-> f.moment]]
    BY <1>5 DEF PushHub
  <2>2. UNCHANGED <<truth, view, frames, reply, phase>>
    BY <1>5 DEF PushHub, poll, cloud
  <2>3. conn \in [Mids -> Record] /\ NotAfter(f.mid, f)
    BY <1>0 DEF TypeOK, Chronology
  <2>4. ASSUME NEW m \in Mids
        PROVE  NotAfter(m, conn'[m])
    <3>1. CASE m = f.mid
      BY <2>1, <2>3, <3>1 DEF NotAfter
    <3>2. CASE m # f.mid
      BY <2>1, <2>3, <3>2 DEF Chronology
    <3> QED
      BY <3>1, <3>2
  <2> QED
    BY <2>2, <2>4 DEF Chronology, NotAfter
<1>6. ASSUME NEW end \in SessionEnds, NewSession(end)
      PROVE  Chronology'
  BY <1>6 DEF NewSession, Chronology, NotAfter, Pending, NoRecord, cloud
<1>7. ASSUME NEW m \in Mids, Flip(m)
      PROVE  Chronology'
  <2>1. UNCHANGED <<view, reply, conn, phase>> /\ truth[m].moment < now
    BY <1>7 DEF Flip, poll, data
  <2>2. PICK s \in Flag :
           /\ truth' = [truth EXCEPT ![m] = [state |-> s, moment |-> now]]
           /\ frames' = frames \cup {[mid |-> m, state |-> s, moment |-> now]}
    BY <1>7 DEF Flip, Flag
  <2>3. /\ truth \in [Mids -> [state : Flag, moment : Time]]
        /\ now \in Int
        /\ \A n \in Mids : truth[n].moment \in Int
    BY <1>0 DEF TypeOK, Time
  <2>4. \A n \in Mids : truth[n].moment <= truth'[n].moment
    BY <2>1, <2>2, <2>3
  <2>5. ASSUME NEW n \in Mids, NEW r, r.moment \in Moment, NotAfter(n, r)
        PROVE  r.moment # None => r.moment <= truth'[n].moment
    <3>1. truth'[n].moment \in Int
      BY <2>2, <2>3
    <3>2. r.moment # None => r.moment \in Int
      BY <2>5 DEF Moment, Time
    <3> QED
      BY <2>3, <2>4, <2>5, <3>1, <3>2 DEF NotAfter
  <2>6. \A n \in Mids : /\ view[n].moment \in Moment
                        /\ reply[n].moment \in Moment
                        /\ conn[n].moment \in Moment
    BY <1>0 DEF TypeOK, Record, Moment
  <2>7. \A f \in frames : f.mid \in Mids /\ f.moment \in Moment
    BY <1>0 DEF TypeOK, Moment
  <2>8. \A f \in frames' : NotAfter(f.mid, f)'
    <3>1. ASSUME NEW f \in frames
          PROVE  f.moment # None => f.moment <= truth'[f.mid].moment
      <4>1. NotAfter(f.mid, f) /\ f.mid \in Mids /\ f.moment \in Moment
        BY <2>7 DEF Chronology
      <4> QED
        BY <2>5, <4>1
    <3>2. truth'[m].moment = now
      BY <2>2, <2>3
    <3>3. ASSUME NEW f \in frames' \ frames
          PROVE  f.mid = m /\ f.moment = now
      BY <2>2
    <3> QED
      BY <2>3, <3>1, <3>2, <3>3 DEF NotAfter
  <2> QED
    BY <2>1, <2>5, <2>6, <2>8 DEF Chronology, NotAfter
<1>8. ASSUME NEW m \in Mids, ViewCatchesUp(m)
      PROVE  Chronology'
  <2>1. /\ view \in [Mids -> [state : Flag, moment : Time]]
        /\ \A n \in Mids : truth[n].moment \in Int
    BY <1>0 DEF TypeOK, Time
  <2> QED
    BY <1>8, <2>1 DEF ViewCatchesUp, Chronology, NotAfter, poll, data
<1>9. ASSUME NEW f \in frames, LoseFrame(f)
      PROVE  Chronology'
  BY <1>9 DEF LoseFrame, Chronology, NotAfter, poll, data
<1>10. CASE Tick \/ AccountChanges \/ Stabilise \/ UNCHANGED vars
  BY <1>a, <1>10 DEF Tick, AccountChanges, Stabilise, vars, cloud, poll, data
<1> QED
  BY <1>1, <1>2, <1>3, <1>4, <1>5, <1>6, <1>7, <1>8, <1>9, <1>10 DEF Next, Poll

\* The two invariants the steps below rest on.
LEMMA ChronologyHolds == Spec => [](Believed /\ Chronology)
<1>1. Init => Chronology
  BY DEF Init, Chronology, NotAfter, Pending, NoRecord
<1> QED
  BY <1>1, ChronologyStep, BelievedHolds, PTL DEF Spec

-----------------------------------------------------------------------------
(* A brief drop raises no card.  The property follows from what the cloud  *)
(* has recorded: whatever says "disconnected" is one of its drops, and a   *)
(* window never reaches back over a reconnect that has been shown.         *)

\* What a record of m may say: a disconnect is a drop the cloud has recorded, and
\* a dated connect is the moment of none.
Truthful(m, r) ==
    /\ r.state = "disconnected" => IF r.moment = None THEN drops[m] # {} ELSE r.moment \in drops[m]
    /\ r.state = "connected" /\ r.moment # None => r.moment \notin drops[m]

RecordsAreTrue ==
    /\ \A m \in Mids :
          /\ truth[m].moment <= now
          /\ \A d \in drops[m] : d <= truth[m].moment
          /\ Truthful(m, truth[m])
          /\ Truthful(m, view[m])
          /\ Truthful(m, reply[m])
          /\ Truthful(m, conn[m])
    /\ \A f \in frames : Truthful(f.mid, f)

\* A window of h that starts at t goes back to a drop, and over no reconnect known.
Explained(h, t) == \E d \in drops[MidOf[h]] : d <= t /\ (backAt[h] # None => d > backAt[h])

WindowsAreExplained ==
    \A h \in Hubs :
        /\ since[h] # None => Explained(h, since[h])
        /\ backAt[h] # None =>
              /\ conn[MidOf[h]].moment # None
              /\ backAt[h] <= conn[MidOf[h]].moment
              /\ backAt[h] \notin drops[MidOf[h]]

\* The tail of a poll shows what it held or was answered.
LEMMA FinishRecords ==
  ASSUME RecordsAreTrue, NEW L, Finish(L)
  PROVE  RecordsAreTrue'
<1>1. UNCHANGED <<now, truth, view, frames, drops>>
  BY DEF Finish, cloud
<1>2. ASSUME NEW m \in Mids
      PROVE  reply'[m] = NoRecord /\ conn'[m] \in {conn[m], reply[m], NoRecord}
  BY DEF Finish, Shown, Polled, Guarded, Pending
<1> QED
  BY <1>1, <1>2 DEF RecordsAreTrue, Truthful, NoRecord

\* A flip is later than every record, so what is recorded stays true of the old ones.
LEMMA FlipRecords ==
  ASSUME Believed, Chronology, RecordsAreTrue, NEW m \in Mids, Flip(m)
  PROVE  RecordsAreTrue'
<1>1. /\ UNCHANGED <<now, view, reply, conn>> /\ truth[m].moment < now
      /\ now \in Int /\ now # None
      /\ \A n \in Mids : truth[n].moment \in Int /\ truth[n].moment <= now
  BY ConnectivityAssumption DEF Flip, poll, data, Believed, TypeOK, Time, RecordsAreTrue
<1>2. PICK s \in Flag :
         /\ truth' = [truth EXCEPT ![m] = [state |-> s, moment |-> now]]
         /\ frames' = frames \cup {[mid |-> m, state |-> s, moment |-> now]}
         /\ drops' = IF s = "disconnected" THEN [drops EXCEPT ![m] = @ \cup {now}] ELSE drops
  BY DEF Flip, Flag
<1>3. /\ truth \in [Mids -> [state : Flag, moment : Time]]
      /\ drops \in [Mids -> SUBSET Time]
      /\ \A n \in Mids : \A d \in drops[n] : d \in Int /\ d <= truth[n].moment
  BY DEF Believed, TypeOK, Time, RecordsAreTrue
<1>4. \A n \in Mids : /\ drops[n] \subseteq drops'[n]
                      /\ drops'[n] \subseteq drops[n] \cup {now}
                      /\ n # m => drops'[n] = drops[n] /\ truth'[n] = truth[n]
  BY <1>2, <1>3
<1>5. truth'[m] = [state |-> s, moment |-> now]
  BY <1>2, <1>3
<1>6. s = "disconnected" => now \in drops'[m]
  BY <1>2, <1>3
<1>7. s # "disconnected" => drops' = drops
  BY <1>2
<1>8. ASSUME NEW n \in Mids, NEW r, Truthful(n, r), NotAfter(n, r), r.moment \in Moment
      PROVE  Truthful(n, r)'
  <2>1. CASE n # m
    BY <1>4, <1>8, <2>1 DEF Truthful
  <2>2. CASE n = m
    <3>1. r.moment # None => r.moment \in Int /\ r.moment < now
      BY <1>1, <1>8, <2>2 DEF NotAfter, Moment, Time
    <3>2. r.moment # None => (r.moment \in drops'[n] <=> r.moment \in drops[n])
      BY <1>1, <1>4, <3>1
    <3>3. drops[n] # {} => drops'[n] # {}
      BY <1>4
    <3> QED
      BY <1>8, <3>2, <3>3 DEF Truthful
  <2> QED
    BY <2>1, <2>2
<1>9. ASSUME NEW n \in Mids
      PROVE  /\ Truthful(n, view[n])'
             /\ Truthful(n, reply[n])'
             /\ Truthful(n, conn[n])'
  <2>1. view[n].moment \in Moment /\ reply[n].moment \in Moment /\ conn[n].moment \in Moment
    BY DEF Believed, TypeOK, Record, Moment
  <2> QED
    BY <1>1, <1>8, <2>1 DEF RecordsAreTrue, Chronology
<1>10. now \notin drops[m]
  BY <1>1, <1>3
<1>11. ASSUME NEW n \in Mids
       PROVE  /\ Truthful(n, truth[n])'
              /\ truth'[n].moment <= now
              /\ \A d \in drops'[n] : d <= truth'[n].moment
  <2>1. CASE n # m
    BY <1>1, <1>3, <1>4, <2>1 DEF RecordsAreTrue, Truthful
  <2>2. CASE n = m
    <3>1. Truthful(n, truth[n])'
      BY <1>1, <1>5, <1>6, <1>7, <1>10, <2>2 DEF Truthful, Flag
    <3>2. \A d \in drops'[n] : d <= now
      BY <1>1, <1>3, <1>4, <2>2
    <3> QED
      BY <1>1, <1>5, <2>2, <3>1, <3>2
  <2> QED
    BY <2>1, <2>2
<1>12. ASSUME NEW f \in frames'
       PROVE  Truthful(f.mid, f)'
  <2>1. CASE f \in frames
    <3>1. f.mid \in Mids /\ f.moment \in Moment
      BY <2>1 DEF Believed, TypeOK, Moment
    <3> QED
      BY <1>8, <2>1, <3>1 DEF RecordsAreTrue, Chronology
  <2>2. CASE f \notin frames
    <3>1. f.mid = m /\ f.state = s /\ f.moment = now
      BY <1>2, <2>2
    <3> QED
      BY <1>1, <1>6, <1>7, <1>10, <3>1 DEF Truthful, Flag
  <2> QED
    BY <2>1, <2>2
<1> QED
  BY <1>1, <1>9, <1>11, <1>12 DEF RecordsAreTrue

\* No step of the coordinator or of the cloud invents a drop.
LEMMA RecordsStep ==
  Believed /\ Chronology /\ RecordsAreTrue /\ [Next]_vars => RecordsAreTrue'
<1> SUFFICES ASSUME Believed, Chronology, RecordsAreTrue, [Next]_vars
             PROVE  RecordsAreTrue'
  OBVIOUS
<1>0. TypeOK /\ account \in Accounts /\ listed \in Accounts
  BY DEF Believed, TypeOK
<1>a. ASSUME UNCHANGED <<now, cloud, reply, conn>>
      PROVE  RecordsAreTrue'
  BY <1>a DEF RecordsAreTrue, Truthful, cloud
<1>1. CASE PollList
  <2>1. PICK L \in SUBSET account :
           IF L = {} THEN Finish(L) ELSE UNCHANGED <<now, cloud, reply, data>>
    BY <1>1 DEF PollList
  <2> QED
    BY <1>a, <2>1, FinishRecords DEF data
<1>2. ASSUME NEW m \in Mids, FetchStatus(m)
      PROVE  RecordsAreTrue'
  <2>1. PICK r \in Served(m) \cup {Unknown} \cup {[s EXCEPT !.state = "unknown"] : s \in Served(m)} :
           reply' = [reply EXCEPT ![m] = r]
    BY <1>2 DEF FetchStatus
  <2>2. UNCHANGED <<now, cloud, conn>>
    BY <1>2 DEF FetchStatus, data
  <2>3. Truthful(m, r)
    <3>1. view[m] \in [state : Flag, moment : Time] /\ Truthful(m, view[m])
      BY <1>0 DEF TypeOK, RecordsAreTrue
    <3>2. view[m].moment # None
      BY <3>1, ConnectivityAssumption DEF Time
    <3>3. CASE r \in Served(m)
      <4>1. r = view[m] \/ (r.state = view[m].state /\ r.moment = None)
        BY <3>1, <3>3 DEF Served
      <4> QED
        BY <3>1, <3>2, <4>1 DEF Truthful
    <3>4. CASE r \notin Served(m)
      <4>1. r.state = "unknown"
        BY <2>1, <3>1, <3>4 DEF Unknown, Served
      <4> QED
        BY <4>1 DEF Truthful
    <3> QED
      BY <3>3, <3>4
  <2>4. reply \in [Mids -> Record]
    BY <1>0 DEF TypeOK
  <2>5. \A n \in Mids : Truthful(n, reply'[n])
    BY <2>1, <2>3, <2>4 DEF RecordsAreTrue
  <2> QED
    BY <2>2, <2>5 DEF RecordsAreTrue, Truthful, cloud
<1>3. CASE PollTail
  BY <1>3, FinishRecords DEF PollTail
<1>4. CASE PollFails
  BY <1>4 DEF PollFails, RecordsAreTrue, Truthful, Pending, NoRecord, cloud, data
<1>5. ASSUME NEW f \in frames, PushHub(f)
      PROVE  RecordsAreTrue'
  <2>1. conn' = [conn EXCEPT ![f.mid] = [state |-> f.state, moment |-> f.moment]]
    BY <1>5 DEF PushHub
  <2>2. UNCHANGED <<now, cloud, reply>>
    BY <1>5 DEF PushHub, poll
  <2>3. conn \in [Mids -> Record] /\ Truthful(f.mid, f)
    BY <1>0 DEF TypeOK, RecordsAreTrue
  <2>4. ASSUME NEW m \in Mids
        PROVE  Truthful(m, conn'[m])
    <3>1. CASE m = f.mid
      BY <2>1, <2>3, <3>1 DEF Truthful
    <3>2. CASE m # f.mid
      BY <2>1, <2>3, <3>2 DEF RecordsAreTrue
    <3> QED
      BY <3>1, <3>2
  <2> QED
    BY <2>2, <2>4 DEF RecordsAreTrue, Truthful, cloud
<1>6. ASSUME NEW end \in SessionEnds, NewSession(end)
      PROVE  RecordsAreTrue'
  BY <1>6 DEF NewSession, RecordsAreTrue, Truthful, Pending, NoRecord, cloud
<1>7. CASE Tick
  <2>1. now' = now + 1 /\ UNCHANGED <<truth, view, frames, drops, reply, conn>>
    BY <1>7 DEF Tick, cloud, poll, data
  <2>2. now \in Int /\ \A m \in Mids : truth[m].moment \in Int
    BY <1>0 DEF TypeOK, Time
  <2>3. \A m \in Mids : truth[m].moment <= now'
    BY <2>1, <2>2 DEF RecordsAreTrue
  <2> QED
    BY <2>1, <2>3 DEF RecordsAreTrue, Truthful
<1>8. ASSUME NEW m \in Mids, Flip(m)
      PROVE  RecordsAreTrue'
  BY <1>8, FlipRecords
<1>9. ASSUME NEW m \in Mids, ViewCatchesUp(m)
      PROVE  RecordsAreTrue'
  <2>1. view \in [Mids -> [state : Flag, moment : Time]]
    BY <1>0 DEF TypeOK
  <2>2. UNCHANGED <<now, truth, frames, drops, reply, conn>> /\ view' = [view EXCEPT ![m] = truth[m]]
    BY <1>9 DEF ViewCatchesUp, poll, data
  <2>3. \A n \in Mids : view'[n] \in {view[n], truth[n]}
    BY <2>1, <2>2
  <2> QED
    BY <2>2, <2>3 DEF RecordsAreTrue, Truthful
<1>10. ASSUME NEW f \in frames, LoseFrame(f)
       PROVE  RecordsAreTrue'
  BY <1>10 DEF LoseFrame, RecordsAreTrue, Truthful, poll, data
<1>11. CASE AccountChanges \/ Stabilise
  BY <1>11 DEF AccountChanges, Stabilise, RecordsAreTrue, Truthful, poll, data
<1>12. CASE UNCHANGED vars
  BY <1>a, <1>12 DEF vars, poll, data
<1> QED
  BY <1>1, <1>2, <1>3, <1>4, <1>5, <1>6, <1>7, <1>8, <1>9, <1>10, <1>11, <1>12 DEF Next, Poll

\* Every window the reconcile opens goes back to a drop, and over no reconnect known
\* unless the record it is opened from has lost its date.
LEMMA StartIsExplained ==
  ASSUME Believed, RecordsAreTrue, WindowsAreExplained,
         NEW L \in Accounts, NEW h \in InState(L, "disconnected")
  PROVE  \E d \in drops[MidOf[h]] :
            /\ d <= Start(L, h)
            /\ backAt[h] # None /\ Shown(L)[MidOf[h]].moment # None => d > backAt[h]
<1> DEFINE m == MidOf[h]
           r == Shown(L)[m]
<1>1. h \in Hubs /\ m \in Mids /\ r.state = "disconnected" /\ L \in SUBSET Hubs
  BY ConnectivityAssumption DEF InState, Accounts
<1>2. r = conn[m] \/ r = reply[m]
  BY <1>1 DEF Shown, Polled, Guarded, NoRecord
<1>3. Truthful(m, r) /\ r \in Record
  BY <1>1, <1>2 DEF RecordsAreTrue, Believed, TypeOK
<1>4. /\ drops[m] \subseteq Int /\ now \in Int
      /\ \A d \in drops[m] : d <= now
      /\ backAt[h] # None => backAt[h] \in Int
      /\ since[h] # None => since[h] \in Int
      /\ r.moment # None => r.moment \in Int
  <2>1. \A x \in Moment : x # None => x \in Int
    BY DEF Moment, Time
  <2>2. truth[m].moment <= now /\ truth[m].moment \in Int /\ now \in Int
    BY <1>1 DEF RecordsAreTrue, Believed, TypeOK, Time
  <2>3. drops[m] \subseteq Int /\ \A d \in drops[m] : d <= truth[m].moment
    BY <1>1 DEF RecordsAreTrue, Believed, TypeOK, Time
  <2>4. backAt[h] \in Moment /\ since[h] \in Moment /\ r.moment \in Moment
    BY <1>1, <1>3 DEF Believed, TypeOK, Record
  <2> QED
    BY <2>1, <2>2, <2>3, <2>4
<1>5. since[h] # None => Explained(h, since[h])
  BY <1>1 DEF WindowsAreExplained
<1>6. r.moment # None => r.moment \in drops[m]
  BY <1>1, <1>3 DEF Truthful
<1>7. ASSUME r.moment # None, backAt[h] # None
      PROVE  r.moment > backAt[h]
  <2>1. /\ conn[m].moment # None /\ backAt[h] <= conn[m].moment
        /\ backAt[h] \notin drops[m]
    BY <1>1, <1>7 DEF WindowsAreExplained
  <2>2. r.moment >= conn[m].moment
    BY <1>1, <1>7, <2>1, ShownIsNoOlder
  <2>3. conn[m].moment \in Int
    BY <1>1, <2>1, MomentIsInt DEF Believed, TypeOK
  <2> QED
    BY <1>4, <1>6, <1>7, <2>1, <2>2, <2>3
<1>8. CASE r.moment = None /\ since[h] = None
  <2>1. Start(L, h) = now /\ drops[m] # {}
    BY <1>1, <1>3, <1>8 DEF Start, WindowStart, Truthful
  <2> QED
    BY <1>4, <1>8, <2>1
<1>9. CASE r.moment = None /\ since[h] # None
  <2>1. Start(L, h) = since[h]
    BY <1>9 DEF Start, WindowStart
  <2> QED
    BY <1>5, <1>9, <2>1 DEF Explained
<1>10. CASE r.moment # None /\ since[h] = None
  <2>1. Start(L, h) = r.moment
    BY <1>10 DEF Start, WindowStart
  <2> QED
    BY <1>4, <1>6, <1>7, <1>10, <2>1
<1>11. CASE r.moment # None /\ since[h] # None
  <2>1. Start(L, h) = r.moment \/ Start(L, h) = since[h]
    BY <1>11 DEF Start, WindowStart, Earlier
  <2>2. CASE Start(L, h) = r.moment
    BY <1>4, <1>6, <1>7, <1>11, <2>2
  <2>3. CASE Start(L, h) = since[h]
    BY <1>5, <1>11, <2>3 DEF Explained
  <2> QED
    BY <2>1, <2>2, <2>3
<1> QED
  BY <1>8, <1>9, <1>10, <1>11

\* The tail of a poll leaves every window explained.
LEMMA FinishWindows ==
  ASSUME Believed, RecordsAreTrue, WindowsAreExplained, NEW L \in Accounts, Finish(L)
  PROVE  WindowsAreExplained'
<1>1. /\ L \in SUBSET Hubs /\ conn' = Shown(L) /\ dataHubs' = L /\ drops' = drops
      /\ NoteReconnects
  BY DEF Finish, cloud, Accounts
<1> SUFFICES ASSUME NEW h \in Hubs
             PROVE  /\ since'[h] # None => Explained(h, since[h])'
                    /\ backAt'[h] # None =>
                          /\ conn'[MidOf[h]].moment # None
                          /\ backAt'[h] <= conn'[MidOf[h]].moment
                          /\ backAt'[h] \notin drops'[MidOf[h]]
  BY DEF WindowsAreExplained
<1> DEFINE m == MidOf[h]
           r == Shown(L)[m]
<1>2. m \in Mids /\ r \in Record /\ Truthful(m, r)
  <2>1. m \in Mids
    BY ConnectivityAssumption
  <2>2. r \in {conn[m], reply[m], NoRecord}
    BY <2>1 DEF Shown, Polled, Guarded
  <2>3. Truthful(m, NoRecord)
    BY DEF Truthful, NoRecord
  <2> QED
    BY <1>1, <2>1, <2>2, <2>3, ShownType DEF RecordsAreTrue, Believed
<1>3. backAt'[h] = IF r.moment = None THEN None
                   ELSE IF r.state = "connected" /\ h \in L THEN r.moment
                   ELSE backAt[h]
  BY <1>1 DEF NoteReconnects
<1>4. ASSUME since'[h] # None
      PROVE  Explained(h, since[h])'
  <2>1. \/ since'[h] = since[h] /\ h \notin L
        \/ h \in InState(L, "disconnected") /\ since'[h] = Start(L, h)
    <3>1. Gone(L) \cap L = {}
      BY <1>1, ShownType DEF Believed
    <3> QED
      BY <1>4, <3>1 DEF Finish, Reconcile, Windows
  <2>2. CASE since'[h] = since[h] /\ h \notin L
    <3>1. backAt'[h] = None \/ backAt'[h] = backAt[h]
      BY <1>3, <2>2
    <3>2. Explained(h, since[h])
      BY <1>4, <2>2 DEF WindowsAreExplained
    <3> QED
      BY <1>1, <2>2, <3>1, <3>2 DEF Explained
  <2>3. CASE h \in InState(L, "disconnected") /\ since'[h] = Start(L, h)
    <3>1. backAt'[h] = IF r.moment = None THEN None ELSE backAt[h]
      BY <1>3, <2>3 DEF InState
    <3>2. \E d \in drops[m] :
             /\ d <= Start(L, h)
             /\ backAt[h] # None /\ r.moment # None => d > backAt[h]
      BY <2>3, StartIsExplained
    <3> QED
      BY <1>1, <2>3, <3>1, <3>2 DEF Explained
  <2> QED
    BY <2>1, <2>2, <2>3
<1>5. ASSUME backAt'[h] # None
      PROVE  /\ r.moment # None
             /\ backAt'[h] <= r.moment
             /\ backAt'[h] \notin drops[m]
  <2>1. r.moment # None /\ r.moment \in Int
    BY <1>2, <1>3, <1>5, MomentIsInt
  <2>2. CASE r.state = "connected" /\ h \in L
    BY <1>2, <1>3, <2>1, <2>2 DEF Truthful
  <2>3. CASE ~(r.state = "connected" /\ h \in L)
    <3>1. backAt'[h] = backAt[h]
      BY <1>3, <2>1, <2>3
    <3>2. /\ conn[m].moment # None /\ backAt[h] <= conn[m].moment
          /\ backAt[h] \notin drops[m]
      BY <1>5, <3>1 DEF WindowsAreExplained
    <3>3. r.moment >= conn[m].moment
      BY <1>2, <2>1, <3>2, ShownIsNoOlder
    <3>4. conn[m].moment \in Int /\ backAt[h] \in Int
      <4>1. backAt[h] \in Moment /\ conn[m] \in Record
        BY <1>2 DEF Believed, TypeOK
      <4> QED
        BY <1>5, <3>1, <3>2, <4>1, MomentIsInt DEF Moment, Time
    <3> QED
      BY <2>1, <3>1, <3>2, <3>3, <3>4
  <2> QED
    BY <2>2, <2>3
<1> QED
  BY <1>1, <1>4, <1>5

\* A pushed edge is newer than the reconnect known, and a connected one leaves its
\* hub without a window.
LEMMA PushWindows ==
  ASSUME Believed, RecordsAreTrue, WindowsAreExplained, WindowOnlyWhileDown,
         NEW f \in frames, PushHub(f)
  PROVE  WindowsAreExplained'
<1> DEFINE e == [state |-> f.state, moment |-> f.moment]
<1>1. PICK g \in dataHubs \cap RealHubs :
         /\ MidOf[g] = f.mid
         /\ conn' = [conn EXCEPT ![f.mid] = e]
         /\ EdgeDecides(f, g)
  BY DEF PushHub
<1>2. /\ dataHubs' = dataHubs /\ drops' = drops /\ NoteReconnects
      /\ ~Older(f, conn[f.mid])
  BY DEF PushHub, cloud
<1>3. /\ f \in [mid : Mids, state : Flag, moment : Time] /\ Truthful(f.mid, f)
      /\ conn \in [Mids -> Record] /\ since \in [Hubs -> Moment]
      /\ dataHubs \in SUBSET Hubs
      /\ \A h \in dataHubs : MidOf[h] = f.mid => h = g
  BY <1>1 DEF Believed, TypeOK, RecordsAreTrue, Accounts, OneHome
<1>4. f.moment # None /\ f.moment \in Int
  BY <1>3, ConnectivityAssumption DEF Time
<1>5. since' = IF f.state = "connected" THEN [since EXCEPT ![g] = None] ELSE since
  BY <1>1 DEF EdgeDecides
<1> SUFFICES ASSUME NEW h \in Hubs
             PROVE  /\ since'[h] # None => Explained(h, since[h])'
                    /\ backAt'[h] # None =>
                          /\ conn'[MidOf[h]].moment # None
                          /\ backAt'[h] <= conn'[MidOf[h]].moment
                          /\ backAt'[h] \notin drops'[MidOf[h]]
  BY DEF WindowsAreExplained
<1> DEFINE m == MidOf[h]
<1>6. m \in Mids
  BY ConnectivityAssumption
<1>7. since'[h] # None => since'[h] = since[h] /\ Explained(h, since[h])
  BY <1>3, <1>5 DEF WindowsAreExplained
<1>8. backAt[h] # None =>
         /\ backAt[h] \in Int
         /\ conn[m].moment # None /\ conn[m].moment \in Int
         /\ backAt[h] <= conn[m].moment
         /\ backAt[h] \notin drops[m]
  <2>1. backAt[h] \in Moment /\ conn[m] \in Record
    BY <1>3, <1>6 DEF Believed, TypeOK
  <2> QED
    BY <2>1, MomentIsInt DEF WindowsAreExplained, Moment, Time
<1>9. CASE m = f.mid
  <2>1. conn'[m] = e
    BY <1>1, <1>3, <1>9
  <2>2. backAt'[h] = IF f.state = "connected" /\ h \in dataHubs THEN f.moment ELSE backAt[h]
    BY <1>2, <1>4, <2>1 DEF NoteReconnects
  <2>3. since'[h] # None => backAt'[h] = backAt[h]
    BY <1>3, <1>5, <1>9, <2>2
  <2>4. backAt[h] # None => backAt[h] <= f.moment
    BY <1>2, <1>4, <1>8, <1>9 DEF Older
  <2>5. f.state = "connected" => f.moment \notin drops[m]
    BY <1>3, <1>4, <1>9 DEF Truthful
  <2> QED
    BY <1>2, <1>4, <1>7, <1>8, <2>1, <2>2, <2>3, <2>4, <2>5 DEF Explained
<1>10. CASE m # f.mid
  <2>1. conn'[m] = conn[m]
    BY <1>1, <1>3, <1>6, <1>10
  <2>2. backAt'[h] = IF conn[m].moment = None THEN None
                     ELSE IF conn[m].state = "connected" /\ h \in dataHubs THEN conn[m].moment
                     ELSE backAt[h]
    BY <1>2, <2>1 DEF NoteReconnects
  <2>3. since'[h] # None => backAt'[h] = None \/ backAt'[h] = backAt[h]
    BY <1>7, <2>2 DEF WindowOnlyWhileDown
  <2>4. conn[m].moment # None => conn[m].moment \in Int
    BY <1>3, <1>6, MomentIsInt
  <2>5. conn[m].state = "connected" /\ conn[m].moment # None => conn[m].moment \notin drops[m]
    BY <1>6 DEF RecordsAreTrue, Truthful
  <2> QED
    BY <1>2, <1>7, <1>8, <2>1, <2>2, <2>3, <2>4, <2>5 DEF Explained
<1> QED
  BY <1>9, <1>10

\* No step leaves a window that reaches back over a reconnect known.
LEMMA WindowsStep ==
  ASSUME Believed, Chronology, RecordsAreTrue, WindowsAreExplained, WindowOnlyWhileDown,
         [Next]_vars
  PROVE  WindowsAreExplained'
<1>0. account \in Accounts /\ listed \in Accounts
  BY DEF Believed, TypeOK
<1>a. ASSUME UNCHANGED <<drops, data, since>>
      PROVE  WindowsAreExplained'
  BY <1>a DEF WindowsAreExplained, Explained, data
<1>1. CASE PollList
  <2>1. PICK L \in SUBSET account :
           IF L = {} THEN Finish(L) ELSE UNCHANGED <<drops, data, since>>
    BY <1>1 DEF PollList, cloud
  <2>2. L \in Accounts
    BY <1>0, SublistIsAccount
  <2> QED
    BY <1>a, <2>1, <2>2, FinishWindows
<1>2. CASE PollTail
  BY <1>0, <1>2, FinishWindows DEF PollTail
<1>3. ASSUME NEW f \in frames, PushHub(f)
      PROVE  WindowsAreExplained'
  BY <1>3, PushWindows
<1>4. ASSUME NEW end \in SessionEnds, NewSession(end)
      PROVE  WindowsAreExplained'
  <2>1. \A h \in Hubs : since'[h] = None /\ backAt'[h] = None
    BY <1>4, ConnectivityAssumption DEF NewSession, NoteReconnects, NoRecord
  <2> QED
    BY <2>1 DEF WindowsAreExplained
<1>5. ASSUME NEW m \in Mids, Flip(m)
      PROVE  WindowsAreExplained'
  <2>1. /\ UNCHANGED <<conn, backAt, since>> /\ truth[m].moment < now
        /\ drops' = drops \/ drops' = [drops EXCEPT ![m] = @ \cup {now}]
    BY <1>5 DEF Flip, data
  <2>2. drops \in [Mids -> SUBSET Time]
    BY DEF Believed, TypeOK
  <2>3. \A n \in Mids : /\ drops[n] \subseteq drops'[n]
                        /\ drops'[n] \subseteq drops[n] \cup {now}
                        /\ n # m => drops'[n] = drops[n]
    BY <2>1, <2>2
  <2> SUFFICES ASSUME NEW h \in Hubs
               PROVE  /\ since[h] # None => Explained(h, since[h])'
                      /\ backAt[h] # None => /\ conn[MidOf[h]].moment # None
                                             /\ backAt[h] <= conn[MidOf[h]].moment
                                             /\ backAt[h] \notin drops'[MidOf[h]]
    BY <2>1 DEF WindowsAreExplained
  <2>4. MidOf[h] \in Mids
    BY ConnectivityAssumption
  <2>5. since[h] # None => Explained(h, since[h])'
    BY <2>1, <2>3, <2>4 DEF WindowsAreExplained, Explained
  <2>6. ASSUME backAt[h] # None
        PROVE  backAt[h] \notin drops'[MidOf[h]]
    <3>1. /\ conn[MidOf[h]].moment # None /\ backAt[h] <= conn[MidOf[h]].moment
          /\ backAt[h] \notin drops[MidOf[h]]
      BY <2>6 DEF WindowsAreExplained
    <3>2. CASE MidOf[h] # m
      BY <2>3, <2>4, <3>1, <3>2
    <3>3. CASE MidOf[h] = m
      <4>1. conn[m].moment <= truth[m].moment
        BY <3>1, <3>3 DEF Chronology, NotAfter
      <4>2. conn[m].moment \in Int /\ truth[m].moment \in Int /\ now \in Int /\ backAt[h] \in Int
        <5>1. backAt[h] \in Moment /\ conn[m] \in Record
          BY DEF Believed, TypeOK
        <5>2. truth[m].moment \in Int /\ now \in Int
          BY DEF Believed, TypeOK, Time
        <5> QED
          BY <2>6, <3>1, <3>3, <5>1, <5>2, MomentIsInt DEF Moment, Time
      <4> QED
        BY <2>1, <2>3, <2>4, <3>1, <3>3, <4>1, <4>2
    <3> QED
      BY <3>2, <3>3
  <2> QED
    BY <2>5, <2>6 DEF WindowsAreExplained
<1>6. CASE UNCHANGED <<drops, data, since>>
  BY <1>a, <1>6
<1> QED
  BY <1>1, <1>2, <1>3, <1>4, <1>5, <1>6
     DEF Next, Poll, FetchStatus, PollFails, Tick, ViewCatchesUp, LoseFrame, AccountChanges,
         Stabilise, vars, cloud

\* A step that adds a card is a poll whose list has it due.
LEMMA RaiseIsDue ==
  ASSUME Believed, [Next]_vars, NEW h \in active' \ active
  PROVE  \E L \in Accounts :
            /\ L = {} \/ L = listed
            /\ h \in Due(L)
            /\ Finish(L)
<1>0. account \in Accounts /\ listed \in Accounts
  BY DEF Believed, TypeOK
<1>1. ASSUME NEW L \in Accounts, Finish(L)
      PROVE  h \in Due(L)
  BY <1>1 DEF Finish, Reconcile, SyncIssues, issues
<1>2. CASE PollList
  <2>1. PICK L \in SUBSET account : IF L = {} THEN Finish(L) ELSE UNCHANGED active
    BY <1>2 DEF PollList, issues
  <2>2. L = {} /\ L \in Accounts
    BY <1>0, <2>1, SublistIsAccount
  <2> QED
    BY <1>1, <1>2, <2>1, <2>2
<1>3. CASE PollTail
  BY <1>0, <1>1, <1>3 DEF PollTail
<1>4. UNCHANGED active \/ PollList \/ PollTail
  <2>1. ASSUME NEW f \in frames, PushHub(f) PROVE active' \subseteq active
    BY <2>1 DEF PushHub, EdgeDecides, SyncIssues, issues
  <2>2. ASSUME NEW end \in SessionEnds, NewSession(end) PROVE active' = {}
    BY <2>2 DEF NewSession
  <2> QED
    BY <2>1, <2>2 DEF Next, Poll, FetchStatus, PollFails, Tick, Flip, ViewCatchesUp, LoseFrame,
                      AccountChanges, Stabilise, vars, issues
<1> QED
  BY <1>2, <1>3, <1>4

\* No interleaving of replies, frames, gaps and sessions raises a card over less than
\* a real drop of the threshold's age, nor over one that a reconnect has ended which
\* the record still dates (_sync_hub_connectivity_issues).
THEOREM BriefDropsRaiseNothing == Spec => NoCardForABriefDrop
<1> DEFINE NotBrief ==
      \A h \in active' \ active :
          \E d \in drops[MidOf[h]] :
              /\ now - d >= Threshold
              /\ backAt'[h] # None => d > backAt'[h]
           Inv == Chronology /\ RecordsAreTrue /\ WindowsAreExplained
<1>1. Init => Inv
  <2> SUFFICES ASSUME Init PROVE Inv
    OBVIOUS
  <2>1. \A m \in Mids : 0 \notin drops[m]
    BY DEF Init
  <2> QED
    BY <2>1 DEF Init, Chronology, NotAfter, RecordsAreTrue, Truthful, WindowsAreExplained,
                Pending, NoRecord
<1>2. Believed /\ WindowOnlyWhileDown /\ Inv /\ [Next]_vars => Inv'
  BY ChronologyStep, RecordsStep, WindowsStep
<1>3. Believed /\ WindowOnlyWhileDown /\ Inv /\ [Next]_vars => [NotBrief]_vars
  <2> SUFFICES ASSUME Believed, WindowOnlyWhileDown, Inv, [Next]_vars, NEW h \in active' \ active
               PROVE  \E d \in drops[MidOf[h]] :
                         /\ now - d >= Threshold
                         /\ backAt'[h] # None => d > backAt'[h]
    OBVIOUS
  <2>1. PICK L \in Accounts : h \in Due(L) /\ Finish(L)
    BY RaiseIsDue
  <2>2. h \in InState(L, "disconnected") /\ now - Start(L, h) >= Threshold
    BY <2>1 DEF Due
  <2>3. L \in SUBSET Hubs /\ h \in Hubs /\ MidOf[h] \in Mids
    BY <2>2, ConnectivityAssumption DEF InState, Accounts
  <2>4. PICK d \in drops[MidOf[h]] :
           /\ d <= Start(L, h)
           /\ backAt[h] # None /\ Shown(L)[MidOf[h]].moment # None => d > backAt[h]
    BY <2>2, StartIsExplained
  <2>5. d \in Int /\ Start(L, h) \in Int /\ now \in Int /\ Threshold \in Int
    BY <2>3, StartType, ConnectivityAssumption DEF Believed, TypeOK, Time
  <2>6. now - d >= Threshold
    BY <2>2, <2>4, <2>5
  <2>7. backAt'[h] = IF Shown(L)[MidOf[h]].moment = None THEN None ELSE backAt[h]
    BY <2>1, <2>2, <2>3 DEF Finish, NoteReconnects, InState
  <2> QED
    BY <2>4, <2>6, <2>7
<1> QED
  BY <1>1, <1>2, <1>3, BelievedHolds, WindowsBelongToOutages, PTL DEF Spec, NoCardForABriefDrop

\* What a raise rests on: the hub is listed, and the poll's own answer says
\* "disconnected", or is provably older than a pushed disconnect, or was passed
\* over for the disconnected record of a hub with the same mid in another home.
Grounds(h) ==
    /\ h \in listed
    /\ \/ reply[MidOf[h]].state = "disconnected"
       \/ /\ conn[MidOf[h]].state = "disconnected"
          /\ reply[MidOf[h]].moment # None
          /\ reply[MidOf[h]].moment < conn[MidOf[h]].moment
       \/ /\ conn[MidOf[h]].state = "disconnected"
          /\ \E g \in lastHubs \ listed : MidOf[g] = MidOf[h]

\* No step raises a card on less.
LEMMA RaiseHasGrounds ==
  ASSUME Believed, [Next]_vars, NEW h \in active' \ active
  PROVE  Grounds(h)
<1>1. PICK L \in Accounts : (L = {} \/ L = listed) /\ h \in Due(L)
  BY RaiseIsDue
<1>2. h \in L \cap RealHubs /\ Shown(L)[MidOf[h]].state = "disconnected"
  BY <1>1 DEF Due, InState
<1>3. L = listed /\ L \in SUBSET Hubs /\ MidOf[h] \in Mids
  BY <1>1, <1>2, ConnectivityAssumption DEF Accounts
<1>4. CASE MidOf[h] \in MidsOf(Gone(L)) /\ conn[MidOf[h]].state # "none"
  <2>1. PICK g \in Gone(L) : MidOf[g] = MidOf[h]
    BY <1>4 DEF MidsOf
  <2>2. g \in lastHubs \ listed
    BY <1>2, <1>3, <2>1 DEF Gone, Provisional
  <2>3. conn[MidOf[h]].state = "disconnected"
    BY <1>2, <1>3, <1>4 DEF Shown
  <2> QED
    BY <1>2, <1>3, <2>1, <2>2, <2>3 DEF Grounds
<1>5. CASE ~(MidOf[h] \in MidsOf(Gone(L)) /\ conn[MidOf[h]].state # "none")
  <2>1. Shown(L)[MidOf[h]] = Guarded(reply[MidOf[h]], conn[MidOf[h]])
    BY <1>2, <1>3, <1>5 DEF Shown, Polled, MidsOf
  <2> QED
    BY <1>2, <1>3, <2>1 DEF Grounds, Guarded
<1> QED
  BY <1>4, <1>5

\* Whatever the homes list, every card raised has its grounds: neither a gap in
\* the device list nor an unknown status raises one.
THEOREM RaisesHaveGrounds == Spec => [][\A h \in active' \ active : Grounds(h)]_vars
<1> DEFINE Grounded == \A h \in active' \ active : Grounds(h)
<1>1. Believed /\ [Next]_vars => [Grounded]_vars
  BY RaiseHasGrounds
<1> QED
  BY <1>1, BelievedHolds, PTL DEF Spec

\* Where no mid is ever listed under two homes the third ground is void.  The
\* premise is needed: _reconcile_repairs_surfaces holds the record of a hidden
\* hub by mid alone, over whatever the poll has just read for a listed one.
THEOREM RaisesRestOnEvidence ==
  ASSUME \A g, h \in Hubs : MidOf[g] = MidOf[h] => g = h
  PROVE  Spec => RaisedOnEvidence
<1> DEFINE Evident ==
      \A h \in active' \ active :
          /\ h \in listed
          /\ \/ reply[MidOf[h]].state = "disconnected"
             \/ /\ conn[MidOf[h]].state = "disconnected"
                /\ reply[MidOf[h]].moment # None
                /\ reply[MidOf[h]].moment < conn[MidOf[h]].moment
<1>1. Believed /\ [Next]_vars => [Evident]_vars
  <2>1. Believed => lastHubs \subseteq Hubs /\ listed \subseteq Hubs
    BY DEF Believed, TypeOK, Accounts
  <2> QED
    BY <2>1, RaiseHasGrounds DEF Grounds
<1> QED
  BY <1>1, BelievedHolds, PTL DEF Spec, RaisedOnEvidence

-----------------------------------------------------------------------------
(* Where a card may go.                                                    *)

\* The coordinator remembers every hub with a card, and its absence counters
\* tell how many lists in a row have omitted a hub it remembers.
Tally ==
    /\ active \subseteq lastHubs
    /\ \A h \in lastHubs : omitted[h] = absent[h]

\* The tail of a poll keeps a card only over a hub it lists or still holds.
LEMMA FinishTally ==
  ASSUME Believed, Tally, NEW L \in Accounts, Finish(L)
  PROVE  Tally'
<1>1. L \in SUBSET Hubs
  BY DEF Accounts
<1>2. CASE UNCHANGED <<since, track, issues>>
  BY <1>2 DEF Tally, track, issues
<1>3. CASE Reconcile(L)
  <2>1. active' \subseteq (active \ Cleared(L)) \cup Due(L)
    BY <1>3 DEF Reconcile, SyncIssues
  <2>2. active' \subseteq L \cup Gone(L)
    BY <1>1, <2>1, DueType DEF Cleared, Unreachable, Up, Due, InState
  <2>3. CASE L = {}
    BY <1>3, <2>2, <2>3 DEF Reconcile, Tally, Gone, track
  <2>4. CASE L # {}
    <3>1. /\ lastHubs' = L \cup Provisional(lastHubs, absent, L)
          /\ absent' = AbsentCounts(lastHubs, absent, L)
          /\ omitted' = [h \in Hubs |->
                IF h \in L THEN 0
                ELSE IF omitted[h] > AbsentDebounce THEN omitted[h]
                ELSE omitted[h] + 1]
      BY <1>3, <2>4 DEF Reconcile, Remembered
    <3>2. active' \subseteq lastHubs'
      BY <2>2, <2>4, <3>1 DEF Gone
    <3>3. ASSUME NEW h \in L PROVE omitted'[h] = absent'[h]
      BY <1>1, <3>1, <3>3 DEF AbsentCounts, Provisional
    <3>4. ASSUME NEW h \in Provisional(lastHubs, absent, L) PROVE omitted'[h] = absent'[h]
      <4>1. /\ h \in lastHubs /\ h \notin L /\ h \in Hubs
            /\ absent[h] + 1 <= AbsentDebounce /\ absent[h] \in Int
            /\ omitted[h] = absent[h]
        BY <3>4 DEF Provisional, Tally, Believed, TypeOK
      <4>2. absent'[h] = absent[h] + 1
        BY <3>1, <3>4, <4>1 DEF AbsentCounts
      <4>3. omitted'[h] = absent[h] + 1
        BY <3>1, <4>1, AbsentDebounceAssumption
      <4> QED
        BY <4>2, <4>3
    <3> QED
      BY <3>1, <3>2, <3>3, <3>4 DEF Tally
  <2> QED
    BY <2>3, <2>4
<1> QED
  BY <1>2, <1>3 DEF Finish

\* Between polls the memory only shrinks with the session it belongs to.
LEMMA TallyStep == Believed /\ Tally /\ [Next]_vars => Tally'
<1> SUFFICES ASSUME Believed, Tally, [Next]_vars
             PROVE  Tally'
  OBVIOUS
<1>0. account \in Accounts /\ listed \in Accounts
  BY DEF Believed, TypeOK
<1>1. ASSUME UNCHANGED track, active' \subseteq active
      PROVE  Tally'
  BY <1>1 DEF Tally, track
<1>2. CASE PollList
  <2>1. PICK L \in SUBSET account : IF L = {} THEN Finish(L) ELSE UNCHANGED <<track, issues>>
    BY <1>2 DEF PollList
  <2> QED
    BY <1>0, <1>1, <2>1, SublistIsAccount, FinishTally DEF issues
<1>3. CASE PollTail
  BY <1>0, <1>3, FinishTally DEF PollTail
<1>4. ASSUME NEW f \in frames, PushHub(f)
      PROVE  Tally'
  <2>1. active' \subseteq active
    BY <1>4 DEF PushHub, EdgeDecides, SyncIssues, issues
  <2> QED
    BY <1>1, <1>4, <2>1 DEF PushHub
<1>5. ASSUME NEW end \in SessionEnds, NewSession(end)
      PROVE  Tally'
  BY <1>5 DEF NewSession, Tally
<1>6. CASE UNCHANGED <<track, issues>>
  BY <1>1, <1>6 DEF issues
<1> QED
  BY <1>2, <1>3, <1>4, <1>5, <1>6
     DEF Next, Poll, FetchStatus, PollFails, Tick, Flip, ViewCatchesUp, LoseFrame,
         AccountChanges, Stabilise, vars

\* The tally holds in every behaviour.
LEMMA TallyHolds == Spec => []Tally
<1>1. Init => Tally
  BY DEF Init, Tally
<1> QED
  BY <1>1, TallyStep, BelievedHolds, PTL DEF Spec

\* What may take a card of this session away: its hub is shown connected or has
\* been released, or the session ends, or an empty list finds nothing tracked.
Lifted(h) ==
    \/ conn'[MidOf[h]].state = "connected"
    \/ omitted'[h] > AbsentDebounce
    \/ dataHubs' = {} /\ lastHubs' = {}
    \/ dataHubs' = {} /\ \A g \in Hubs : since[g] = None

\* A poll that drops a card shows the hub connected, has released it, or had
\* nothing to protect from an empty list.
LEMMA FinishClears ==
  ASSUME Believed, Tally, NEW L \in Accounts, Finish(L), NEW h \in active \ active'
  PROVE  Lifted(h)
<1>1. Reconcile(L) /\ conn' = Shown(L) /\ dataHubs' = L
  BY DEF Finish, issues
<1>2. h \in Cleared(L)
  BY <1>1 DEF Reconcile, SyncIssues
<1>3. CASE h \in Up(L)
  BY <1>1, <1>3 DEF Up, InState, Lifted
<1>4. CASE h \notin Up(L) /\ L # {}
  <2>1. h \notin Due(L) /\ h \notin Unreachable(L)
    BY <1>2, <1>4 DEF Cleared
  <2>2. h \in Hubs /\ h \in RealHubs /\ h \in lastHubs
    BY ConnectivityAssumption DEF Believed, TypeOK, Tally
  <2>3. h \notin L /\ h \notin Provisional(lastHubs, absent, L)
    BY <1>4, <2>1, <2>2 DEF Unreachable, Gone
  <2>4. ~(absent[h] + 1 <= AbsentDebounce) /\ omitted[h] = absent[h] /\ absent[h] \in Int
    BY <2>2, <2>3 DEF Provisional, Believed, TypeOK, Tally
  <2>5. omitted'[h] = IF omitted[h] > AbsentDebounce THEN omitted[h] ELSE omitted[h] + 1
    BY <1>1, <1>4, <2>2, <2>3 DEF Reconcile
  <2>6. omitted'[h] > AbsentDebounce
    BY <2>4, <2>5, AbsentDebounceAssumption
  <2> QED
    BY <2>6 DEF Lifted
<1>5. CASE L = {}
  <2>1. PICK silent \in SilentTracked : ~Tracking(silent)
    BY <1>5 DEF Finish, issues
  <2>2. \A g \in Hubs : since[g] = None
    BY <2>1 DEF Tracking
  <2> QED
    BY <1>1, <1>5, <2>2 DEF Lifted
<1> QED
  BY <1>3, <1>4, <1>5

\* No step takes a card away for less.
LEMMA ClearIsLifted ==
  ASSUME Believed, Tally, [Next]_vars, NEW h \in active \ active'
  PROVE  Lifted(h)
<1>0. account \in Accounts /\ listed \in Accounts
  BY DEF Believed, TypeOK
<1>1. CASE PollList
  <2>1. PICK L \in SUBSET account : IF L = {} THEN Finish(L) ELSE UNCHANGED issues
    BY <1>1 DEF PollList
  <2> QED
    BY <1>0, <2>1, SublistIsAccount, FinishClears DEF issues
<1>2. CASE PollTail
  BY <1>0, <1>2, FinishClears DEF PollTail
<1>3. ASSUME NEW f \in frames, PushHub(f)
      PROVE  Lifted(h)
  <2>1. PICK g \in dataHubs \cap RealHubs :
           /\ MidOf[g] = f.mid
           /\ conn' = [conn EXCEPT ![f.mid] = [state |-> f.state, moment |-> f.moment]]
           /\ EdgeDecides(f, g)
    BY <1>3 DEF PushHub
  <2>2. f.state = "connected" /\ h = g
    BY <2>1 DEF EdgeDecides, SyncIssues, issues
  <2>3. MidOf[g] \in Mids /\ conn \in [Mids -> Record]
    BY <2>1, ConnectivityAssumption DEF Believed, TypeOK
  <2> QED
    BY <2>1, <2>2, <2>3 DEF Lifted
<1>4. ASSUME NEW end \in SessionEnds, NewSession(end)
      PROVE  Lifted(h)
  BY <1>4 DEF NewSession, Lifted
<1>5. ~ UNCHANGED issues
  BY DEF issues
<1> QED
  BY <1>1, <1>2, <1>3, <1>4, <1>5
     DEF Next, Poll, FetchStatus, PollFails, Tick, Flip, ViewCatchesUp, LoseFrame,
         AccountChanges, Stabilise, vars

\* However the homes list and whatever else is tracked, a card of the session goes
\* only by a connected record, a release, the session's end, or an empty list that
\* finds nothing being debounced (_reconcile_repairs_surfaces, async_sync): a partial
\* list, a hidden hub, an unknown status or an empty list in mid-outage takes none.
THEOREM ClearsRestOnEvidence == Spec => ClearedOnEvidence
<1> DEFINE AllLifted == \A h \in active \ active' : Lifted(h)
<1>1. Believed /\ Tally /\ [Next]_vars => [AllLifted]_vars
  BY ClearIsLifted
<1> QED
  BY <1>1, TallyHolds, BelievedHolds, PTL DEF Spec, ClearedOnEvidence, Lifted

\* The cards a session believes in go with their hubs however sessions end: none
\* outlives the lists that release its hub (unreachable_ids of
\* _sync_hub_connectivity_issues is the provisional window and no more).
THEOREM BelievedCardsGoWithHubs == Spec => [](\A h \in active : omitted[h] <= AbsentDebounce)
<1>1. Believed /\ Tally => \A h \in active : omitted[h] <= AbsentDebounce
  BY AbsentDebounceAssumption DEF Believed, TypeOK, Tally
<1> QED
  BY <1>1, TallyHolds, BelievedHolds, PTL

\* The manager remembers every card whose deletion was not refused.
Remembering == cards \ stuck \subseteq active

\* Where sessions end by restarts alone, the card of a hub that has left goes as
\* soon as the coordinator releases the hub.  The premise is needed: a reload
\* forgets its cards and leaves them standing (run hub_departed).
THEOREM DepartedHubsLoseTheirCard ==
  ASSUME SessionEnds \subseteq {"restart"}
  PROVE  Spec => []DepartedHubHasNoCard
<1>1. Init => Remembering
  BY DEF Init, Remembering
<1>2. Remembering /\ [Next]_vars => Remembering'
  <2> SUFFICES ASSUME Remembering, [Next]_vars
               PROVE  Remembering'
    OBVIOUS
  <2>1. ASSUME NEW raise, NEW clear, SyncIssues(raise, clear)
        PROVE  Remembering'
    BY <2>1 DEF SyncIssues, Remembering
  <2>2. ASSUME UNCHANGED issues
        PROVE  Remembering'
    BY <2>2 DEF issues, Remembering
  <2>3. ASSUME NEW L, Finish(L)
        PROVE  Remembering'
    BY <2>1, <2>2, <2>3 DEF Finish, Reconcile
  <2>4. ASSUME NEW f \in frames, PushHub(f)
        PROVE  Remembering'
    BY <2>1, <2>2, <2>4 DEF PushHub, EdgeDecides
  <2>5. ASSUME NEW end \in SessionEnds, NewSession(end)
        PROVE  Remembering'
    BY <2>5 DEF NewSession, Remembering
  <2> QED
    BY <2>2, <2>3, <2>4, <2>5
       DEF Next, Poll, PollList, PollTail, FetchStatus, PollFails, Tick, Flip, ViewCatchesUp,
           LoseFrame, AccountChanges, Stabilise, vars
<1>3. Believed /\ Tally /\ Remembering => DepartedHubHasNoCard
  BY AbsentDebounceAssumption
     DEF Believed, TypeOK, Tally, Remembering, DepartedHubHasNoCard
<1> QED
  BY <1>1, <1>2, <1>3, TallyHolds, BelievedHolds, PTL DEF Spec

=============================================================================
