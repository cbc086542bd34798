------------------------- MODULE HubLiveness_proofs -------------------------
(***************************************************************************)
(* What HubConnectivity owes once the cloud answers in full: a card over a *)
(* hub that stays down, and none over a hub that stays up.                 *)
(***************************************************************************)
EXTENDS HubConnectivity_proofs, FiniteSetTheorems

-----------------------------------------------------------------------------
(* The steps that are left, as one listed hub sees them.                   *)

\* The cloud answers in full, and what it serves of the hub is up to date.
Calm(h) ==
    /\ stable
    /\ h \in account \cap RealHubs
    /\ view[MidOf[h]] = truth[MidOf[h]]

\* A poll that can only learn the truth about the hub.
Informed(h) ==
    /\ phase = "status"
    /\ h \in listed
    /\ reply[MidOf[h]] \in {Pending} \cup Served(MidOf[h])

\* The mid is of no other hub key: the hub has never changed its home.
Alone(h) == \A g \in Hubs : MidOf[g] = MidOf[h] => g = h

\* The account stays, and the edge stays unless the hub flips.
LEMMA StableStep ==
  ASSUME Believed, stable, [Next]_vars, NEW m \in Mids
  PROVE  /\ stable' /\ account' = account
         /\ truth'[m] = truth[m] \/ {truth[m].state, truth'[m].state} = Flag
         /\ truth'[m] = truth[m] /\ view[m] = truth[m] => view'[m] = truth'[m]
<1>1. /\ truth \in [Mids -> [state : Flag, moment : Time]]
      /\ view \in [Mids -> [state : Flag, moment : Time]]
  BY DEF Believed, TypeOK
<1>2. ASSUME NEW n \in Mids, Flip(n)
      PROVE  /\ UNCHANGED <<account, stable, view>>
             /\ truth'[m] = truth[m] \/ {truth[m].state, truth'[m].state} = Flag
  BY <1>1, <1>2 DEF Flip, Flag
<1>3. ASSUME NEW n \in Mids, ViewCatchesUp(n)
      PROVE  /\ UNCHANGED <<account, stable, truth>>
             /\ view'[m] \in {view[m], truth[m]}
  BY <1>1, <1>3 DEF ViewCatchesUp
<1>4. CASE Stabilise
  BY <1>4 DEF Stabilise
<1>5. \A L : Finish(L) => UNCHANGED cloud
  BY DEF Finish
<1>6. ASSUME UNCHANGED cloud
      PROVE  UNCHANGED <<account, stable, truth, view>>
  BY <1>6 DEF cloud
<1>7. CASE Poll \/ Tick \/ UNCHANGED vars
  BY <1>5, <1>6, <1>7 DEF Poll, PollList, FetchStatus, PollTail, Tick, vars
<1>8. CASE \E f \in frames : PushHub(f)
  BY <1>6, <1>8 DEF PushHub
<1>9. CASE \E f \in frames : LoseFrame(f)
  BY <1>9 DEF LoseFrame
<1> QED
  BY <1>2, <1>3, <1>4, <1>6, <1>7, <1>8, <1>9 DEF Next, PollFails, NewSession, AccountChanges

\* Between polls the next thing a poll does is ask about every hub afresh.
LEMMA IdleStep ==
  ASSUME Believed, Chronology, NEW h \in Hubs, Calm(h), phase = "idle", [Next]_vars
  PROVE  /\ phase' = "idle" \/ Informed(h)'
         /\ Poll => Informed(h)'
<1>1. MidOf[h] \in Mids /\ reply[MidOf[h]] = Pending
  BY ConnectivityAssumption DEF Chronology
<1>2. CASE Poll
  <2>1. PollList
    BY <1>2 DEF Poll, FetchStatus, PollTail
  <2>2. phase' = "status" /\ listed' = account /\ reply' = reply
    BY <2>1 DEF PollList, Calm
  <2> QED
    BY <1>1, <2>2 DEF Informed, Calm, Pending
<1>3. CASE ~Poll
  BY <1>3 DEF Next, PollFails, PushHub, NewSession, Tick, Flip, ViewCatchesUp, LoseFrame,
              AccountChanges, Stabilise, Calm, vars, poll
<1> QED
  BY <1>2, <1>3

\* A poll that can only learn the truth goes on so until its tail.
LEMMA InformedStep ==
  ASSUME Believed, NEW h \in Hubs, Calm(h), Calm(h)', Informed(h), [Next]_vars,
         truth'[MidOf[h]] = truth[MidOf[h]]
  PROVE  \/ Informed(h)'
         \/ Finish(listed) /\ reply[MidOf[h]] \in Served(MidOf[h])
<1> DEFINE m == MidOf[h]
<1>1. m \in Mids /\ h \in listed \cap RealHubs /\ reply \in [Mids -> Record]
  BY ConnectivityAssumption DEF Informed, Calm, Believed, TypeOK
<1>2. Served(m)' = Served(m)
  BY DEF Calm, Served
<1>3. CASE PollTail
  BY <1>1, <1>3 DEF PollTail, Informed, MidsOf
<1>4. ASSUME NEW n \in Mids, FetchStatus(n)
      PROVE  Informed(h)'
  <2>1. UNCHANGED <<phase, listed>> /\ \E r \in Served(n) : reply' = [reply EXCEPT ![n] = r]
    BY <1>4 DEF FetchStatus, Calm
  <2>2. reply'[m] \in {reply[m]} \cup Served(m)
    BY <1>1, <2>1
  <2> QED
    BY <1>1, <1>2, <2>1, <2>2 DEF Informed
<1>5. ASSUME UNCHANGED poll
      PROVE  Informed(h)'
  BY <1>2, <1>5 DEF poll, Informed
<1>6. ~PollList
  BY DEF PollList, Informed
<1>7. CASE UNCHANGED vars
  BY <1>5, <1>7 DEF vars
<1>8. CASE Next /\ ~Poll
  <2>1. UNCHANGED poll
    BY <1>8 DEF Next, PollFails, PushHub, NewSession, Tick, Flip, ViewCatchesUp, LoseFrame,
                AccountChanges, Stabilise, Calm
  <2> QED
    BY <1>5, <2>1
<1> QED
  BY <1>3, <1>4, <1>6, <1>7, <1>8 DEF Poll

\* That tail shows the state the cloud knows, and acts on it.
LEMMA TailSettles ==
  ASSUME Believed, Chronology, NEW h \in Hubs \ Faulty, Alone(h), Calm(h), Informed(h),
         Finish(listed), reply[MidOf[h]] \in Served(MidOf[h])
  PROVE  /\ truth[MidOf[h]].state = "connected" => h \notin cards'
         /\ /\ truth[MidOf[h]].state = "disconnected"
            /\ MidOf[h] \in Stamped
            /\ now - truth[MidOf[h]].moment >= Threshold
            => h \in active'
<1> DEFINE m == MidOf[h]
           L == listed
<1>0. /\ m \in Mids /\ h \in L \cap RealHubs /\ L \in SUBSET Hubs /\ TypeOK
      /\ truth[m] \in [state : Flag, moment : Time]
      /\ active \subseteq cards
  <2>1. m \in Mids /\ h \in L \cap RealHubs
    BY ConnectivityAssumption DEF Calm, Informed
  <2>2. TypeOK /\ active \subseteq cards
    BY DEF Believed, ActiveCardsStand
  <2>3. L \in SUBSET Hubs
    BY <2>2 DEF TypeOK, Accounts
  <2>4. truth[m] \in [state : Flag, moment : Time]
    BY <2>1, <2>2 DEF TypeOK
  <2> QED
    BY <2>1, <2>2, <2>3, <2>4
<1>1. Reconcile(L)
  BY <1>0 DEF Finish
<1>2. /\ reply[m].state = truth[m].state
      /\ reply[m].moment \in {truth[m].moment, None}
      /\ m \in Stamped => reply[m] = truth[m]
  BY <1>0 DEF Calm, Served
<1>3. Shown(L)[m] = reply[m]
  <2>1. m \notin MidsOf(Gone(L))
    BY <1>0, ShownType DEF MidsOf, Alone
  <2>2. Shown(L)[m] = Guarded(reply[m], conn[m])
    BY <1>0, <2>1 DEF Shown, Polled, MidsOf
  <2>3. ~(conn[m].moment # None /\ truth[m].moment < conn[m].moment)
    <3>1. conn[m].moment # None => conn[m].moment \in Int /\ conn[m].moment <= truth[m].moment
      BY <1>0 DEF TypeOK, Record, Moment, Time, Chronology, NotAfter
    <3>2. truth[m].moment \in Int
      BY <1>0 DEF Time
    <3> QED
      BY <3>1, <3>2
  <2> QED
    BY <1>2, <2>2, <2>3 DEF Guarded
<1>4. PICK refused \in SUBSET Faulty :
         /\ active' = (active \ Cleared(L)) \cup ((Due(L) \ active) \ refused)
         /\ cards' = (cards \ (Cleared(L) \ refused)) \cup ((Due(L) \ active) \ refused)
  BY <1>1 DEF Reconcile, SyncIssues
<1>5. ASSUME truth[m].state = "connected"
      PROVE  h \notin cards'
  <2>1. h \in Up(L) /\ h \notin Due(L)
    BY <1>0, <1>2, <1>3, <1>5 DEF Up, Due, InState
  <2> QED
    BY <1>4, <2>1 DEF Cleared
<1>6. ASSUME truth[m].state = "disconnected", m \in Stamped, now - truth[m].moment >= Threshold
      PROVE  h \in active'
  <2>1. h \in InState(L, "disconnected")
    BY <1>0, <1>2, <1>3, <1>6 DEF InState
  <2>2. since[h] \in Moment /\ now \in Int /\ truth[m].moment \in Int /\ truth[m].moment # None
    BY <1>0, ConnectivityAssumption DEF TypeOK, Time
  <2>3. Start(L, h) \in Int /\ Start(L, h) <= truth[m].moment
    <3>1. Shown(L)[m].moment = truth[m].moment
      BY <1>2, <1>3, <1>6
    <3>2. since[h] # None => since[h] \in Int
      BY <2>2 DEF Moment, Time
    <3> QED
      BY <2>2, <3>1, <3>2 DEF Start, WindowStart, Earlier
  <2>4. h \in Due(L)
    BY <1>6, <2>1, <2>2, <2>3, ConnectivityAssumption DEF Due
  <2>5. h \notin Cleared(L)
    BY <2>1, <2>4 DEF Cleared, Up, InState
  <2> QED
    BY <1>4, <2>4, <2>5
<1> QED
  BY <1>5, <1>6

-----------------------------------------------------------------------------
(* What must be assumed: the polls and the view can run when they have     *)
(* something to do (both are ENABLED), every poll ends (each of its awaits *)
(* has a timeout, but how many there are is a count over the hubs), and    *)
(* the clock reaches its bound (a count over the ticks).  The last two are *)
(* disposed of at the end (PollsTerminate, ClockArrives).                  *)

PollCanRun == stable /\ account # {} /\ phase = "idle" => ENABLED <<Poll>>_vars

ViewCanCatchUp(m) == [](view[m] = truth[m] \/ ENABLED <<ViewCatchesUp(m)>>_vars)
ViewsCanCatchUp == \A m \in Mids : ViewCanCatchUp(m)

PollsEnd == []<>(phase = "idle")

TimePasses == <>(now = MaxTime)

Live == FairSpec /\ []PollCanRun /\ ViewsCanCatchUp /\ PollsEnd

LEMMA ClockStep ==
  ASSUME [Next]_vars
  PROVE  now' = now \/ Tick
<1>1. \A L : Finish(L) => UNCHANGED now
  BY DEF Finish
<1>2. ASSUME NEW f, PushHub(f)
      PROVE  UNCHANGED now
  BY <1>2 DEF PushHub
<1>3. CASE Poll
  BY <1>1, <1>3 DEF Poll, PollList, FetchStatus, PollTail
<1> QED
  BY <1>2, <1>3 DEF Next, PollFails, NewSession, Flip, ViewCatchesUp, LoseFrame,
                    AccountChanges, Stabilise, vars

\* The clock stands at its bound.
LEMMA LateStep ==
  ASSUME Believed, now = MaxTime, [Next]_vars
  PROVE  now' = MaxTime
BY ClockStep, ConnectivityAssumption DEF Tick

\* The card of a hub that stays connected goes, whichever session raised it
\* (async_sync deletes by what the poll shows, not by what it remembers).
THEOREM UpHubIsCleared ==
  ASSUME \A g, h \in Hubs : MidOf[g] = MidOf[h] => g = h
  PROVE  Live => RecoveryIsCleared
<1>1. ASSUME NEW h \in Hubs \ Faulty
      PROVE  Live => (BackUp(h) ~> (h \notin cards \/ truth[MidOf[h]].state = "disconnected"))
  <2> DEFINE Back == BackUp(h)
             Seen == view[MidOf[h]] = truth[MidOf[h]]
             Idle == phase = "idle"
             Mid  == Informed(h)
             Goal == h \notin cards \/ truth[MidOf[h]].state = "disconnected"
             Inv  == Believed /\ Chronology
  <2>0. MidOf[h] \in Mids /\ h \in Hubs /\ Alone(h)
    BY ConnectivityAssumption DEF Alone
  <2>1. Inv /\ Back /\ [Next]_vars => Back' \/ Goal'
    BY <2>0, StableStep DEF BackUp, Flag
  <2>2. Inv /\ Back /\ Seen /\ [Next]_vars => Seen' \/ Goal'
    BY <2>0, StableStep DEF BackUp, Flag
  <2>3. Inv /\ <<ViewCatchesUp(MidOf[h])>>_vars => Seen'
    BY <2>0 DEF ViewCatchesUp, Believed, TypeOK
  <2>4. Inv /\ Back /\ Seen /\ Idle /\ [Next]_vars => Idle' \/ Mid'
    BY <2>0, IdleStep DEF BackUp, Calm
  <2>5. Inv /\ Back /\ Seen /\ Idle /\ <<Poll>>_vars => Mid'
    BY <2>0, IdleStep DEF BackUp, Calm, Next
  <2>6. Inv /\ Back /\ Seen /\ Mid /\ [Next]_vars /\ Back' /\ Seen' => Mid' \/ Goal'
    <3> SUFFICES ASSUME Inv, Back, Seen, Mid, [Next]_vars, Back', Seen'
                 PROVE  Mid' \/ Goal'
      OBVIOUS
    <3>1. /\ Calm(h) /\ Calm(h)' /\ stable /\ Believed
          /\ truth[MidOf[h]].state = "connected" /\ truth'[MidOf[h]].state = "connected"
      BY DEF BackUp, Calm
    <3>2. truth'[MidOf[h]] = truth[MidOf[h]]
      BY <2>0, <3>1, StableStep DEF Flag
    <3> QED
      BY <2>0, <3>1, <3>2, InformedStep, TailSettles
  <2>7. Mid => ~Idle
    BY DEF Informed
  <2>8. PollCanRun /\ Back /\ Idle => ENABLED <<Poll>>_vars
    BY DEF PollCanRun, BackUp
  <2>9. ViewsFollow => ViewFollows(MidOf[h])
    BY <2>0 DEF ViewsFollow
  <2>10. ViewsCanCatchUp => ViewCanCatchUp(MidOf[h])
    BY <2>0 DEF ViewsCanCatchUp
  <2>11. ViewFollows(MidOf[h]) => WF_vars(ViewCatchesUp(MidOf[h]))
    BY PTL DEF ViewFollows
  <2>12. ViewCanCatchUp(MidOf[h]) => [](Seen \/ ENABLED <<ViewCatchesUp(MidOf[h])>>_vars)
    BY PTL DEF ViewCanCatchUp
  <2> HIDE DEF Back, Seen, Idle, Mid, Goal, Inv
  <2>13. Live => /\ []Inv /\ [][Next]_vars /\ WF_vars(Poll)
                 /\ []PollCanRun /\ []<>Idle
    BY ChronologyHolds, PTL DEF Live, FairSpec, Fairness, Spec, PollsEnd, Inv, Idle
  <2>14. Live => WF_vars(ViewCatchesUp(MidOf[h]))
    BY <2>9, <2>11, PTL DEF Live, FairSpec, Fairness
  <2>15. Live => [](Seen \/ ENABLED <<ViewCatchesUp(MidOf[h])>>_vars)
    BY <2>10, <2>12, PTL DEF Live
  <2>16. Live => (Back ~> Goal \/ (Back /\ Seen))
    BY <2>1, <2>3, <2>13, <2>14, <2>15, PTL
  <2>17. Live => (Back /\ Seen ~> Goal \/ (Back /\ Seen /\ Idle))
    BY <2>1, <2>2, <2>13, PTL
  <2>18. Live => (Back /\ Seen /\ Idle ~> Goal \/ (Back /\ Seen /\ Mid))
    BY <2>1, <2>2, <2>4, <2>5, <2>8, <2>13, PTL
  <2>19. Live => (Back /\ Seen /\ Mid ~> Goal)
    BY <2>1, <2>2, <2>6, <2>7, <2>13, PTL
  <2> QED
    BY <2>16, <2>17, <2>18, <2>19, PTL DEF Back, Goal
<1> QED
  BY <1>1 DEF RecoveryIsCleared

\* A stamped hub that stays down past HUB_DISCONNECT_DEBOUNCE_SECONDS gets its
\* card: nothing the cloud re-stamps, serves late or pushes holds it off for ever
\* (_sync_hub_connectivity_issues).
THEOREM DownHubIsRaised ==
  ASSUME \A g, h \in Hubs : MidOf[g] = MidOf[h] => g = h
  PROVE  Live /\ TimePasses => OutageIsRaised
<1>1. ASSUME NEW h \in Hubs \ Faulty
      PROVE  Live /\ TimePasses =>
               (DownTooLong(h) ~> (h \in active \/ truth[MidOf[h]].state = "connected"))
  <2> DEFINE Down == DownTooLong(h)
             Seen == view[MidOf[h]] = truth[MidOf[h]]
             Idle == phase = "idle"
             Mid  == Informed(h)
             Late == now = MaxTime
             Goal == h \in active \/ truth[MidOf[h]].state = "connected"
             Inv  == Believed /\ Chronology
  <2>0. MidOf[h] \in Mids /\ h \in Hubs /\ Alone(h)
    BY ConnectivityAssumption DEF Alone
  <2>1. Inv /\ Late /\ [Next]_vars => Late'
    BY LateStep
  <2>2. Inv /\ Down /\ [Next]_vars => Down' \/ Goal'
    BY <2>0, StableStep DEF DownTooLong, Flag
  <2>3. Inv /\ Down /\ Seen /\ [Next]_vars => Seen' \/ Goal'
    BY <2>0, StableStep DEF DownTooLong, Flag
  <2>4. Inv /\ <<ViewCatchesUp(MidOf[h])>>_vars => Seen'
    BY <2>0 DEF ViewCatchesUp, Believed, TypeOK
  <2>5. Inv /\ Down /\ Seen /\ Idle /\ [Next]_vars => Idle' \/ Mid'
    BY <2>0, IdleStep DEF DownTooLong, Calm
  <2>6. Inv /\ Down /\ Seen /\ Idle /\ <<Poll>>_vars => Mid'
    BY <2>0, IdleStep DEF DownTooLong, Calm, Next
  <2>7. Inv /\ Down /\ Seen /\ Late /\ Mid /\ [Next]_vars /\ Down' /\ Seen' => Mid' \/ Goal'
    <3> SUFFICES ASSUME Inv, Down, Seen, Late, Mid, [Next]_vars, Down', Seen'
                 PROVE  Mid' \/ Goal'
      OBVIOUS
    <3>1. /\ Calm(h) /\ Calm(h)' /\ stable /\ Believed
          /\ truth[MidOf[h]].state = "disconnected" /\ truth'[MidOf[h]].state = "disconnected"
      BY DEF DownTooLong, Calm
    <3>2. truth'[MidOf[h]] = truth[MidOf[h]]
      BY <2>0, <3>1, StableStep DEF Flag
    <3>3. now - truth[MidOf[h]].moment >= Threshold /\ MidOf[h] \in Stamped
      BY <2>0, ConnectivityAssumption DEF DownTooLong, Believed, TypeOK, Time
    <3> QED
      BY <2>0, <3>1, <3>2, <3>3, InformedStep, TailSettles
  <2>8. Mid => ~Idle
    BY DEF Informed
  <2>9. PollCanRun /\ Down /\ Idle => ENABLED <<Poll>>_vars
    BY DEF PollCanRun, DownTooLong
  <2>10. ViewsFollow => ViewFollows(MidOf[h])
    BY <2>0 DEF ViewsFollow
  <2>11. ViewsCanCatchUp => ViewCanCatchUp(MidOf[h])
    BY <2>0 DEF ViewsCanCatchUp
  <2>12. ViewFollows(MidOf[h]) => WF_vars(ViewCatchesUp(MidOf[h]))
    BY PTL DEF ViewFollows
  <2>13. ViewCanCatchUp(MidOf[h]) => [](Seen \/ ENABLED <<ViewCatchesUp(MidOf[h])>>_vars)
    BY PTL DEF ViewCanCatchUp
  <2> HIDE DEF Down, Seen, Idle, Mid, Late, Goal, Inv
  <2>14. Live => /\ []Inv /\ [][Next]_vars /\ WF_vars(Poll)
                 /\ []PollCanRun /\ []<>Idle
    BY ChronologyHolds, PTL DEF Live, FairSpec, Fairness, Spec, PollsEnd, Inv, Idle
  <2>15. Live => WF_vars(ViewCatchesUp(MidOf[h]))
    BY <2>10, <2>12, PTL DEF Live, FairSpec, Fairness
  <2>16. Live => [](Seen \/ ENABLED <<ViewCatchesUp(MidOf[h])>>_vars)
    BY <2>11, <2>13, PTL DEF Live
  <2>17. TimePasses => <>Late
    BY PTL DEF TimePasses, Late
  <2>18. Live /\ TimePasses => (Down ~> Goal \/ (Down /\ Seen /\ Late))
    BY <2>2, <2>3, <2>4, <2>14, <2>15, <2>16, <2>1, <2>17, PTL
  <2>19. Live => (Down /\ Seen /\ Late ~> Goal \/ (Down /\ Seen /\ Late /\ Idle))
    BY <2>2, <2>3, <2>14, <2>1, PTL
  <2>20. Live => (Down /\ Seen /\ Late /\ Idle ~> Goal \/ (Down /\ Seen /\ Late /\ Mid))
    BY <2>2, <2>3, <2>5, <2>6, <2>9, <2>14, <2>1, PTL
  <2>21. Live => (Down /\ Seen /\ Late /\ Mid ~> Goal)
    BY <2>2, <2>3, <2>7, <2>8, <2>14, <2>1, PTL
  <2> QED
    BY <2>18, <2>19, <2>20, <2>21, PTL DEF Down, Goal
<1> QED
  BY <1>1 DEF OutageIsRaised

-----------------------------------------------------------------------------
(* Polls end and time passes.  Neither bound below is the code's: without  *)
(* an induction the steps are added up by doubling, so far and no further. *)

PollCanGoOn == phase = "status" => ENABLED <<Poll>>_vars
ClockCanGoOn == now < MaxTime => ENABLED <<Tick>>_vars

\* The hubs whose status the poll under way still awaits.
Awaited == {m \in MidsOf(listed \cap RealHubs) : reply[m] = Pending}

LEMMA AwaitedIsFinite ==
  ASSUME Believed, IsFiniteSet(Mids)
  PROVE  /\ Awaited \subseteq Mids
         /\ Cardinality(Awaited) \in Nat
         /\ Cardinality(Awaited) <= Cardinality(Mids)
<1>1. Awaited \subseteq Mids
  BY ConnectivityAssumption DEF Awaited, MidsOf, Believed, TypeOK, Accounts
<1>2. IsFiniteSet(Awaited) /\ Cardinality(Awaited) <= Cardinality(Mids)
  BY <1>1, FS_Subset
<1> QED
  BY <1>1, <1>2, FS_CardinalityType

Answers(m) == Served(m) \cup
                (IF stable THEN {}
                 ELSE {Unknown} \cup {[s EXCEPT !.state = "unknown"] : s \in Served(m)})

LEMMA AnswersAreNotPending ==
  ASSUME Believed, NEW m \in Mids, NEW r \in Answers(m)
  PROVE  r # Pending
<1>1. view[m] \in [state : Flag, moment : Time]
  BY DEF Believed, TypeOK
<1>2. \A s \in Served(m) : s.state \in Flag /\ s = [state |-> s.state, moment |-> s.moment]
  BY <1>1 DEF Served
<1>3. r.state \in Flag \cup {"unknown"}
  BY <1>2 DEF Answers, Unknown
<1> QED
  BY <1>3 DEF Pending, NoRecord, Flag

\* A poll that goes on awaits one hub less; nothing else touches what it awaits.
LEMMA AwaitedStep ==
  ASSUME Believed, phase = "status", [Next]_vars
  PROVE  \/ phase' = "idle"
         \/ phase' = "status" /\ Awaited' = Awaited /\ ~Poll
         \/ phase' = "status" /\ \E m \in Awaited : Awaited' = Awaited \ {m}
<1>1. ASSUME UNCHANGED poll, ~Poll
      PROVE  phase' = "status" /\ Awaited' = Awaited /\ ~Poll
  BY <1>1 DEF poll, Awaited
<1>2. ASSUME NEW m \in Mids, FetchStatus(m)
      PROVE  phase' = "status" /\ \E n \in Awaited : Awaited' = Awaited \ {n}
  <2>1. /\ m \in Awaited /\ UNCHANGED <<phase, listed>> /\ phase = "status"
        /\ \E r \in Answers(m) : reply' = [reply EXCEPT ![m] = r]
    BY <1>2 DEF FetchStatus, Awaited, Answers
  <2>2. reply \in [Mids -> Record] /\ Awaited \subseteq Mids
        /\ MidsOf(listed \cap RealHubs) \subseteq Mids
    BY ConnectivityAssumption DEF Awaited, MidsOf, Believed, TypeOK, Accounts
  <2>3. reply'[m] # Pending /\ \A n \in Mids \ {m} : reply'[n] = reply[n]
    BY <1>2, <2>1, <2>2, AnswersAreNotPending
  <2>4. Awaited' = Awaited \ {m}
    BY <2>1, <2>2, <2>3 DEF Awaited
  <2> QED
    BY <2>1, <2>4
<1>3. CASE PollTail
  BY <1>3 DEF PollTail, Finish
<1>4. CASE PollFails \/ \E end \in SessionEnds : NewSession(end)
  BY <1>4 DEF PollFails, NewSession
<1>5. ~PollList
  BY DEF PollList
<1>6. CASE ~Poll /\ ~PollFails /\ ~(\E end \in SessionEnds : NewSession(end))
  <2>1. UNCHANGED poll
    BY <1>6 DEF Next, PushHub, Tick, Flip, ViewCatchesUp, LoseFrame, AccountChanges, Stabilise, vars
  <2> QED
    BY <1>1, <1>6, <2>1
<1> QED
  BY <1>2, <1>3, <1>4, <1>5, <1>6 DEF Poll

Progressed(n) == phase = "status" /\ Cardinality(Awaited) + n <= 32

Shrinks(m, n) == Progressed(m) ~> Progressed(n) \/ phase = "idle"

LEMMA OneStatus ==
  ASSUME IsFiniteSet(Mids), NEW n \in Nat
  PROVE  FairSpec /\ []PollCanGoOn => Shrinks(n, n + 1)
<1> DEFINE Idle == phase = "idle"
           Rung == Progressed(n)
           Upper == Progressed(n + 1)
<1>1. ASSUME Believed, Rung, [Next]_vars
      PROVE  /\ Rung' \/ Idle'
             /\ Poll => Upper' \/ Idle'
  <2>2. Cardinality(Awaited) \in Nat /\ IsFiniteSet(Awaited)
    BY <1>1, AwaitedIsFinite, FS_Subset
  <2>3. CASE phase' = "idle"
    BY <2>3
  <2>4. CASE phase' = "status" /\ Awaited' = Awaited /\ ~Poll
    BY <1>1, <2>4 DEF Progressed
  <2>5. CASE phase' = "status" /\ \E m \in Awaited : Awaited' = Awaited \ {m}
    <3>1. Cardinality(Awaited') = Cardinality(Awaited) - 1
      BY <2>2, <2>5, FS_RemoveElement
    <3> QED
      BY <1>1, <2>2, <2>5, <3>1 DEF Progressed
  <2> QED
    BY <1>1, <2>3, <2>4, <2>5, AwaitedStep DEF Progressed
<1>2. PollCanGoOn /\ Rung => ENABLED <<Poll>>_vars
  BY DEF PollCanGoOn, Progressed
<1>3. /\ Believed /\ Rung /\ [Next]_vars => Rung' \/ Idle'
      /\ Believed /\ Rung /\ <<Poll>>_vars => Upper' \/ Idle'
  BY <1>1 DEF Next
<1> HIDE DEF Idle, Rung, Upper
<1>4. FairSpec /\ []PollCanGoOn => (Rung ~> Upper \/ Idle)
  BY <1>2, <1>3, BelievedHolds, PTL DEF FairSpec, Fairness, Spec
<1> QED
  BY <1>4 DEF Shrinks, Rung, Upper, Idle

LEMMA ShrinksOn ==
  ASSUME NEW a \in Nat, NEW b \in Nat, NEW c \in Nat
  PROVE  Shrinks(a, b) /\ Shrinks(b, c) => Shrinks(a, c)
BY PTL DEF Shrinks

\* A poll ends, whatever its statuses say: every status call of
\* _async_update_data returns once, and none is made again in that poll.
THEOREM PollsTerminate ==
  ASSUME IsFiniteSet(Mids), Cardinality(Mids) <= 32
  PROVE  FairSpec /\ []PollCanGoOn => PollsEnd
<1> DEFINE Going == FairSpec /\ []PollCanGoOn
<1>1. Going => \A n \in Nat : Shrinks(n, n + 1)
  BY OneStatus
<1>2. (\A n \in Nat : Shrinks(n, n + 1)) => \A n \in Nat : Shrinks(n, n + 2)
  BY ShrinksOn
<1>3. (\A n \in Nat : Shrinks(n, n + 2)) => \A n \in Nat : Shrinks(n, n + 4)
  BY ShrinksOn
<1>4. (\A n \in Nat : Shrinks(n, n + 4)) => \A n \in Nat : Shrinks(n, n + 8)
  BY ShrinksOn
<1>5. (\A n \in Nat : Shrinks(n, n + 8)) => \A n \in Nat : Shrinks(n, n + 16)
  BY ShrinksOn
<1>6. (\A n \in Nat : Shrinks(n, n + 16)) => \A n \in Nat : Shrinks(n, n + 32)
  BY ShrinksOn
<1>7. (\A n \in Nat : Shrinks(n, n + 32)) => Shrinks(0, 32) /\ Shrinks(32, 64)
  OBVIOUS
<1>8. Shrinks(0, 32) /\ Shrinks(32, 64) => Shrinks(0, 64)
  BY ShrinksOn
<1>9. Believed => Progressed(0) \/ phase = "idle"
  BY AwaitedIsFinite, FS_CardinalityType DEF Progressed, Believed, TypeOK
<1>10. Believed => ~Progressed(64)
  BY AwaitedIsFinite DEF Progressed
<1>11. Going => Shrinks(0, 64)
  BY <1>1, <1>2, <1>3, <1>4, <1>5, <1>6, <1>7, <1>8
<1> QED
  BY <1>9, <1>10, <1>11, BelievedHolds, PTL DEF PollsEnd, FairSpec, Shrinks

Rises(m, n) == (now >= m) ~> (now >= n \/ now = MaxTime)

LEMMA OneTick ==
  ASSUME NEW n \in Nat
  PROVE  FairSpec /\ []ClockCanGoOn => Rises(n, n + 1)
<1> DEFINE Rung  == now >= n
           Upper == now >= n + 1
           Full  == now = MaxTime
<1>1. ASSUME Believed, Rung, [Next]_vars
      PROVE  Rung'
  <2>1. now' = now \/ now' = now + 1
    BY <1>1, ClockStep DEF Tick
  <2> QED
    BY <1>1, <2>1, ConnectivityAssumption DEF Believed, TypeOK, Time
<1>2. Believed /\ Rung /\ <<Tick>>_vars => Upper'
  BY ConnectivityAssumption DEF Believed, TypeOK, Time, Tick
<1>3. Believed /\ ClockCanGoOn => Full \/ ENABLED <<Tick>>_vars
  BY ConnectivityAssumption DEF Believed, TypeOK, Time, ClockCanGoOn
<1> HIDE DEF Rung, Upper, Full
<1>4. FairSpec /\ []ClockCanGoOn => (Rung ~> Upper \/ Full)
  BY <1>1, <1>2, <1>3, BelievedHolds, PTL DEF FairSpec, Fairness, Spec
<1> QED
  BY <1>4 DEF Rises, Rung, Upper, Full

LEMMA RisesOn ==
  ASSUME NEW a \in Nat, NEW b \in Nat, NEW c \in Nat
  PROVE  Rises(a, b) /\ Rises(b, c) => Rises(a, c)
BY PTL DEF Rises

\* The clock reaches its bound, from which on the outage windows of
\* RainPointHubConnectivityIssues are over.
THEOREM ClockArrives ==
  ASSUME MaxTime <= 32
  PROVE  FairSpec /\ []ClockCanGoOn => TimePasses
<1> DEFINE Going == FairSpec /\ []ClockCanGoOn
<1>1. Going => \A n \in Nat : Rises(n, n + 1)
  BY OneTick
<1>2. (\A n \in Nat : Rises(n, n + 1)) => \A n \in Nat : Rises(n, n + 2)
  BY RisesOn
<1>3. (\A n \in Nat : Rises(n, n + 2)) => \A n \in Nat : Rises(n, n + 4)
  BY RisesOn
<1>4. (\A n \in Nat : Rises(n, n + 4)) => \A n \in Nat : Rises(n, n + 8)
  BY RisesOn
<1>5. (\A n \in Nat : Rises(n, n + 8)) => \A n \in Nat : Rises(n, n + 16)
  BY RisesOn
<1>6. (\A n \in Nat : Rises(n, n + 16)) => Rises(0, 16) /\ Rises(16, 32)
  OBVIOUS
<1>7. Rises(0, 16) /\ Rises(16, 32) => Rises(0, 32)
  BY RisesOn
<1>8. Going => Rises(0, 32)
  BY <1>1, <1>2, <1>3, <1>4, <1>5, <1>6, <1>7
<1>9. Believed => now >= 0 /\ (now >= 32 => now = MaxTime)
  BY ConnectivityAssumption DEF Believed, TypeOK, Time
<1> QED
  BY <1>8, <1>9, BelievedHolds, PTL DEF TimePasses, FairSpec, Rises

=============================================================================
