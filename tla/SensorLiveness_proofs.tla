------------------------ MODULE SensorLiveness_proofs ------------------------
(***************************************************************************)
(* What SensorEnumeration owes once the cloud answers in full.  Every step *)
(* here is proved but one: that a poll can be taken, PollCanRun, is an     *)
(* ENABLED, and a hypothesis of the theorems.                              *)
(***************************************************************************)
EXTENDS SensorEnumeration_proofs

-----------------------------------------------------------------------------
(* The steps that are left, as one listed key sees them.                   *)

\* A poll takes the list, and the key is on it.
TakesList(k) ==
    /\ phase = "idle"
    /\ phase' = "status"
    /\ k \in subs'
    /\ silent'[k] = silent[k]

\* A poll takes the statuses: a key that was on the list and reports loses its
\* card, and one that is mute is counted until it has one.
TakesStatus(k) ==
    /\ phase = "status"
    /\ phase' = "idle"
    /\ k \in subs /\ k \notin mute => k \notin cards'
    /\ k \in subs /\ k \in mute =>
         /\ silent[k] < SilentDebounce => silent'[k] = silent[k] + 1
         /\ silent[k] + 1 >= SilentDebounce => k \in active'

\* Nothing a mute key notices.
PassesBy(k) ==
    /\ UNCHANGED poll
    /\ k \in mute => silent'[k] = silent[k]

\* The list that arrives is the whole account's.
LEMMA FullList ==
  ASSUME Enumerated, NEW k \in Keys, Listed(k), PollList
  PROVE  TakesList(k) /\ UNCHANGED cloud
<1>1. phase = "idle" /\ stable /\ HubOf[k] \in account /\ k \in paired
  BY DEF PollList, Listed
<1>2. k \in paired \cap Children(account)
  BY <1>1 DEF Children
<1>3. /\ phase' = "status"
      /\ subs' = paired \cap Children(account)
      /\ UNCHANGED <<cloud, dataKeys, sensors, silent, track, issues, quiet>>
  BY <1>1 DEF PollList
<1> QED
  BY <1>1, <1>2, <1>3 DEF TakesList

\* The statuses that arrive mention every device that is not mute.
LEMMA FullStatus ==
  ASSUME Enumerated, NEW k \in Keys, Listed(k), PollTail
  PROVE  TakesStatus(k) /\ UNCHANGED cloud
<1> DEFINE dark  == {}
           heard == (subs \ Children(dark)) \ mute
<1>1. Finish(listed, subs, dark, heard)
  BY DEF PollTail, Listed
<1>2. Answer(listed, subs, dark, heard) /\ TypeOK
  BY TailAnswers DEF Enumerated
<1>3. phase = "status" /\ phase' = "idle" /\ UNCHANGED cloud
  BY <1>1 DEF Finish, PollTail
<1>4. ASSUME k \in subs
      PROVE  Reconcile(listed, subs, dark, heard)
  <2>1. listed # {}
    BY <1>2, <1>4 DEF Answer, Children
  <2> QED
    BY <1>1, <2>1, <1>2, TailCases
<1>5. ASSUME k \in subs, k \notin mute
      PROVE  k \notin cards'
  <2>1. k \in heard
    BY <1>1, <1>5 DEF Children
  <2> QED
    BY <2>1, <1>2, <1>4, <1>5, CardStep
<1>6. ASSUME k \in subs, k \in mute
      PROVE  /\ silent[k] < SilentDebounce => silent'[k] = silent[k] + 1
             /\ silent[k] + 1 >= SilentDebounce => k \in active'
  <2>1. k \in Quiet(subs, dark, heard)
    BY <1>1, <1>6 DEF Quiet, Children
  <2>2. silent[k] \in 0 .. SilentDebounce /\ SilentDebounce \in Nat
    BY <1>2, EnumerationAssumption DEF TypeOK
  <2>3. Counted(subs, dark, heard)[k] = Bump(silent[k], SilentDebounce)
    BY <2>1, <1>2, CountedStep
  <2>4. silent'[k] = Bump(silent[k], SilentDebounce)
    BY <2>3, <1>2, <1>4, <1>6, PrunedStep DEF Reconcile
  <2>5. silent[k] + 1 >= SilentDebounce => Bump(silent[k], SilentDebounce) = SilentDebounce
    BY <2>2 DEF Bump
  <2>6. silent[k] + 1 >= SilentDebounce => k \in active'
    BY <2>1, <2>3, <2>5, <1>2, <1>4, <1>6, CardStep
  <2> QED
    BY <2>2, <2>4, <2>6 DEF Bump
<1> QED
  BY <1>3, <1>5, <1>6 DEF TakesStatus

\* Once the cloud is stable a step is half of a poll, a push, or none.
LEMMA CalmStep ==
  ASSUME Enumerated, NEW k \in Keys, Listed(k), [Next]_vars
  PROVE  /\ UNCHANGED cloud
         /\ Poll => TakesList(k) \/ TakesStatus(k)
         /\ TakesList(k) \/ TakesStatus(k) \/ PassesBy(k)
<1>1. CASE Poll
  BY <1>1, FullList, FullStatus DEF Poll
<1>2. CASE \E j \in dataKeys : PushReading(j)
  <2>1. PICK j \in dataKeys : PushReading(j)
    BY <1>2
  <2>2. UNCHANGED <<cloud, poll>> /\ (k \in mute => silent'[k] = silent[k])
    BY <2>1 DEF PushReading, Enumerated, TypeOK
  <2> QED
    BY <1>1, <2>2 DEF PassesBy
<1>3. CASE UNCHANGED vars
  BY <1>1, <1>3 DEF vars, PassesBy
<1>4. stable
  BY DEF Listed
<1> QED
  BY <1>1, <1>2, <1>3, <1>4 DEF Next, PollFails, NewSession, DeviceChanges, HubChanges, Stabilise

-----------------------------------------------------------------------------
(* What must be assumed: a poll of an account that lists a hub can run.    *)

PollCanRun == stable /\ account # {} => ENABLED <<Poll>>_vars

\* A device that reports is relieved of its card, whichever session raised it
\* (RainPointSilentDeviceIssues.async_sync clears what this session forgot).
THEOREM RecoveryClears == FairSpec /\ []PollCanRun => RecoveryIsCleared
<1>1. ASSUME NEW k \in Keys
      PROVE  FairSpec /\ []PollCanRun => (Listed(k) /\ k \notin mute ~> k \notin cards)
  <2> DEFINE Calm == Listed(k) /\ k \notin mute
             Idle == phase = "idle"
             On   == phase = "status" /\ k \in subs
             Off  == phase = "status" /\ ~(k \in subs)
  <2>1. Enumerated /\ Calm /\ [Next]_vars => Calm'
    BY CalmStep DEF cloud, Listed
  <2>2. Enumerated /\ Calm /\ On /\ [Next]_vars => On' \/ (k \notin cards)'
    BY CalmStep DEF TakesList, TakesStatus, PassesBy, poll
  <2>3. Enumerated /\ Calm /\ On /\ <<Poll>>_vars => (k \notin cards)'
    BY CalmStep DEF TakesList, TakesStatus, Next
  <2>4. Enumerated /\ Calm /\ Idle /\ [Next]_vars => Idle' \/ On'
    BY CalmStep DEF TakesList, TakesStatus, PassesBy, poll
  <2>5. Enumerated /\ Calm /\ Idle /\ <<Poll>>_vars => On'
    BY CalmStep DEF TakesList, TakesStatus, Next
  <2>6. Enumerated /\ Calm /\ Off /\ [Next]_vars => Off' \/ Idle'
    BY CalmStep DEF TakesList, TakesStatus, PassesBy, poll
  <2>7. Enumerated /\ Calm /\ Off /\ <<Poll>>_vars => Idle'
    BY CalmStep DEF TakesList, TakesStatus, Next
  <2>8. Enumerated /\ Calm => Idle \/ On \/ Off
    BY DEF Enumerated, TypeOK
  <2>9. PollCanRun /\ Calm => ENABLED <<Poll>>_vars
    BY DEF PollCanRun, Listed
  <2> HIDE DEF Calm, Idle, On, Off
  <2>10. FairSpec /\ []PollCanRun => (Calm ~> k \notin cards)
    BY <2>1, <2>2, <2>3, <2>4, <2>5, <2>6, <2>7, <2>8, <2>9, EnumeratedHolds, PTL
       DEF FairSpec, Spec
  <2> QED
    BY <2>10 DEF Calm
<1> QED
  BY <1>1 DEF RecoveryIsCleared

\* A device that stays mute gets its card after as many polls as the debounce
\* has; SILENT_DEBOUNCE_POLLS is 3, and the proof climbs that many rungs.
THEOREM SilenceReports ==
  ASSUME SilentDebounce <= 3
  PROVE  FairSpec /\ []PollCanRun => SilenceIsReported
<1>1. ASSUME NEW k \in Keys
      PROVE  FairSpec /\ []PollCanRun => (Listed(k) /\ k \in mute ~> k \in active)
  <2> DEFINE Mute    == Listed(k) /\ k \in mute
             Idle(n) == phase = "idle" /\ silent[k] = n
             On(n)   == phase = "status" /\ k \in subs /\ silent[k] = n
             Off     == phase = "status" /\ k \notin subs
             Free    == phase = "idle"
             Carded  == k \in active
  <2>1. Enumerated /\ Mute /\ [Next]_vars => Mute'
    BY CalmStep DEF cloud, Listed
  <2>2. Enumerated /\ Mute /\ Off /\ [Next]_vars => Off' \/ Free'
    BY CalmStep DEF TakesList, TakesStatus, PassesBy, poll
  <2>3. Enumerated /\ Mute /\ Off /\ <<Poll>>_vars => Free'
    BY CalmStep DEF TakesList, TakesStatus, Next
  <2>4. ASSUME NEW n \in 0 .. 3
        PROVE  /\ Enumerated /\ Mute /\ Idle(n) /\ [Next]_vars => Idle(n)' \/ On(n)'
               /\ Enumerated /\ Mute /\ Idle(n) /\ <<Poll>>_vars => On(n)'
    BY CalmStep DEF TakesList, TakesStatus, PassesBy, poll, Next
  <2>5. ASSUME NEW n \in 0 .. 2
        PROVE  /\ Enumerated /\ Mute /\ On(n) /\ [Next]_vars => On(n)' \/ Idle(n + 1)' \/ Carded'
               /\ Enumerated /\ Mute /\ On(n) /\ <<Poll>>_vars => Idle(n + 1)' \/ Carded'
    BY CalmStep, EnumerationAssumption DEF TakesList, TakesStatus, PassesBy, poll, Next
  <2>6. ASSUME NEW n \in 2 .. 3
        PROVE  /\ Enumerated /\ Mute /\ On(n) /\ [Next]_vars => On(n)' \/ Carded'
               /\ Enumerated /\ Mute /\ On(n) /\ <<Poll>>_vars => Carded'
    BY CalmStep, EnumerationAssumption DEF TakesList, TakesStatus, PassesBy, poll, Next
  <2>7. /\ Enumerated /\ Mute => Free \/ Off \/ On(0) \/ On(1) \/ On(2) \/ On(3)
        /\ Enumerated /\ Free => Idle(0) \/ Idle(1) \/ Idle(2) \/ Idle(3)
    <3>1. Enumerated => /\ phase \in {"idle", "status"}
                        /\ silent[k] \in {0, 1, 2, 3}
      BY EnumerationAssumption DEF Enumerated, TypeOK
    <3> QED
      BY <3>1
  <2>8. PollCanRun /\ Mute => ENABLED <<Poll>>_vars
    BY DEF PollCanRun, Listed
  <2> DEFINE Live == FairSpec /\ []PollCanRun
  <2> HIDE DEF Mute, Idle, On, Off, Free, Carded
  <2>9. Live => (Mute /\ Off ~> Mute /\ Free)
    BY <2>1, <2>2, <2>3, <2>8, EnumeratedHolds, PTL DEF FairSpec, Spec
  <2>10. Live => (Mute /\ (Idle(0) \/ On(0)) ~> (Mute /\ Idle(1)) \/ Carded)
    <3>1. /\ Enumerated /\ Mute /\ Idle(0) /\ [Next]_vars => Idle(0)' \/ On(0)'
          /\ Enumerated /\ Mute /\ Idle(0) /\ <<Poll>>_vars => On(0)'
      BY <2>4
    <3>2. /\ Enumerated /\ Mute /\ On(0) /\ [Next]_vars => On(0)' \/ Idle(1)' \/ Carded'
          /\ Enumerated /\ Mute /\ On(0) /\ <<Poll>>_vars => Idle(1)' \/ Carded'
      BY <2>5
    <3> QED
      BY <3>1, <3>2, <2>1, <2>8, EnumeratedHolds, PTL DEF FairSpec, Spec
  <2>11. Live => (Mute /\ (Idle(1) \/ On(1)) ~> (Mute /\ Idle(2)) \/ Carded)
    <3>1. /\ Enumerated /\ Mute /\ Idle(1) /\ [Next]_vars => Idle(1)' \/ On(1)'
          /\ Enumerated /\ Mute /\ Idle(1) /\ <<Poll>>_vars => On(1)'
      BY <2>4
    <3>2. /\ Enumerated /\ Mute /\ On(1) /\ [Next]_vars => On(1)' \/ Idle(2)' \/ Carded'
          /\ Enumerated /\ Mute /\ On(1) /\ <<Poll>>_vars => Idle(2)' \/ Carded'
      BY <2>5
    <3> QED
      BY <3>1, <3>2, <2>1, <2>8, EnumeratedHolds, PTL DEF FairSpec, Spec
  <2>12. Live => (Mute /\ (Idle(2) \/ On(2)) ~> Carded)
    <3>1. /\ Enumerated /\ Mute /\ Idle(2) /\ [Next]_vars => Idle(2)' \/ On(2)'
          /\ Enumerated /\ Mute /\ Idle(2) /\ <<Poll>>_vars => On(2)'
      BY <2>4
    <3>2. /\ Enumerated /\ Mute /\ On(2) /\ [Next]_vars => On(2)' \/ Carded'
          /\ Enumerated /\ Mute /\ On(2) /\ <<Poll>>_vars => Carded'
      BY <2>6
    <3> QED
      BY <3>1, <3>2, <2>1, <2>8, EnumeratedHolds, PTL DEF FairSpec, Spec
  <2>13. Live => (Mute /\ (Idle(3) \/ On(3)) ~> Carded)
    <3>1. /\ Enumerated /\ Mute /\ Idle(3) /\ [Next]_vars => Idle(3)' \/ On(3)'
          /\ Enumerated /\ Mute /\ Idle(3) /\ <<Poll>>_vars => On(3)'
      BY <2>4
    <3>2. /\ Enumerated /\ Mute /\ On(3) /\ [Next]_vars => On(3)' \/ Carded'
          /\ Enumerated /\ Mute /\ On(3) /\ <<Poll>>_vars => Carded'
      BY <2>6
    <3> QED
      BY <3>1, <3>2, <2>1, <2>8, EnumeratedHolds, PTL DEF FairSpec, Spec
  <2>14. Live => (Mute ~> Carded)
    BY <2>7, <2>9, <2>10, <2>11, <2>12, <2>13, EnumeratedHolds, PTL DEF FairSpec
  <2> QED
    BY <2>14 DEF Mute, Carded
<1> QED
  BY <1>1 DEF SilenceIsReported

-----------------------------------------------------------------------------
(* A key that has left, towards the verdict that offers it for removal.    *)

Left(k) ==
    stable /\ account # {} /\ k \in lastKeys /\ (k \notin paired \/ HubOf[k] \notin account)

\* The list under way, if any, is the account as it stays.
Current == phase = "status" => listed = account /\ subs = paired \cap Children(account)

\* How far the window of its hub, where that has left too, and then the count of
\* the key have come.
Told(k) == (IF HubOf[k] \in account THEN 0 ELSE hubRun[HubOf[k]]) + gonePolls[k]

LEMMA ToldBounds ==
  ASSUME Enumerated, NEW k \in Keys
  PROVE  /\ Told(k) \in Nat
         /\ AbsentDebounce + OrphanDebounce < Told(k) => gonePolls[k] = OrphanDebounce
<1>1. HubOf[k] \in Hubs /\ OrphanDebounce \in Nat /\ AbsentDebounce \in Nat
  BY EnumerationAssumption, AbsentDebounceAssumption
<1>2. gonePolls[k] \in 0 .. OrphanDebounce /\ hubRun[HubOf[k]] \in 0 .. AbsentDebounce + 1
  BY <1>1 DEF Enumerated, TypeOK
<1> QED
  BY <1>1, <1>2 DEF Told

LEMMA ToldBoundsAfter ==
  ASSUME Enumerated', NEW k \in Keys
  PROVE  Told(k)' \in Nat
<1>1. HubOf[k] \in Hubs /\ OrphanDebounce \in Nat /\ AbsentDebounce \in Nat
  BY EnumerationAssumption, AbsentDebounceAssumption
<1>2. gonePolls'[k] \in 0 .. OrphanDebounce /\ hubRun'[HubOf[k]] \in 0 .. AbsentDebounce + 1
  BY <1>1 DEF Enumerated, TypeOK
<1> QED
  BY <1>1, <1>2 DEF Told

\* A poll of the whole account counts for a key that has left.
LEMMA FullStatusTells ==
  ASSUME Enumerated, NEW k \in Keys, Left(k), Current, PollTail
  PROVE  /\ phase = "status" /\ phase' = "idle" /\ UNCHANGED cloud
         /\ k \in lastKeys'
         /\ Told(k)' > Told(k) \/ gonePolls'[k] = OrphanDebounce
<1> DEFINE S     == paired \cap Children(account)
           dark  == {}
           heard == (S \ Children(dark)) \ mute
<1>1. /\ phase = "status" /\ listed = account /\ subs = S /\ stable /\ account # {}
      /\ k \in lastKeys
  BY DEF PollTail, Current, Left
<1>2. Finish(account, S, dark, heard)
  BY <1>1 DEF PollTail
<1>3. phase' = "idle" /\ UNCHANGED cloud
  BY <1>2 DEF Finish
<1>4. TrackLists(account, S)
  BY <1>1, <1>2, TailCases DEF Enumerated, Reconcile
<1>5. k \notin S
  BY DEF Left, Children
<1>6. /\ HubOf[k] \in Hubs /\ OrphanDebounce \in Nat /\ AbsentDebounce \in Nat
      /\ gonePolls[k] \in 0 .. OrphanDebounce /\ hubRun[HubOf[k]] \in 0 .. AbsentDebounce + 1
  BY EnumerationAssumption, AbsentDebounceAssumption DEF Enumerated, TypeOK
<1>7. k \in lastKeys'
  BY <1>1, <1>4, <1>5 DEF TrackLists, Missing
<1>8. hubRun'[HubOf[k]] = IF HubOf[k] \in account THEN 0
                          ELSE Bump(hubRun[HubOf[k]], AbsentDebounce + 1)
  BY <1>4, <1>6 DEF TrackLists, HubRuns
<1>9. gonePolls'[k] = IF HubOf[k] \in account \/ hubRun'[HubOf[k]] > AbsentDebounce
                      THEN Bump(gonePolls[k], OrphanDebounce) ELSE gonePolls[k]
  BY <1>1, <1>4, <1>5, <1>6 DEF TrackLists, Telling
<1>10. account' = account
  BY <1>3 DEF cloud
<1>11. Told(k)' > Told(k) \/ gonePolls'[k] = OrphanDebounce
  <2>1. CASE HubOf[k] \in account
    BY <1>6, <1>9, <1>10, <2>1 DEF Told, Bump
  <2>2. CASE HubOf[k] \notin account
    BY <1>6, <1>8, <1>9, <1>10, <2>2 DEF Told, Bump
  <2> QED
    BY <2>1, <2>2
<1> QED
  BY <1>1, <1>3, <1>7, <1>11

\* Once the cloud is stable nothing else moves what has been told.
LEMMA LeftStep ==
  ASSUME Enumerated, NEW k \in Keys, Left(k), [Next]_vars
  PROVE  /\ Left(k)'
         /\ Current => Current' /\ (Told(k)' >= Told(k) \/ gonePolls'[k] = OrphanDebounce)
         /\ phase = "idle" /\ Poll => phase' = "status"
         /\ phase = "status" /\ Poll => phase' = "idle"
         /\ phase = "status" /\ Poll /\ Current =>
               Told(k)' > Told(k) \/ gonePolls'[k] = OrphanDebounce
         /\ ~Poll => phase' = phase
<1>1. stable /\ account # {} /\ k \in lastKeys /\ Told(k) \in Nat
  BY ToldBounds DEF Left
<1>2. CASE PollList
  <2>1. /\ phase = "idle" /\ phase' = "status" /\ listed' = account
        /\ subs' = paired \cap Children(account)
        /\ UNCHANGED <<cloud, dataKeys, sensors, silent, track, issues, quiet>>
    BY <1>1, <1>2 DEF PollList
  <2>2. Left(k)' /\ Current' /\ Told(k)' = Told(k)
    BY <2>1 DEF Left, Current, Told, Children, cloud, track
  <2> QED
    BY <1>1, <1>2, <2>1, <2>2 DEF Poll
<1>3. CASE PollTail
  <2>1. /\ phase = "status" /\ phase' = "idle" /\ UNCHANGED cloud /\ k \in lastKeys'
    <3>1. PICK heard \in SUBSET ((subs \ Children({})) \ mute) : Finish(listed, subs, {}, heard)
      BY <1>1, <1>3 DEF PollTail
    <3>2. listed = {} => UNCHANGED lastKeys \/ (Reconcile(listed, subs, {}, heard) /\ UNCHANGED lastKeys)
      BY <3>1, TailCases DEF Enumerated, track, Reconcile
    <3>3. listed # {} => TrackLists(listed, subs)
      BY <3>1, TailCases DEF Enumerated, Reconcile
    <3>4. k \in lastKeys'
      BY <1>1, <3>2, <3>3 DEF TrackLists, Missing
    <3> QED
      BY <1>3, <3>1, <3>4 DEF PollTail, Finish
  <2>2. Left(k)' /\ Current'
    BY <1>1, <2>1 DEF Left, Current, cloud
  <2>3. Current => Told(k)' > Told(k) \/ gonePolls'[k] = OrphanDebounce
    BY <1>3, FullStatusTells
  <2>4. Told(k)' \in Nat
    BY NextHolds, ToldBoundsAfter
  <2>5. Current => Told(k)' >= Told(k) \/ gonePolls'[k] = OrphanDebounce
    BY <1>1, <2>3, <2>4
  <2> QED
    BY <1>3, <2>1, <2>2, <2>3, <2>5 DEF Poll
<1>4. CASE (\E j \in dataKeys : PushReading(j)) \/ UNCHANGED vars
  <2>1. UNCHANGED <<cloud, poll, track>>
    BY <1>4 DEF PushReading, vars
  <2>2. UNCHANGED <<phase, listed, subs, account, paired, stable, lastKeys, hubRun, gonePolls>>
    BY <2>1 DEF cloud, poll, track
  <2> QED
    BY <1>1, <1>2, <1>3, <2>2 DEF Left, Current, Told, Poll
<1> QED
  BY <1>1, <1>2, <1>3, <1>4
     DEF Next, Poll, PollFails, NewSession, DeviceChanges, HubChanges, Stabilise

Answered == FairSpec /\ []PollCanRun

Known(n, k) == Left(k) /\ Current /\ Told(k) >= n

Due(k) == k \in aged

Climbs(m, n, k) == Known(m, k) ~> Known(n, k) \/ Due(k)

\* Whatever list was under way when the cloud came to rest, the next is the
\* account's.
LEMMA ListBecomesCurrent ==
  ASSUME NEW k \in Keys
  PROVE  Answered => (Left(k) ~> Known(0, k))
<1> DEFINE Idle == phase = "idle"
           Open == phase = "status"
<1>1. Enumerated /\ Left(k) /\ [Next]_vars => Left(k)' /\ (~Poll /\ Open => Open')
  BY LeftStep
<1>2. Enumerated /\ Left(k) /\ Open /\ <<Poll>>_vars => Idle'
  BY LeftStep DEF Next
<1>3. Enumerated /\ Left(k) /\ Open /\ [Next]_vars => Open' \/ Idle'
  BY LeftStep
<1>4. Enumerated => Idle \/ Open
  BY DEF Enumerated, TypeOK
<1>5. Enumerated /\ Left(k) /\ Idle => Known(0, k)
  BY ToldBounds DEF Known, Current
<1>6. PollCanRun /\ Left(k) => ENABLED <<Poll>>_vars
  BY DEF PollCanRun, Left
<1> HIDE DEF Idle, Open
<1> QED
  BY <1>1, <1>2, <1>3, <1>4, <1>5, <1>6, EnumeratedHolds, PTL DEF Answered, FairSpec, Spec

\* A poll of two halves adds one.
LEMMA OnePoll ==
  ASSUME NEW n \in Nat, NEW k \in Keys
  PROVE  Answered => Climbs(n, n + 1, k)
<1> DEFINE Idle == phase = "idle"
           Open == phase = "status"
           Rung == Known(n, k)
           Next1 == Known(n + 1, k)
<1>1. Enumerated /\ gonePolls[k] = OrphanDebounce /\ Left(k) => Due(k)
  BY DEF Enumerated, AgedExactlyWhenTold, Due, Left
<1>2. Enumerated /\ [Next]_vars => Enumerated'
  BY NextHolds
<1>3. Enumerated /\ Rung /\ [Next]_vars => Rung' \/ Due(k)'
  <2> SUFFICES ASSUME Enumerated, Rung, [Next]_vars PROVE Rung' \/ Due(k)'
    OBVIOUS
  <2>1. /\ Left(k)' /\ Current' /\ Enumerated'
        /\ Told(k)' >= Told(k) \/ gonePolls'[k] = OrphanDebounce
    BY <1>2, LeftStep DEF Known
  <2>2. gonePolls'[k] = OrphanDebounce => Due(k)'
    BY <2>1 DEF Enumerated, AgedExactlyWhenTold, Due, Left
  <2>3. Told(k) \in Nat /\ Told(k)' \in Nat
    BY <2>1, ToldBounds, ToldBoundsAfter
  <2> QED
    BY <2>1, <2>2, <2>3 DEF Known
<1>4. Enumerated /\ Rung /\ Open /\ Poll => Next1' \/ Due(k)'
  <2> SUFFICES ASSUME Enumerated, Rung, Open, Poll PROVE Next1' \/ Due(k)'
    OBVIOUS
  <2>1. /\ Left(k)' /\ Current' /\ Enumerated'
        /\ Told(k)' > Told(k) \/ gonePolls'[k] = OrphanDebounce
    BY <1>2, LeftStep DEF Known, Next
  <2>2. gonePolls'[k] = OrphanDebounce => Due(k)'
    BY <2>1 DEF Enumerated, AgedExactlyWhenTold, Due, Left
  <2>3. Told(k) \in Nat /\ Told(k)' \in Nat
    BY <2>1, ToldBounds, ToldBoundsAfter
  <2> QED
    BY <2>1, <2>2, <2>3 DEF Known
<1>5. Enumerated /\ Rung /\ Idle /\ <<Poll>>_vars => Open'
  BY LeftStep DEF Known, Next
<1>6. /\ Enumerated /\ Rung /\ Idle /\ [Next]_vars => Idle' \/ Open'
      /\ Enumerated /\ Rung /\ Open /\ [Next]_vars => Open' \/ Next1' \/ Due(k)'
  BY <1>4, LeftStep DEF Known
<1>7. Enumerated /\ Rung /\ Open /\ <<Poll>>_vars => Next1' \/ Due(k)'
  BY <1>4
<1>8. Enumerated => Idle \/ Open
  BY DEF Enumerated, TypeOK
<1>9. PollCanRun /\ Rung => ENABLED <<Poll>>_vars
  BY DEF PollCanRun, Left, Known
<1> HIDE DEF Idle, Open, Rung, Next1
<1>10. Answered => (Rung ~> Next1 \/ Due(k))
  BY <1>3, <1>4, <1>5, <1>6, <1>7, <1>8, <1>9, EnumeratedHolds, PTL DEF Answered, FairSpec, Spec
<1> QED
  BY <1>10 DEF Climbs, Rung, Next1

LEMMA ClimbsOn ==
  ASSUME NEW a \in Nat, NEW b \in Nat, NEW c \in Nat, NEW k \in Keys
  PROVE  Climbs(a, b, k) /\ Climbs(b, c, k) => Climbs(a, c, k)
BY PTL DEF Climbs

\* No induction: the polls are added up by doubling.
LEMMA SixtyFourPolls ==
  ASSUME NEW k \in Keys
  PROVE  Answered => Climbs(0, 64, k)
<1>1. Answered => \A n \in Nat : Climbs(n, n + 1, k)
  BY OnePoll
<1>2. (\A n \in Nat : Climbs(n, n + 1, k)) => \A n \in Nat : Climbs(n, n + 2, k)
  BY ClimbsOn
<1>3. (\A n \in Nat : Climbs(n, n + 2, k)) => \A n \in Nat : Climbs(n, n + 4, k)
  BY ClimbsOn
<1>4. (\A n \in Nat : Climbs(n, n + 4, k)) => \A n \in Nat : Climbs(n, n + 8, k)
  BY ClimbsOn
<1>5. (\A n \in Nat : Climbs(n, n + 8, k)) => \A n \in Nat : Climbs(n, n + 16, k)
  BY ClimbsOn
<1>6. (\A n \in Nat : Climbs(n, n + 16, k)) => \A n \in Nat : Climbs(n, n + 32, k)
  BY ClimbsOn
<1>7. (\A n \in Nat : Climbs(n, n + 32, k)) => Climbs(0, 32, k) /\ Climbs(32, 64, k)
  OBVIOUS
<1>8. Climbs(0, 32, k) /\ Climbs(32, 64, k) => Climbs(0, 64, k)
  BY ClimbsOn
<1> QED
  BY <1>1, <1>2, <1>3, <1>4, <1>5, <1>6, <1>7, <1>8

\* A key that has left is offered for removal, whatever list was under way, with
\* its hub or from a hub that stays (_track_orphaned_keys, _track_missing_hubs).
\* The code's windows are 3 and 30 polls.
THEOREM DepartureOffers ==
  ASSUME AbsentDebounce + OrphanDebounce < 64
  PROVE  Answered => DepartureIsOffered
<1>1. ASSUME NEW k \in Keys
      PROVE  Answered => (Left(k) ~> Due(k))
  <2>1. Answered => (Left(k) ~> Known(0, k))
    BY ListBecomesCurrent
  <2>2. Answered => Climbs(0, 64, k)
    BY SixtyFourPolls
  <2>3. Enumerated /\ Known(64, k) => Due(k)
    <3>1. Enumerated /\ Known(64, k) => gonePolls[k] = OrphanDebounce
      BY ToldBounds, EnumerationAssumption, AbsentDebounceAssumption DEF Known
    <3> QED
      BY <3>1 DEF Enumerated, AgedExactlyWhenTold, Due, Left, Known
  <2> QED
    BY <2>1, <2>2, <2>3, EnumeratedHolds, PTL DEF Answered, FairSpec, Climbs
<1>2. Answered => \A k \in Keys : (Left(k) ~> Due(k))
  BY <1>1
<1> QED
  BY <1>2 DEF DepartureIsOffered, Left, Due

=============================================================================
