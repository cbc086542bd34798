---------------------- MODULE SensorEnumeration_proofs ----------------------
(***************************************************************************)
(* Theorems about SensorEnumeration, for every set of hubs and keys and    *)
(* every debounce.  One inductive invariant, Enumerated, carries them all. *)
(***************************************************************************)
EXTENDS SensorEnumeration, TLAPS

-----------------------------------------------------------------------------
(* The operators the tail of a poll is built from.                         *)

\* A saturating counter counts up to its limit and stays there.
LEMMA BumpStep ==
  ASSUME NEW limit \in Nat, NEW n \in 0 .. limit
  PROVE  /\ Bump(n, limit) \in 0 .. limit
         /\ n < limit => Bump(n, limit) = n + 1
         /\ n = limit => Bump(n, limit) = limit
         /\ limit > 0 => Bump(n, limit) > 0
BY DEF Bump

\* What one poll can answer: keys of listed hubs, readings of hubs that answered.
Answer(L, S, dark, heard) ==
    /\ L \subseteq Hubs
    /\ S \subseteq Children(L)
    /\ dark \subseteq L
    /\ heard \subseteq S \ Children(dark)

\* The tail of a poll always runs on such an answer.
LEMMA TailAnswers ==
  ASSUME TypeOK, NEW dark \in SUBSET listed, NEW heard \in SUBSET ((subs \ Children(dark)) \ mute)
  PROVE  Answer(listed, subs, dark, heard)
BY DEF Answer, TypeOK

\* A hub hidden inside its window is not listed.
LEMMA GoneUnlisted ==
  ASSUME TypeOK, NEW L \in SUBSET Hubs
  PROVE  Gone(L) \subseteq lastHubs \ L /\ Gone(L) \subseteq Hubs
BY DEF Gone, Provisional, TypeOK

\* The silent debounce of a poll: reset by a reading, counted for a key that was
\* listed and not mentioned, and otherwise left alone.
LEMMA CountedStep ==
  ASSUME TypeOK, NEW L, NEW S, NEW dark, NEW heard, Answer(L, S, dark, heard), NEW k \in Keys
  PROVE  LET c == Counted(S, dark, heard)[k]
         IN  /\ c \in 0 .. SilentDebounce
             /\ k \in heard => c = 0
             /\ k \in Quiet(S, dark, heard) => c = Bump(silent[k], SilentDebounce)
             /\ k \notin heard \cup Quiet(S, dark, heard) => c = silent[k]
             /\ k \in heard => k \notin Quiet(S, dark, heard)
             /\ silent[k] = SilentDebounce /\ k \notin heard => c = SilentDebounce
<1>1. silent[k] \in 0 .. SilentDebounce /\ SilentDebounce \in Nat
  BY EnumerationAssumption DEF TypeOK
<1> QED
  BY <1>1, BumpStep DEF Counted, Quiet

\* Pruning keeps the counter of every key that is listed or hidden.
LEMMA PrunedStep ==
  ASSUME TypeOK, NEW L, NEW S, NEW dark, NEW heard, Answer(L, S, dark, heard), NEW k \in Keys
  PROVE  LET c == Counted(S, dark, heard)
             p == Pruned(L, S, c)[k]
         IN  /\ p \in 0 .. SilentDebounce
             /\ k \in S => p = c[k]
             /\ HubOf[k] \in Gone(L) => p = c[k]
             /\ p = 0 \/ p = c[k]
<1>1. Counted(S, dark, heard)[k] \in 0 .. SilentDebounce /\ SilentDebounce \in Nat
  BY CountedStep, EnumerationAssumption
<1>2. CASE k \in S \cup Protected(L, Counted(S, dark, heard))
  BY <1>1, <1>2 DEF Pruned
<1>3. CASE k \notin S \cup Protected(L, Counted(S, dark, heard))
  BY <1>1, <1>3 DEF Pruned, Protected, Children
<1> QED
  BY <1>2, <1>3

\* What a poll shows: a reading for what was heard, nothing that is not listed,
\* and a silence exactly for a listed key whose debounce is full.
LEMMA DecodedStep ==
  ASSUME TypeOK, NEW L, NEW S, NEW dark, NEW heard, Answer(L, S, dark, heard), NEW k \in Keys
  PROVE  LET d == Decoded(S, dark, heard)[k]
         IN  /\ d \in Kept \cup {"none"}
             /\ d = "reading" <=> k \in heard
             /\ k \notin S => d = "none"
             /\ d \in Silences <=> /\ k \in Quiet(S, dark, heard)
                                   /\ Counted(S, dark, heard)[k] >= SilentDebounce
<1>1. k \in heard => k \in S /\ k \notin Quiet(S, dark, heard)
  BY DEF Answer, Quiet
<1>2. Silence(k) \in Silences
  BY DEF Silence, Silences
<1> QED
  BY <1>1, <1>2 DEF Decoded, Kept, Silences, Quiet

-----------------------------------------------------------------------------
(* Type correctness.                                                       *)

\* The memories that only a non-empty list moves keep their types.
LEMMA TrackListsType ==
  ASSUME TypeOK, NEW L, NEW S, NEW dark, NEW heard, Answer(L, S, dark, heard), TrackLists(L, S)
  PROVE  /\ lastHubs' \subseteq Hubs
         /\ absent' \in [Hubs -> 0 .. AbsentDebounce]
         /\ lastKeys' \subseteq Keys
         /\ orphan' \in [Keys -> 0 .. OrphanDebounce]
         /\ aged' \subseteq Keys
         /\ enumerated' \subseteq Keys
         /\ hubRun' \in [Hubs -> 0 .. AbsentDebounce + 1]
         /\ gonePolls' \in [Keys -> 0 .. OrphanDebounce]
<1>1. S \subseteq Keys /\ L \subseteq Hubs /\ Missing(S) \subseteq Keys
  BY DEF Answer, Children, Missing, TypeOK
<1>2. lastHubs' \subseteq Hubs /\ absent' \in [Hubs -> 0 .. AbsentDebounce]
  BY <1>1, AbsentDebounceAssumption
     DEF TrackLists, TypeOK, AbsentCounts, Remembered, Provisional
<1>3. lastKeys' \subseteq Keys /\ aged' \subseteq Keys /\ enumerated' \subseteq Keys
  BY <1>1 DEF TrackLists, AgedOut
<1>4. \A k \in Keys : OrphanCounts(L, S)[k] \in 0 .. OrphanDebounce
  BY BumpStep, EnumerationAssumption DEF OrphanCounts, TypeOK
<1>5. orphan' \in [Keys -> 0 .. OrphanDebounce]
  BY <1>4 DEF TrackLists, OrphanCounts
<1>6. AbsentDebounce + 1 \in Nat
  BY AbsentDebounceAssumption
<1>7. \A h \in Hubs : HubRuns(L)[h] \in 0 .. AbsentDebounce + 1
  BY <1>6, BumpStep DEF HubRuns, TypeOK
<1>8. hubRun' \in [Hubs -> 0 .. AbsentDebounce + 1]
  BY <1>7 DEF TrackLists, HubRuns
<1>9. gonePolls' \in [Keys -> 0 .. OrphanDebounce]
  BY BumpStep, EnumerationAssumption DEF TrackLists, TypeOK
<1> QED
  BY <1>2, <1>3, <1>5, <1>8, <1>9

\* The tail reconciles, or finds an empty list with something to protect.
LEMMA TailCases ==
  ASSUME TypeOK, NEW L, NEW S, NEW dark, NEW heard, Finish(L, S, dark, heard)
  PROVE  \/ /\ Reconcile(L, S, dark, heard)
            /\ L # {} \/ \A k \in Keys : silent[k] = 0
         \/ /\ L = {}
            /\ UNCHANGED <<silent, track, issues>>
<1>1. PICK window \in WindowRunning :
         IF L # {} \/ ~Tracking(window)
         THEN Reconcile(L, S, dark, heard)
         ELSE UNCHANGED <<silent, track, issues>>
  BY DEF Finish
<1>2. ~Tracking(window) => \A k \in Keys : silent[k] = 0
  BY EnumerationAssumption DEF Tracking, TypeOK
<1> QED
  BY <1>1, <1>2

\* The manager's set and the registry hold keys only.
LEMMA SyncIssuesType ==
  ASSUME active \subseteq Keys, cards \subseteq Keys,
         NEW raise \in SUBSET Keys, NEW clear, NEW hold, SyncIssues(raise, clear, hold)
  PROVE  active' \subseteq Keys /\ cards' \subseteq Keys
BY DEF SyncIssues

\* The tail of a poll, whichever answer it ends with.
LEMMA FinishType ==
  ASSUME TypeOK, NEW L, NEW S, NEW dark, NEW heard, Answer(L, S, dark, heard),
         Finish(L, S, dark, heard)
  PROVE  TypeOK'
<1> DEFINE count == Counted(S, dark, heard)
           shown == Decoded(S, dark, heard)
<1>1. S \subseteq Keys /\ heard \subseteq Keys
  BY DEF Answer, Children
<1>2. silent' \in [Keys -> 0 .. SilentDebounce]
  <2>1. CASE Reconcile(L, S, dark, heard)
    <3>1. silent' = Pruned(L, S, count)
      BY <2>1 DEF Reconcile
    <3>2. \A k \in Keys : Pruned(L, S, count)[k] \in 0 .. SilentDebounce
      BY PrunedStep
    <3> QED
      BY <3>1, <3>2 DEF Pruned
  <2>2. CASE UNCHANGED silent
    BY <2>2 DEF TypeOK
  <2> QED
    BY <2>1, <2>2, TailCases
<1>3. /\ lastHubs' \subseteq Hubs
      /\ absent' \in [Hubs -> 0 .. AbsentDebounce]
      /\ lastKeys' \subseteq Keys
      /\ orphan' \in [Keys -> 0 .. OrphanDebounce]
      /\ aged' \subseteq Keys
      /\ enumerated' \subseteq Keys
      /\ hubRun' \in [Hubs -> 0 .. AbsentDebounce + 1]
      /\ gonePolls' \in [Keys -> 0 .. OrphanDebounce]
  <2>1. CASE TrackLists(L, S)
    BY <2>1, TrackListsType
  <2>2. CASE UNCHANGED track
    BY <2>2 DEF TypeOK, track
  <2> QED
    BY <2>1, <2>2, TailCases DEF Reconcile
<1>4. active' \subseteq Keys /\ cards' \subseteq Keys
  <2>1. CASE Reconcile(L, S, dark, heard)
    <3>1. SyncIssues(SilentRecords(shown), heard, Unreachable(L, S, dark, count))
      BY <2>1 DEF Reconcile
    <3>2. SilentRecords(shown) \subseteq Keys
      BY DEF SilentRecords
    <3> QED
      BY <3>1, <3>2, SyncIssuesType DEF TypeOK
  <2>2. CASE UNCHANGED issues
    BY <2>2 DEF TypeOK, issues
  <2> QED
    BY <2>1, <2>2, TailCases
<1>5. sensors' \in [Keys -> Kept \cup {"none"}]
  <2>1. sensors' = shown
    BY DEF Finish
  <2>2. \A k \in Keys : shown[k] \in Kept \cup {"none"}
    BY DecodedStep
  <2> QED
    BY <2>1, <2>2 DEF Decoded
<1>6. quiet' \in [Keys -> 0 .. SilentDebounce]
  <2>1. SilentDebounce \in Nat
    BY EnumerationAssumption
  <2>2. \A k \in Keys : Bump(quiet[k], SilentDebounce) \in 0 .. SilentDebounce
    BY <2>1, BumpStep DEF TypeOK
  <2> QED
    BY <2>1, <2>2 DEF Finish
<1>7. /\ phase' = "idle" /\ listed' = {} /\ subs' = {} /\ dataKeys' = S
      /\ UNCHANGED cloud
  BY DEF Finish
<1> QED
  BY <1>1, <1>2, <1>3, <1>4, <1>5, <1>6, <1>7 DEF TypeOK, cloud

\* The first coordinator of a session has every variable in its type.
LEMMA InitType == Init => TypeOK
<1> SUFFICES ASSUME Init
             PROVE  TypeOK
  OBVIOUS
<1>1. 0 \in 0 .. SilentDebounce /\ 0 \in 0 .. OrphanDebounce
  BY EnumerationAssumption
<1>2. 0 \in 0 .. AbsentDebounce /\ 0 \in 0 .. AbsentDebounce + 1
  BY AbsentDebounceAssumption
<1>3. /\ silent \in [Keys -> 0 .. SilentDebounce]
      /\ quiet \in [Keys -> 0 .. SilentDebounce]
      /\ orphan \in [Keys -> 0 .. OrphanDebounce]
      /\ gonePolls \in [Keys -> 0 .. OrphanDebounce]
  BY <1>1 DEF Init
<1>4. absent \in [Hubs -> 0 .. AbsentDebounce] /\ hubRun \in [Hubs -> 0 .. AbsentDebounce + 1]
  BY <1>2 DEF Init
<1>5. sensors \in [Keys -> Kept \cup {"none"}]
  BY DEF Init
<1> QED
  BY <1>3, <1>4, <1>5 DEF Init, TypeOK

\* A poll that has its list and waits for the statuses.
Begins ==
    /\ phase' = "status"
    /\ listed' \subseteq Hubs
    /\ subs' \subseteq Children(listed')
    /\ UNCHANGED <<cloud, dataKeys, sensors, silent, track, issues, quiet>>

\* A step of a poll begins to wait, or is a tail on what some poll can answer.
LEMMA PollCases ==
  ASSUME TypeOK, Poll
  PROVE  \/ \E L, S, dark, heard : Answer(L, S, dark, heard) /\ Finish(L, S, dark, heard)
         \/ Begins
<1>1. CASE PollList
  <2>1. PICK L \in SUBSET account :
           \E S \in SUBSET (paired \cap Children(L)) :
              IF L = {}
              THEN Finish({}, {}, {}, {})
              ELSE /\ phase' = "status"
                   /\ listed' = L
                   /\ subs' = S
                   /\ UNCHANGED <<cloud, dataKeys, sensors, silent, track, issues, quiet>>
    BY <1>1 DEF PollList
  <2>2. PICK S \in SUBSET (paired \cap Children(L)) :
              IF L = {}
              THEN Finish({}, {}, {}, {})
              ELSE /\ phase' = "status"
                   /\ listed' = L
                   /\ subs' = S
                   /\ UNCHANGED <<cloud, dataKeys, sensors, silent, track, issues, quiet>>
    BY <2>1
  <2>3. CASE L = {}
    <3>1. Answer({}, {}, {}, {})
      BY DEF Answer
    <3> QED
      BY <2>2, <2>3, <3>1
  <2>4. CASE L # {}
    BY <2>2, <2>4 DEF Begins, TypeOK
  <2> QED
    BY <2>3, <2>4
<1>2. CASE PollTail
  <2>1. PICK dark \in SUBSET listed :
           \E heard \in SUBSET ((subs \ Children(dark)) \ mute) : Finish(listed, subs, dark, heard)
    BY <1>2 DEF PollTail
  <2>2. PICK heard \in SUBSET ((subs \ Children(dark)) \ mute) : Finish(listed, subs, dark, heard)
    BY <2>1
  <2>3. Answer(listed, subs, dark, heard)
    BY TailAnswers
  <2> QED
    BY <2>2, <2>3
<1> QED
  BY <1>1, <1>2 DEF Poll

\* Every step keeps every type.
LEMMA NextType == TypeOK /\ [Next]_vars => TypeOK'
<1> SUFFICES ASSUME TypeOK, [Next]_vars
             PROVE  TypeOK'
  OBVIOUS
<1>1. CASE \E L, S, dark, heard : Answer(L, S, dark, heard) /\ Finish(L, S, dark, heard)
  BY <1>1, FinishType
<1>2. CASE Begins
  BY <1>2 DEF Begins, TypeOK, cloud, track, issues
<1>3. CASE PollFails
  BY <1>3 DEF PollFails, TypeOK, cloud, track, issues
<1>4. CASE \E k \in dataKeys : PushReading(k)
  <2>1. PICK k \in dataKeys : PushReading(k)
    BY <1>4
  <2>2. k \in Keys /\ SilentDebounce \in Nat
    BY EnumerationAssumption DEF TypeOK
  <2> QED
    BY <2>1, <2>2 DEF PushReading, TypeOK, Kept, cloud, poll, track
<1>5. CASE \E end \in SessionEnds : NewSession(end)
  BY <1>5, EnumerationAssumption, AbsentDebounceAssumption
     DEF NewSession, TypeOK, Kept, cloud, Children
<1>6. CASE \E k \in Keys : DeviceChanges(k)
  BY <1>6 DEF DeviceChanges, TypeOK, poll, track, issues
<1>7. CASE \E h \in Hubs : HubChanges(h)
  BY <1>7 DEF HubChanges, TypeOK, poll, track, issues
<1>8. CASE Stabilise
  BY <1>8 DEF Stabilise, TypeOK, poll, track, issues
<1>9. CASE UNCHANGED vars
  BY <1>9 DEF vars, TypeOK, cloud, poll, track, issues
<1> QED
  BY <1>1, <1>2, <1>3, <1>4, <1>5, <1>6, <1>7, <1>8, <1>9, PollCases DEF Next

\* Every variable keeps its type, for any hubs, keys and debounces.
THEOREM TypeCorrect == Spec => []TypeOK
<1> QED
  BY InitType, NextType, PTL DEF Spec

-----------------------------------------------------------------------------
(* The inductive invariant.                                                *)

\* A key is counted silent no longer than it has been quiet.
CountedWhileQuiet == \A k \in Keys : silent[k] <= quiet[k]

\* For a remembered hub the code's absence counter is its run of lists without it.
RunsAgree == \A h \in lastHubs : absent[h] = hubRun[h]

\* The hub of a remembered key is remembered too, or has been released, and the
\* removal count is the number of lists that told that the key is gone.
KeysTold ==
    \A k \in lastKeys :
        /\ HubOf[k] \in lastHubs \/ hubRun[HubOf[k]] = AbsentDebounce + 1
        /\ orphan[k] = gonePolls[k]

\* Cards stand over remembered keys only.
CardsAreKnown == active \subseteq lastKeys

\* The snapshot is the last list's: the hubs of its keys were on it.
DataIsCurrent == \A k \in dataKeys : hubRun[HubOf[k]] = 0

Enumerated ==
    /\ TypeOK
    /\ CountedWhileQuiet
    /\ RunsAgree
    /\ KeysTold
    /\ CardsAreKnown
    /\ DataIsCurrent
    /\ CardMeansSilent
    /\ NoCardOverReading
    /\ NoCardForDepartedKey
    /\ AgedExactlyWhenTold
    /\ AgedKeysAreGone

\* An empty list answers for nothing.
LEMMA EmptyAnswer ==
  ASSUME NEW L, NEW S, NEW dark, NEW heard, Answer(L, S, dark, heard), L = {}
  PROVE  S = {} /\ dark = {} /\ heard = {} /\ Gone(L) = {}
BY DEF Answer, Children, Gone

\* A non-empty list takes each hub one step: listed, hidden, released or unknown.
LEMMA HubStep ==
  ASSUME TypeOK, RunsAgree, NEW L \in SUBSET Hubs, L # {}, NEW S, TrackLists(L, S), NEW h \in Hubs
  PROVE  /\ hubRun' = HubRuns(L)
         /\ h \in lastHubs' <=> h \in L \cup Gone(L)
         /\ h \in L => absent'[h] = 0 /\ hubRun'[h] = 0
         /\ h \in Gone(L) => /\ absent'[h] = hubRun'[h]
                             /\ hubRun'[h] \in 1 .. AbsentDebounce
         /\ h \in lastHubs \ (L \cup Gone(L)) => hubRun'[h] = AbsentDebounce + 1
         /\ hubRun[h] = AbsentDebounce + 1 /\ h \notin L => hubRun'[h] = AbsentDebounce + 1
         /\ h \notin L => hubRun'[h] > 0
<1>1. /\ absent[h] \in 0 .. AbsentDebounce
      /\ hubRun[h] \in 0 .. AbsentDebounce + 1
      /\ AbsentDebounce \in Nat
      /\ h \in lastHubs => absent[h] = hubRun[h]
  BY AbsentDebounceAssumption DEF TypeOK, RunsAgree
<1>2. /\ hubRun' = HubRuns(L)
      /\ hubRun'[h] = IF h \in L THEN 0 ELSE Bump(hubRun[h], AbsentDebounce + 1)
  BY DEF TrackLists, HubRuns
<1>3. Gone(L) = {g \in lastHubs \ L : absent[g] + 1 <= AbsentDebounce}
  BY DEF Gone, Provisional
<1>4. /\ absent'[h] = IF h \in Gone(L) THEN absent[h] + 1
                      ELSE IF h \in L \cup lastHubs THEN 0 ELSE absent[h]
      /\ lastHubs' = L \cup Gone(L)
  BY DEF TrackLists, AbsentCounts, Remembered, Gone
<1> QED
  BY <1>1, <1>2, <1>3, <1>4 DEF Bump

\* What a poll that reconciles does to the manager's set: full debounces are
\* added, readings leave, and the rest stays only where the poll could not see.
LEMMA SyncIssuesStep ==
  ASSUME NEW raise, NEW clear, NEW hold, SyncIssues(raise, clear, hold), raise \cap clear = {}
  PROVE  /\ active' = raise \cup ((active \cap hold) \ clear)
         /\ cards' \subseteq cards \cup raise
         /\ cards' \cap clear = {}
BY DEF SyncIssues

\* Which cards of this session stand after a poll that reconciles.
LEMMA CardStep ==
  ASSUME Enumerated, NEW L, NEW S, NEW dark, NEW heard, Answer(L, S, dark, heard),
         Reconcile(L, S, dark, heard), NEW k \in Keys
  PROVE  LET full == k \in Quiet(S, dark, heard) /\ Counted(S, dark, heard)[k] = SilentDebounce
         IN  /\ k \in active' <=>
                  \/ full
                  \/ k \in active /\ k \in S \cap Children(dark)
                  \/ k \in active /\ HubOf[k] \in Gone(L)
             /\ k \in cards' => k \notin heard
<1> DEFINE count == Counted(S, dark, heard)
           raise == SilentRecords(Decoded(S, dark, heard))
           hold  == Unreachable(L, S, dark, count)
<1>1. SyncIssues(raise, heard, hold)
  BY DEF Reconcile
<1>2. \A j \in Keys : j \in raise <=> j \in Quiet(S, dark, heard) /\ count[j] = SilentDebounce
  BY DecodedStep, CountedStep, EnumerationAssumption DEF SilentRecords, Enumerated
<1>3. raise \cap heard = {}
  BY <1>2 DEF Quiet, Answer, Children, SilentRecords
<1>4. /\ active' = raise \cup ((active \cap hold) \ heard)
      /\ cards' \cap heard = {}
  BY <1>1, <1>3, SyncIssuesStep
<1>5. ASSUME k \in active
      PROVE  k \in hold <=> k \in S \cap Children(dark) \/ (HubOf[k] \in Gone(L) /\ count[k] > 0)
  BY DEF Unreachable, Protected, Children
<1>6. ASSUME k \in active, HubOf[k] \in Gone(L)
      PROVE  k \notin heard /\ count[k] > 0
  <2>1. k \notin S
    BY <1>6, GoneUnlisted DEF Answer, Children, Enumerated
  <2>2. silent[k] = SilentDebounce /\ SilentDebounce > 0
    BY <1>6, EnumerationAssumption DEF Enumerated, CardMeansSilent
  <2>3. count[k] = silent[k] /\ k \notin heard
    BY <2>1, CountedStep DEF Enumerated, Quiet, Answer
  <2> QED
    BY <2>2, <2>3
<1>7. k \in Children(dark) => k \notin heard
  BY DEF Answer
<1> QED
  BY <1>2, <1>4, <1>5, <1>6, <1>7

\* Whether a list tells that a key is gone is whether the code counts it.
LEMMA TellingIsCounting ==
  ASSUME Enumerated, NEW L, NEW S, NEW dark, NEW heard, Answer(L, S, dark, heard),
         L # {}, TrackLists(L, S), NEW k \in Missing(S)
  PROVE  Telling(L, k) <=> k \notin Frozen(L, S)
<1> DEFINE h == HubOf[k]
<1>1. k \in Keys /\ h \in Hubs /\ k \in lastKeys
  BY EnumerationAssumption DEF Missing, Enumerated, TypeOK
<1>2. /\ hubRun' = HubRuns(L)
      /\ h \in Gone(L) => hubRun'[h] \in 1 .. AbsentDebounce
      /\ h \in lastHubs \ (L \cup Gone(L)) => hubRun'[h] = AbsentDebounce + 1
      /\ hubRun[h] = AbsentDebounce + 1 /\ h \notin L => hubRun'[h] = AbsentDebounce + 1
  BY <1>1, HubStep DEF Enumerated, Answer
<1>3. h \in lastHubs \/ hubRun[h] = AbsentDebounce + 1
  BY <1>1 DEF Enumerated, KeysTold
<1>4. h \in Gone(L) => h \notin L
  BY GoneUnlisted DEF Enumerated, Answer
<1>5. k \in Frozen(L, S) <=> h \in Gone(L)
  BY <1>1 DEF Frozen, Children
<1> QED
  BY <1>2, <1>3, <1>4, <1>5, AbsentDebounceAssumption DEF Telling

-----------------------------------------------------------------------------
(* The tail of a poll keeps the invariant.                                 *)

\* The hub memories and the removal count stay in step with what lists told.
LEMMA TrackListsHolds ==
  ASSUME Enumerated, NEW L, NEW S, NEW dark, NEW heard, Answer(L, S, dark, heard),
         L # {}, TrackLists(L, S)
  PROVE  /\ RunsAgree'
         /\ KeysTold'
         /\ AgedExactlyWhenTold'
         /\ lastKeys \subseteq lastKeys' /\ S \subseteq lastKeys'
         /\ \A k \in S : hubRun'[HubOf[k]] = 0
<1>1. /\ L \subseteq Hubs /\ S \subseteq Keys /\ lastKeys \subseteq Keys
      /\ \A k \in S : HubOf[k] \in L
      /\ \A k \in Keys : HubOf[k] \in Hubs
  BY EnumerationAssumption DEF Answer, Children, Enumerated, TypeOK
<1>2. RunsAgree'
  <2> SUFFICES ASSUME NEW h \in lastHubs'
               PROVE  absent'[h] = hubRun'[h]
    BY DEF RunsAgree
  <2>1. TypeOK /\ RunsAgree /\ h \in Hubs
    BY TrackListsType DEF Enumerated
  <2>2. /\ h \in L \cup Gone(L)
        /\ h \in L => absent'[h] = 0 /\ hubRun'[h] = 0
        /\ h \in Gone(L) => absent'[h] = hubRun'[h]
    BY <1>1, <2>1, HubStep
  <2> QED
    BY <2>2
<1>3. /\ lastKeys' = S \cup Missing(S)
      /\ lastKeys \subseteq lastKeys'
      /\ Missing(S) = lastKeys \ S
  BY DEF TrackLists, Missing
<1>4. \A k \in S : hubRun'[HubOf[k]] = 0 /\ HubOf[k] \in lastHubs'
  BY <1>1, HubStep DEF Enumerated
<1>5. ASSUME NEW k \in lastKeys'
      PROVE  HubOf[k] \in lastHubs' \/ hubRun'[HubOf[k]] = AbsentDebounce + 1
  <2>1. CASE k \in S
    BY <1>4, <2>1
  <2>2. CASE k \in Missing(S)
    <3>1. HubOf[k] \in Hubs /\ (HubOf[k] \in lastHubs \/ hubRun[HubOf[k]] = AbsentDebounce + 1)
      BY <1>1, <1>3, <2>2 DEF Enumerated, KeysTold
    <3> QED
      BY <1>1, <3>1, HubStep DEF Enumerated
  <2> QED
    BY <1>3, <1>5, <2>1, <2>2
<1>6. ASSUME NEW k \in lastKeys'
      PROVE  orphan'[k] = gonePolls'[k]
  <2>1. k \in Keys
    BY <1>1, <1>3, <1>6
  <2>2. CASE k \in S
    BY <2>1, <2>2 DEF TrackLists, OrphanCounts
  <2>3. CASE k \in Missing(S)
    <3>1. orphan[k] = gonePolls[k] /\ k \in lastKeys /\ k \notin S
      BY <1>3, <2>3 DEF Enumerated, KeysTold
    <3>2. orphan'[k] = IF k \in Frozen(L, S) THEN orphan[k] ELSE Bump(orphan[k], OrphanDebounce)
      BY <2>1, <2>3, <3>1 DEF TrackLists, OrphanCounts
    <3>3. gonePolls'[k] = IF Telling(L, k) THEN Bump(gonePolls[k], OrphanDebounce) ELSE gonePolls[k]
      BY <2>1, <3>1 DEF TrackLists
    <3> QED
      BY <2>3, <3>1, <3>2, <3>3, TellingIsCounting
  <2> QED
    BY <1>3, <1>6, <2>2, <2>3
<1>7. KeysTold'
  BY <1>5, <1>6 DEF KeysTold
<1>8. AgedExactlyWhenTold'
  <2>1. \A k \in Missing(S) : OrphanCounts(L, S)[k] = gonePolls'[k]
    BY <1>3, <1>6 DEF TrackLists
  <2>2. \A k \in lastKeys' : gonePolls'[k] \in 0 .. OrphanDebounce
    BY <1>1, <1>3, TrackListsType DEF Enumerated
  <2>3. \A k \in S : gonePolls'[k] = 0
    BY <1>1 DEF TrackLists
  <2>4. OrphanDebounce \in Nat \ {0}
    BY EnumerationAssumption
  <2>5. aged' = {k \in Missing(S) : OrphanCounts(L, S)[k] >= OrphanDebounce}
    BY DEF TrackLists, AgedOut
  <2>6. \A k \in Missing(S) : OrphanCounts(L, S)[k] >= OrphanDebounce <=> gonePolls'[k] = OrphanDebounce
    BY <1>3, <2>1, <2>2, <2>4
  <2>7. \A k \in S : gonePolls'[k] # OrphanDebounce
    BY <2>3, <2>4
  <2> QED
    BY <1>3, <2>5, <2>6, <2>7 DEF AgedExactlyWhenTold
<1> QED
  BY <1>2, <1>3, <1>4, <1>7, <1>8

\* A reconcile that has a list, or nothing to protect, and the tail's own writes.
LEMMA FinishHolds ==
  ASSUME Enumerated, NEW L, NEW S, NEW dark, NEW heard, Answer(L, S, dark, heard),
         Finish(L, S, dark, heard)
  PROVE  Enumerated'
<1> DEFINE count == Counted(S, dark, heard)
           shown == Decoded(S, dark, heard)
<1>1. /\ dataKeys' = S
      /\ sensors' = shown
      /\ \A k \in Keys : quiet'[k] = IF k \in heard THEN 0 ELSE Bump(quiet[k], SilentDebounce)
      /\ S \subseteq Keys /\ heard \subseteq S
      /\ SilentDebounce \in Nat \ {0}
      /\ TypeOK
  BY EnumerationAssumption DEF Finish, Answer, Children, Enumerated
<1>2. TypeOK'
  BY FinishType DEF Enumerated
<1>3. \A k \in Keys : shown[k] = "reading" => k \in heard
  BY <1>1, DecodedStep
<1>4. \A k \in Keys : shown[k] # "none" => k \in S
  BY <1>1, DecodedStep
<1>5. \A k \in Keys : (count[k] <= quiet'[k] /\ silent[k] <= quiet'[k]) \/ k \in heard
  <2> SUFFICES ASSUME NEW k \in Keys, k \notin heard
               PROVE  count[k] <= quiet'[k] /\ silent[k] <= quiet'[k]
    OBVIOUS
  <2>1. /\ silent[k] \in 0 .. SilentDebounce /\ quiet[k] \in 0 .. SilentDebounce
        /\ silent[k] <= quiet[k]
    BY DEF Enumerated, TypeOK, CountedWhileQuiet
  <2>2. count[k] = Bump(silent[k], SilentDebounce) \/ count[k] = silent[k]
    BY <1>1, CountedStep
  <2>3. quiet'[k] = Bump(quiet[k], SilentDebounce)
    BY <1>1
  <2> QED
    BY <1>1, <2>1, <2>2, <2>3 DEF Bump
<1>6. CASE /\ L = {}
           /\ UNCHANGED <<silent, track, issues>>
  <2>1. S = {} /\ heard = {}
    BY <1>6, EmptyAnswer
  <2>2. /\ UNCHANGED <<silent, active, cards, lastHubs, absent, lastKeys, orphan, aged, enumerated>>
        /\ UNCHANGED <<hubRun, gonePolls>>
    BY <1>6 DEF track, issues
  <2>3. CountedWhileQuiet'
    BY <1>5, <2>1, <2>2 DEF CountedWhileQuiet
  <2>4. RunsAgree' /\ KeysTold' /\ CardsAreKnown' /\ AgedExactlyWhenTold' /\ CardMeansSilent'
    BY <2>2 DEF Enumerated, RunsAgree, KeysTold, CardsAreKnown, AgedExactlyWhenTold, CardMeansSilent
  <2>5. DataIsCurrent' /\ NoCardForDepartedKey'
    BY <1>1, <2>1, <2>2 DEF Enumerated, DataIsCurrent, NoCardForDepartedKey
  <2>6. NoCardOverReading'
    BY <1>1, <1>2, <1>3, <2>1 DEF NoCardOverReading, TypeOK
  <2>7. AgedKeysAreGone'
    BY <1>1, <1>4, <2>1, <2>2 DEF Enumerated, AgedKeysAreGone, Shown
  <2> QED
    BY <1>2, <2>3, <2>4, <2>5, <2>6, <2>7 DEF Enumerated
<1>7. CASE Reconcile(L, S, dark, heard) /\ (L # {} \/ \A k \in Keys : silent[k] = 0)
  <2>1. silent' = Pruned(L, S, count)
    BY <1>7 DEF Reconcile
  <2>2. CountedWhileQuiet'
    <3> SUFFICES ASSUME NEW k \in Keys
                 PROVE  silent'[k] <= quiet'[k]
      BY DEF CountedWhileQuiet
    <3>1. silent'[k] = 0 \/ silent'[k] = count[k]
      BY <1>1, <2>1, PrunedStep
    <3>2. quiet'[k] \in 0 .. SilentDebounce
      BY <1>2 DEF TypeOK
    <3>3. k \in heard => count[k] = 0
      BY <1>1, CountedStep
    <3> QED
      BY <1>1, <1>5, <3>1, <3>2, <3>3
  <2>3. CardMeansSilent'
    <3> SUFFICES ASSUME NEW k \in Keys, k \in active'
                 PROVE  silent'[k] = SilentDebounce
      BY <1>2 DEF CardMeansSilent, TypeOK
    <3>1. CASE k \in Quiet(S, dark, heard) /\ count[k] = SilentDebounce
      BY <1>1, <2>1, <3>1, PrunedStep DEF Quiet
    <3>2. CASE k \in active /\ (k \in S \cap Children(dark) \/ HubOf[k] \in Gone(L))
      <4>1. silent[k] = SilentDebounce
        BY <3>2 DEF Enumerated, CardMeansSilent
      <4>2. k \notin heard
        BY <3>2, GoneUnlisted, <1>1 DEF Answer, Children
      <4>3. count[k] = SilentDebounce
        BY <1>1, <4>1, <4>2, CountedStep
      <4> QED
        BY <1>1, <2>1, <3>2, <4>3, PrunedStep
    <3> QED
      BY <1>7, <3>1, <3>2, CardStep
  <2>4. NoCardOverReading'
    BY <1>1, <1>2, <1>3, <1>7, CardStep DEF NoCardOverReading, TypeOK
  <2>5. CASE L # {}
    <3>1. TrackLists(L, S)
      BY <1>7, <2>5 DEF Reconcile
    <3>2. /\ RunsAgree' /\ KeysTold' /\ AgedExactlyWhenTold'
          /\ lastKeys \subseteq lastKeys' /\ S \subseteq lastKeys'
          /\ \A k \in S : hubRun'[HubOf[k]] = 0
      BY <2>5, <3>1, TrackListsHolds
    <3>3. CardsAreKnown'
      BY <1>2, <1>7, <3>2, CardStep DEF CardsAreKnown, TypeOK, Quiet, Enumerated
    <3>4. DataIsCurrent'
      BY <1>1, <3>2 DEF DataIsCurrent
    <3>5. NoCardForDepartedKey'
      <4> SUFFICES ASSUME NEW k \in Keys, k \in active'
                   PROVE  gonePolls'[k] = 0
        BY <1>2 DEF NoCardForDepartedKey, TypeOK
      <4>1. CASE k \in S
        BY <3>1, <4>1 DEF TrackLists
      <4>2. CASE k \notin S
        <5>1. k \in active /\ HubOf[k] \in Gone(L)
          BY <1>7, <4>2, CardStep DEF Quiet
        <5>2. k \in Missing(S) /\ k \in Frozen(L, S) /\ gonePolls[k] = 0
          BY <4>2, <5>1 DEF Missing, Frozen, Children, Enumerated, CardsAreKnown, NoCardForDepartedKey
        <5>3. ~Telling(L, k)
          BY <2>5, <3>1, <5>2, TellingIsCounting
        <5> QED
          BY <3>1, <4>2, <5>2, <5>3 DEF TrackLists
      <4> QED
        BY <4>1, <4>2
    <3>6. AgedKeysAreGone'
      <4>1. aged' \cap S = {} /\ enumerated' = S
        BY <3>1 DEF TrackLists, AgedOut, Missing
      <4>2. \A k \in Keys : sensors'[k] # "none" => k \in S
        BY <1>1, <1>4
      <4> QED
        BY <1>1, <4>1, <4>2 DEF AgedKeysAreGone, Shown
    <3> QED
      BY <1>2, <2>2, <2>3, <2>4, <3>2, <3>3, <3>4, <3>5, <3>6 DEF Enumerated
  <2>6. CASE L = {}
    <3>1. S = {} /\ heard = {} /\ Gone(L) = {}
      BY <2>6, EmptyAnswer
    <3>2. active' = {}
      BY <1>2, <1>7, <3>1, CardStep DEF TypeOK, Quiet
    <3>3. UNCHANGED <<lastHubs, absent, lastKeys, orphan, aged, enumerated, hubRun, gonePolls>>
      BY <1>7, <2>6 DEF Reconcile, track
    <3>4. RunsAgree' /\ KeysTold' /\ AgedExactlyWhenTold'
      BY <3>3 DEF Enumerated, RunsAgree, KeysTold, AgedExactlyWhenTold
    <3>5. CardsAreKnown' /\ DataIsCurrent' /\ NoCardForDepartedKey'
      BY <1>1, <3>1, <3>2 DEF CardsAreKnown, DataIsCurrent, NoCardForDepartedKey
    <3>6. AgedKeysAreGone'
      BY <1>1, <1>4, <3>1, <3>3 DEF Enumerated, AgedKeysAreGone, Shown
    <3> QED
      BY <1>2, <2>2, <2>3, <2>4, <3>4, <3>5, <3>6 DEF Enumerated
  <2> QED
    BY <2>5, <2>6
<1> QED
  BY <1>1, <1>6, <1>7, TailCases

-----------------------------------------------------------------------------
(* Every step keeps the invariant.                                         *)

\* A new session starts with nothing remembered, counted or shown.
LEMMA EmptyHolds ==
  ASSUME TypeOK', dataKeys' = {}, lastHubs' = {}, lastKeys' = {}, aged' = {}, active' = {},
         silent' = [k \in Keys |-> 0], quiet' = [k \in Keys |-> 0],
         sensors' = [k \in Keys |-> "none"]
  PROVE  Enumerated'
<1>1. CountedWhileQuiet'
  BY DEF CountedWhileQuiet
<1>2. NoCardOverReading'
  BY DEF NoCardOverReading, TypeOK
<1> QED
  BY <1>1, <1>2
     DEF Enumerated, RunsAgree, KeysTold, CardsAreKnown, DataIsCurrent, CardMeansSilent,
         NoCardForDepartedKey, AgedExactlyWhenTold, AgedKeysAreGone

\* A pushed reading moves one key's entry, counter and card, all together.
LEMMA PushHolds ==
  ASSUME Enumerated, TypeOK', NEW k \in dataKeys, PushReading(k)
  PROVE  Enumerated'
<1>1. /\ k \in Keys
      /\ sensors' = [sensors EXCEPT ![k] = "reading"]
      /\ silent' = [silent EXCEPT ![k] = 0]
      /\ quiet' = [quiet EXCEPT ![k] = 0]
      /\ active' = active \ {k}
      /\ cards' = cards \ {k}
      /\ UNCHANGED dataKeys
      /\ UNCHANGED <<lastHubs, absent, lastKeys, orphan, aged, enumerated, hubRun, gonePolls>>
      /\ silent \in [Keys -> 0 .. SilentDebounce]
      /\ quiet \in [Keys -> 0 .. SilentDebounce]
      /\ sensors \in [Keys -> Kept \cup {"none"}]
      /\ active \subseteq Keys /\ cards \subseteq Keys
  BY DEF PushReading, Enumerated, TypeOK, track
<1>2. CountedWhileQuiet'
  BY <1>1 DEF Enumerated, CountedWhileQuiet
<1>3. RunsAgree' /\ KeysTold' /\ AgedExactlyWhenTold' /\ DataIsCurrent'
  BY <1>1 DEF Enumerated, RunsAgree, KeysTold, AgedExactlyWhenTold, DataIsCurrent
<1>4. CardsAreKnown' /\ NoCardForDepartedKey'
  BY <1>1 DEF Enumerated, CardsAreKnown, NoCardForDepartedKey
<1>5. CardMeansSilent'
  BY <1>1 DEF Enumerated, CardMeansSilent
<1>6. NoCardOverReading'
  BY <1>1 DEF Enumerated, NoCardOverReading
<1>7. AgedKeysAreGone'
  BY <1>1 DEF Enumerated, AgedKeysAreGone, Shown
<1> QED
  BY <1>2, <1>3, <1>4, <1>5, <1>6, <1>7 DEF Enumerated

\* Every other step leaves alone all that the invariant speaks of but types.
LEMMA QuietStep ==
  ASSUME Enumerated, TypeOK', UNCHANGED <<dataKeys, sensors, silent, track, issues, quiet>>
  PROVE  Enumerated'
BY DEF Enumerated, CountedWhileQuiet, RunsAgree, KeysTold, CardsAreKnown, DataIsCurrent,
       CardMeansSilent, NoCardOverReading, NoCardForDepartedKey, AgedExactlyWhenTold,
       AgedKeysAreGone, Shown, track, issues

\* What a step can be, as far as the invariant is concerned.
LEMMA StepCases ==
  ASSUME TypeOK, [Next]_vars
  PROVE  \/ \E L, S, dark, heard : Answer(L, S, dark, heard) /\ Finish(L, S, dark, heard)
         \/ \E k \in dataKeys : PushReading(k)
         \/ \E end \in SessionEnds : NewSession(end)
         \/ UNCHANGED <<dataKeys, sensors, silent, track, issues, quiet>>
<1>1. CASE Poll
  BY <1>1, PollCases DEF Begins
<1>2. CASE PollFails
  BY <1>2 DEF PollFails
<1>3. CASE \E k \in Keys : DeviceChanges(k)
  BY <1>3 DEF DeviceChanges
<1>4. CASE \E h \in Hubs : HubChanges(h)
  BY <1>4 DEF HubChanges
<1>5. CASE Stabilise
  BY <1>5 DEF Stabilise
<1>6. CASE UNCHANGED vars
  BY <1>6 DEF vars
<1> QED
  BY <1>1, <1>2, <1>3, <1>4, <1>5, <1>6 DEF Next

\* The invariant holds when a session starts.
LEMMA InitHolds == Init => Enumerated
<1> SUFFICES ASSUME Init
             PROVE  Enumerated
  OBVIOUS
<1>1. TypeOK
  BY InitType
<1> QED
  BY <1>1
     DEF Init, Enumerated, CountedWhileQuiet, RunsAgree, KeysTold, CardsAreKnown, DataIsCurrent,
         CardMeansSilent, NoCardOverReading, NoCardForDepartedKey, AgedExactlyWhenTold,
         AgedKeysAreGone

\* Every step keeps the invariant.
LEMMA NextHolds == Enumerated /\ [Next]_vars => Enumerated'
<1> SUFFICES ASSUME Enumerated, [Next]_vars
             PROVE  Enumerated'
  OBVIOUS
<1>1. TypeOK /\ TypeOK'
  BY NextType DEF Enumerated
<1>2. CASE \E L, S, dark, heard : Answer(L, S, dark, heard) /\ Finish(L, S, dark, heard)
  BY <1>2, FinishHolds
<1>3. CASE \E k \in dataKeys : PushReading(k)
  BY <1>1, <1>3, PushHolds
<1>4. CASE \E end \in SessionEnds : NewSession(end)
  BY <1>1, <1>4, EmptyHolds DEF NewSession
<1>5. CASE UNCHANGED <<dataKeys, sensors, silent, track, issues, quiet>>
  BY <1>1, <1>5, QuietStep
<1> QED
  BY <1>1, <1>2, <1>3, <1>4, <1>5, StepCases

\* The invariant, and with it its conjuncts.
LEMMA EnumeratedHolds == Spec => []Enumerated
BY InitHolds, NextHolds, PTL DEF Spec

-----------------------------------------------------------------------------
(* What the cards and the removal verdict rest on.                         *)

\* A card of this session stands only over a full debounce: whatever resets or
\* prunes the counter (_decode_hub_subdevices, _prune_silent_state,
\* apply_push_update) takes the card with it, and no outage wears it down.
THEOREM CardsRestOnCounts == Spec => []CardMeansSilent
BY EnumeratedHolds, PTL DEF Enumerated

\* Nothing was heard from a device under a card in its last SilentDebounce
\* polls, by poll or push, whatever outages came in between.
THEOREM CardsRestOnQuiet == Spec => []CardNeedsQuiet
<1>1. Enumerated => CardNeedsQuiet
  <2> SUFFICES ASSUME Enumerated, NEW k \in active
               PROVE  quiet[k] = SilentDebounce
    BY DEF CardNeedsQuiet
  <2>1. /\ k \in Keys /\ SilentDebounce \in Nat
        /\ silent[k] = SilentDebounce /\ silent[k] <= quiet[k]
        /\ quiet[k] \in 0 .. SilentDebounce
    BY EnumerationAssumption DEF Enumerated, TypeOK, CardMeansSilent, CountedWhileQuiet
  <2> QED
    BY <2>1
<1> QED
  BY <1>1, EnumeratedHolds, PTL

\* No reading is shown under a not-reporting card, whichever session raised it
\* (RainPointSilentDeviceIssues.async_sync and async_clear).
THEOREM ReadingsClearCards == Spec => []NoCardOverReading
BY EnumeratedHolds, PTL DEF Enumerated

\* A card of this session goes with its device, as soon as one list tells.
THEOREM CardsGoWithDevices == Spec => []NoCardForDepartedKey
BY EnumeratedHolds, PTL DEF Enumerated

\* A key is offered for removal exactly when OrphanDebounce lists have told that
\* it is gone (_track_orphaned_keys with the freeze of _track_missing_hubs).
THEOREM RemovalIsExact == Spec => []AgedExactlyWhenTold
BY EnumeratedHolds, PTL DEF Enumerated

\* What is offered for removal is not listed, not shown, and takes no push.
THEOREM RemovalSparesTheLiving == Spec => []AgedKeysAreGone
BY EnumeratedHolds, PTL DEF Enumerated

-----------------------------------------------------------------------------
(* What an outage may not do.                                              *)

\* A card goes only with a reading, with a list that tells that the key is gone,
\* or with the session: partial lists, empty lists, absent statuses and failed
\* polls take none away (_sync_silent_device_issues' unreachable ids).
THEOREM OutagesKeepCards == Spec => OutageKeepsCards
<1> DEFINE StillCarded ==
      \A k \in active \ active' :
         \/ sensors'[k] = "reading"
         \/ gonePolls'[k] > 0
         \/ lastHubs' = {}
<1>1. Enumerated /\ [Next]_vars => StillCarded
  <2> SUFFICES ASSUME Enumerated, [Next]_vars
               PROVE  StillCarded
    OBVIOUS
  <2>1. CASE \E L, S, dark, heard : Answer(L, S, dark, heard) /\ Finish(L, S, dark, heard)
    <3>1. PICK L, S, dark, heard : Answer(L, S, dark, heard) /\ Finish(L, S, dark, heard)
      BY <2>1
    <3> SUFFICES ASSUME NEW k \in active, k \notin active', sensors'[k] # "reading"
                 PROVE  gonePolls'[k] > 0
      OBVIOUS
    <3>2. /\ TypeOK /\ k \in Keys /\ k \in lastKeys
          /\ silent[k] = SilentDebounce
          /\ SilentDebounce > 0
      BY EnumerationAssumption DEF Enumerated, TypeOK, CardMeansSilent, CardsAreKnown
    <3>3. k \notin heard
      BY <3>1, <3>2, DecodedStep DEF Finish
    <3>4. Reconcile(L, S, dark, heard) /\ L # {}
      BY <3>1, <3>2, TailCases DEF issues
    <3>5. Counted(S, dark, heard)[k] = SilentDebounce
      BY <3>1, <3>2, <3>3, CountedStep
    <3>6. k \notin S /\ HubOf[k] \notin Gone(L)
      BY <3>1, <3>2, <3>3, <3>4, <3>5, CardStep DEF Quiet
    <3>7. TrackLists(L, S) /\ k \in Missing(S) /\ k \notin Frozen(L, S)
      BY <3>2, <3>4, <3>6 DEF Reconcile, Missing, Frozen, Children
    <3>8. Telling(L, k)
      BY <3>1, <3>4, <3>7, TellingIsCounting
    <3>9. gonePolls'[k] = Bump(gonePolls[k], OrphanDebounce)
      BY <3>2, <3>6, <3>7, <3>8 DEF TrackLists
    <3> QED
      BY <3>2, <3>9, BumpStep, EnumerationAssumption DEF TypeOK
  <2>2. CASE \E k \in dataKeys : PushReading(k)
    BY <2>2 DEF PushReading, Enumerated, TypeOK
  <2>3. CASE \E end \in SessionEnds : NewSession(end)
    BY <2>3 DEF NewSession
  <2>4. CASE UNCHANGED <<dataKeys, sensors, silent, track, issues, quiet>>
    BY <2>4 DEF issues
  <2> QED
    BY <2>1, <2>2, <2>3, <2>4, StepCases DEF Enumerated
<1> QED
  BY <1>1, EnumeratedHolds, PTL DEF Spec, OutageKeepsCards

\* While a hub is hidden inside its window nothing about its keys is decided:
\* debounce, removal count, card and verdict stand still, whatever polls come.
THEOREM GapsFreeze == Spec => GapFreezesChildren
<1> DEFINE Still(k) ==
      /\ silent'[k] = silent[k]
      /\ orphan'[k] = orphan[k]
      /\ k \in active' <=> k \in active
      /\ k \in aged' <=> k \in aged
    ChildrenStill == \A k \in Keys : HubOf[k] \in lastHubs' /\ hubRun'[HubOf[k]] > 0 => Still(k)
<1>1. Enumerated /\ [Next]_vars => ChildrenStill
  <2> SUFFICES ASSUME Enumerated, [Next]_vars,
                      NEW k \in Keys, HubOf[k] \in lastHubs', hubRun'[HubOf[k]] > 0
               PROVE  Still(k)
    OBVIOUS
  <2>1. CASE \E L, S, dark, heard : Answer(L, S, dark, heard) /\ Finish(L, S, dark, heard)
    <3>1. PICK L, S, dark, heard : Answer(L, S, dark, heard) /\ Finish(L, S, dark, heard)
      BY <2>1
    <3>2. TypeOK /\ RunsAgree /\ HubOf[k] \in Hubs /\ L \subseteq Hubs
      BY <3>1, EnumerationAssumption DEF Enumerated, Answer
    <3>3. CASE UNCHANGED <<silent, track, issues>>
      BY <3>3 DEF track, issues
    <3>4. CASE Reconcile(L, S, dark, heard) /\ L # {}
      <4>1. TrackLists(L, S)
        BY <3>4 DEF Reconcile
      <4>2. HubOf[k] \in Gone(L)
        BY <3>2, <3>4, <4>1, HubStep
      <4>3. k \notin S /\ k \notin heard /\ k \in Children(Gone(L))
        BY <3>1, <3>2, <4>2, GoneUnlisted DEF Answer, Children
      <4>4. Counted(S, dark, heard)[k] = silent[k]
        BY <3>1, <3>2, <4>3, CountedStep DEF Quiet
      <4>5. silent'[k] = silent[k]
        BY <3>1, <3>2, <3>4, <4>2, <4>4, PrunedStep DEF Reconcile
      <4>6. orphan'[k] = orphan[k]
        BY <4>1, <4>3 DEF TrackLists, OrphanCounts, Frozen
      <4>7. k \in active' <=> k \in active
        BY <3>1, <3>4, <4>2, <4>3, CardStep DEF Quiet
      <4>8. k \in aged' <=> k \in aged
        <5>1. k \in aged' <=> k \in lastKeys /\ orphan'[k] >= OrphanDebounce
          BY <4>1, <4>3 DEF TrackLists, AgedOut, Missing
        <5>2. k \in aged <=> k \in lastKeys /\ gonePolls[k] = OrphanDebounce
          BY DEF Enumerated, AgedExactlyWhenTold
        <5>3. k \in lastKeys => orphan[k] = gonePolls[k]
          BY DEF Enumerated, KeysTold
        <5>4. gonePolls[k] \in 0 .. OrphanDebounce /\ OrphanDebounce \in Nat
          BY EnumerationAssumption DEF Enumerated, TypeOK
        <5> QED
          BY <4>6, <5>1, <5>2, <5>3, <5>4
      <4> QED
        BY <4>5, <4>6, <4>7, <4>8
    <3>5. CASE Reconcile(L, S, dark, heard) /\ L = {} /\ \A j \in Keys : silent[j] = 0
      <4>1. S = {} /\ heard = {} /\ Gone(L) = {}
        BY <3>1, <3>5, EmptyAnswer
      <4>2. silent'[k] = 0
        BY <3>5, <4>1 DEF Reconcile, Pruned, Protected, Children
      <4>3. active' \cap {k} = {} /\ active \cap {k} = {}
        BY <3>1, <3>5, <4>1, CardStep, EnumerationAssumption DEF Quiet, Enumerated, CardMeansSilent
      <4> QED
        BY <3>5, <4>2, <4>3 DEF Reconcile, track
    <3> QED
      BY <3>1, <3>2, <3>3, <3>4, <3>5, TailCases
  <2>2. CASE \E j \in dataKeys : PushReading(j)
    <3>1. PICK j \in dataKeys : PushReading(j)
      BY <2>2
    <3>2. j # k
      BY <3>1 DEF PushReading, track, Enumerated, DataIsCurrent, TypeOK
    <3> QED
      BY <3>1, <3>2 DEF PushReading, track, Enumerated, TypeOK
  <2>3. CASE \E end \in SessionEnds : NewSession(end)
    BY <2>3 DEF NewSession
  <2>4. CASE UNCHANGED <<dataKeys, sensors, silent, track, issues, quiet>>
    BY <2>4 DEF track, issues
  <2> QED
    BY <2>1, <2>2, <2>3, <2>4, StepCases DEF Enumerated
<1> QED
  BY <1>1, EnumeratedHolds, PTL DEF Spec, GapFreezesChildren

-----------------------------------------------------------------------------
(* What is published of a key: SensorEnumeration implements PublishedKey.  *)

\* Before the first list nothing is remembered or counted; what is shown is
\* listed, what is listed is remembered, and neither is counted as missing.
ListsPublished ==
    /\ lastHubs = {} => enumerated = {} /\ lastKeys = {} /\ \A k \in Keys : silent[k] = 0
    /\ dataKeys \subseteq enumerated
    /\ enumerated \subseteq lastKeys
    /\ \A k \in enumerated : orphan[k] = 0

\* A new session has published nothing.
LEMMA BlankPublishes ==
  ASSUME lastKeys' = {}, enumerated' = {}, dataKeys' = {}, silent' = [k \in Keys |-> 0]
  PROVE  ListsPublished'
BY DEF ListsPublished

\* The tail of a poll publishes its list, or leaves what an empty one cannot judge.
LEMMA FinishPublishes ==
  ASSUME Enumerated, ListsPublished, NEW L, NEW S, NEW dark, NEW heard,
         Answer(L, S, dark, heard), Finish(L, S, dark, heard)
  PROVE  ListsPublished'
<1>1. TypeOK /\ dataKeys' = S /\ S \subseteq Keys
  BY DEF Enumerated, Finish, Answer, Children
<1>2. CASE Reconcile(L, S, dark, heard) /\ L # {}
  <2>1. TrackLists(L, S)
    BY <1>2 DEF Reconcile
  <2>2. lastHubs' # {}
    BY <1>2, <2>1 DEF TrackLists, Remembered
  <2>3. \A k \in S : orphan'[k] = 0
    BY <1>1, <2>1 DEF TrackLists, OrphanCounts
  <2> QED
    BY <1>1, <2>1, <2>2, <2>3 DEF ListsPublished, TrackLists
<1>3. CASE Reconcile(L, S, dark, heard) /\ L = {}
  <2>1. S = {} /\ heard = {} /\ Gone(L) = {}
    BY <1>3, EmptyAnswer
  <2>2. UNCHANGED <<lastHubs, lastKeys, orphan, enumerated>>
    BY <1>3 DEF Reconcile, track
  <2>3. \A k \in Keys : silent'[k] = 0
    BY <1>3, <2>1 DEF Reconcile, Pruned, Protected, Children
  <2> QED
    BY <1>1, <2>1, <2>2, <2>3 DEF ListsPublished
<1>4. CASE L = {} /\ UNCHANGED <<silent, track, issues>>
  BY <1>1, <1>4, EmptyAnswer DEF ListsPublished, track
<1> QED
  BY <1>1, <1>2, <1>3, <1>4, TailCases

\* Every step keeps it.
LEMMA ListsPublishedHolds == Spec => [](Enumerated /\ ListsPublished)
<1>1. Init => ListsPublished
  BY DEF Init, ListsPublished
<1>2. Enumerated /\ ListsPublished /\ [Next]_vars => ListsPublished'
  <2> SUFFICES ASSUME Enumerated, ListsPublished, [Next]_vars
               PROVE  ListsPublished'
    OBVIOUS
  <2>1. CASE \E L, S, dark, heard : Answer(L, S, dark, heard) /\ Finish(L, S, dark, heard)
    BY <2>1, FinishPublishes
  <2>2. CASE \E k \in dataKeys : PushReading(k)
    BY <2>2 DEF PushReading, ListsPublished, track, Enumerated, TypeOK
  <2>3. CASE \E end \in SessionEnds : NewSession(end)
    BY <2>3, BlankPublishes DEF NewSession
  <2>4. CASE UNCHANGED <<dataKeys, sensors, silent, track, issues, quiet>>
    BY <2>4 DEF ListsPublished, track
  <2> QED
    BY <2>1, <2>2, <2>3, <2>4, StepCases DEF Enumerated
<1> QED
  BY <1>1, <1>2, EnumeratedHolds, PTL DEF Spec

\* The tail of a poll is one of the three updates of every key.
LEMMA FinishUpdatesKey ==
  ASSUME SilentDebounce > 1, OrphanDebounce > 1, Enumerated, ListsPublished,
         NEW L, NEW S, NEW dark, NEW heard, Answer(L, S, dark, heard), Finish(L, S, dark, heard),
         NEW k \in Keys
  PROVE  Key(k)!Update
<1>1. /\ TypeOK /\ S \subseteq Keys
      /\ sensors' = Decoded(S, dark, heard)
      /\ orphan[k] \in 0 .. OrphanDebounce /\ gonePolls[k] \in 0 .. OrphanDebounce
      /\ OrphanDebounce \in Nat /\ SilentDebounce \in Nat
  BY EnumerationAssumption DEF Enumerated, TypeOK, Finish, Answer, Children
<1>2. k \notin S => ShownAs(k)' = "absent"
  BY <1>1, DecodedStep DEF ShownAs, Silences
<1>3. CASE Reconcile(L, S, dark, heard) /\ L # {}
  <2>1. TrackLists(L, S)
    BY <1>3 DEF Reconcile
  <2>2. lastHubs' # {} /\ enumerated' = S /\ aged' = AgedOut(L, S) /\ orphan' = OrphanCounts(L, S)
    BY <1>3, <2>1 DEF TrackLists, Remembered
  <2>3. CASE k \in S
    <3>1. ListedAs(k)' = "yes" /\ k \notin aged'
      BY <2>2, <2>3 DEF ListedAs, AgedOut, Missing
    <3>2. ShownAs(k)' \in {"reading", "absent", "silent"}
      BY DEF ShownAs
    <3>3. ASSUME lastHubs = {}
          PROVE  ShownAs(k)' # "silent"
      <4>1. silent[k] = 0
        BY <3>3 DEF ListsPublished
      <4>2. Counted(S, dark, heard)[k] < SilentDebounce
        BY <1>1, <4>1 DEF Counted, Bump
      <4>3. Decoded(S, dark, heard)[k] \notin Silences
        <5>1. ~(Counted(S, dark, heard)[k] >= SilentDebounce)
          BY <1>1, <4>1, <4>2, CountedStep
        <5> QED
          BY <1>1, <5>1, DecodedStep
      <4> QED
        BY <1>1, <4>3 DEF ShownAs
    <3>4. ListedAs(k) = "unknown" => lastHubs = {}
      BY DEF ListedAs
    <3> QED
      BY <3>1, <3>2, <3>3, <3>4 DEF Key!Update, Key!Carried
  <2>4. CASE k \notin S
    <3>1. ListedAs(k)' = "no" /\ ShownAs(k)' = "absent"
      BY <1>2, <2>2, <2>4 DEF ListedAs
    <3>2. k \in aged' <=> k \in lastKeys /\ orphan'[k] >= OrphanDebounce
      BY <2>2, <2>4 DEF AgedOut, Missing
    <3>3. orphan'[k] = orphan[k] \/ orphan'[k] = Bump(orphan[k], OrphanDebounce)
      BY <2>2, <2>4 DEF OrphanCounts
    <3>4. ASSUME k \in aged
          PROVE  k \in aged'
      <4>1. k \in lastKeys /\ orphan[k] = OrphanDebounce
        BY <3>4 DEF Enumerated, AgedExactlyWhenTold, KeysTold
      <4> QED
        BY <1>1, <3>2, <3>3, <4>1 DEF Bump
    <3>5. ASSUME k \in aged'
          PROVE  ListedAs(k) = "no" \/ k \in aged
      <4>1. k \in lastKeys /\ orphan[k] # 0
        BY <1>1, <3>2, <3>3, <3>5 DEF Bump
      <4> QED
        BY <4>1 DEF ListsPublished, ListedAs
    <3> QED
      BY <3>1, <3>4, <3>5 DEF Key!Update, Key!LeftOut
  <2> QED
    BY <2>3, <2>4
<1>4. CASE L = {} /\ UNCHANGED track
  <2>1. ShownAs(k)' = "absent"
    BY <1>2, <1>4, EmptyAnswer
  <2>2. ListedAs(k)' = ListedAs(k) /\ aged' = aged
    BY <1>4 DEF ListedAs, track
  <2> QED
    BY <2>1, <2>2 DEF Key!Update, Key!NoList
<1> QED
  BY <1>1, <1>3, <1>4, TailCases DEF Reconcile

\* A pushed reading is an update of its own key and of no other.
LEMMA PushUpdatesKey ==
  ASSUME Enumerated, ListsPublished, NEW j \in dataKeys, PushReading(j), NEW k \in Keys
  PROVE  Key(k)!Update \/ UNCHANGED Key(k)!published
<1>1. /\ sensors' = [sensors EXCEPT ![j] = "reading"] /\ sensors \in [Keys -> Kept \cup {"none"}]
      /\ UNCHANGED <<lastHubs, enumerated, aged>>
  BY DEF PushReading, track, Enumerated, TypeOK
<1>2. ListedAs(k)' = ListedAs(k) /\ (k \in aged' <=> k \in aged)
  BY <1>1 DEF ListedAs
<1>3. CASE k = j
  <2>1. k \in enumerated /\ lastHubs # {}
    BY <1>3 DEF ListsPublished
  <2>2. k \notin aged
    BY <2>1 DEF Enumerated, AgedKeysAreGone
  <2>3. ListedAs(k)' = "yes" /\ ShownAs(k)' = "reading"
    BY <1>1, <1>2, <1>3, <2>1 DEF ListedAs, ShownAs
  <2> QED
    BY <1>2, <2>2, <2>3 DEF Key!Update, Key!Carried
<1>4. CASE k # j
  <2>1. ShownAs(k)' = ShownAs(k)
    BY <1>1, <1>4 DEF ShownAs
  <2> QED
    BY <1>2, <2>1 DEF Key!published
<1> QED
  BY <1>3, <1>4

\* Every step publishes of a key what PublishedKey allows.
LEMMA StepPublishesKey ==
  ASSUME SilentDebounce > 1, OrphanDebounce > 1, Enumerated, ListsPublished, [Next]_vars,
         NEW k \in Keys
  PROVE  [Key(k)!Next]_(Key(k)!published)
<1>1. CASE \E L, S, dark, heard : Answer(L, S, dark, heard) /\ Finish(L, S, dark, heard)
  BY <1>1, FinishUpdatesKey DEF Key!Next
<1>2. CASE \E j \in dataKeys : PushReading(j)
  BY <1>2, PushUpdatesKey DEF Key!Next
<1>3. CASE \E end \in SessionEnds : NewSession(end)
  <2>1. ListedAs(k)' = "unknown" /\ k \notin aged' /\ ShownAs(k)' = "absent"
    BY <1>3 DEF NewSession, ListedAs, ShownAs, Silences
  <2> QED
    BY <2>1 DEF Key!Next, Key!Forgotten
<1>4. CASE UNCHANGED <<dataKeys, sensors, silent, track, issues, quiet>>
  BY <1>4 DEF track, ListedAs, ShownAs, Key!published
<1> QED
  BY <1>1, <1>2, <1>3, <1>4, StepCases DEF Enumerated

\* With debounces longer than one poll (SILENT_DEBOUNCE_POLLS and
\* ORPHANED_KEY_DEBOUNCE_POLLS are 3 and 30) the coordinator publishes of each
\* key what PublishedKey allows and LeftoverRemoval relies on.
THEOREM KeyIsPublished ==
  ASSUME NEW k \in Keys, SilentDebounce > 1, OrphanDebounce > 1
  PROVE  Spec => Key(k)!Spec
<1>1. Init => Key(k)!Init
  BY DEF Init, ListedAs, ShownAs, Silences, Key!Init
<1>2. Enumerated /\ ListsPublished /\ [Next]_vars => [Key(k)!Next]_(Key(k)!published)
  BY StepPublishesKey
<1> QED
  BY <1>1, <1>2, ListsPublishedHolds, PTL DEF Spec, Key!Spec

\* The same for all keys at once, as the run checks it.
THEOREM PublicationIsSound ==
  ASSUME SilentDebounce > 1, OrphanDebounce > 1
  PROVE  Spec => KeysArePublished
<1> DEFINE Steps == \A k \in Keys : [Key(k)!Next]_(Key(k)!published)
<1>1. Init => \A k \in Keys : Key(k)!Init
  BY DEF Init, ListedAs, ShownAs, Silences, Key!Init
<1>2. Enumerated /\ ListsPublished /\ [Next]_vars => [Steps]_vars
  BY StepPublishesKey
<1> QED
  BY <1>1, <1>2, ListsPublishedHolds, PTL DEF Spec, KeysArePublished
-----------------------------------------------------------------------------
(* The kind of silence.                                                    *)

\* A key that shows a reading has no count, and none shows "stopped_reporting".
OneKind ==
    \A k \in Keys :
        /\ sensors[k] = "reading" => silent[k] = 0
        /\ sensors[k] # "stopped_reporting"

\* A poll that fills the debounce of a key finds no reading to date it by.
LEMMA FinishKeepsKind ==
  ASSUME SilentDebounce > 1, Enumerated, OneKind, NEW L, NEW S, NEW dark, NEW heard,
         Answer(L, S, dark, heard), Finish(L, S, dark, heard)
  PROVE  OneKind'
<1> SUFFICES ASSUME NEW k \in Keys
             PROVE  /\ sensors'[k] = "reading" => silent'[k] = 0
                    /\ sensors'[k] # "stopped_reporting"
  BY DEF OneKind
<1>1. TypeOK /\ sensors' = Decoded(S, dark, heard) /\ SilentDebounce \in Nat
  BY EnumerationAssumption DEF Enumerated, Finish
<1>2. ASSUME k \in heard
      PROVE  silent'[k] = 0
  <2>1. Reconcile(L, S, dark, heard)
    BY <1>2, TailCases, EmptyAnswer, <1>1
  <2>2. Counted(S, dark, heard)[k] = 0
    BY <1>1, <1>2, CountedStep
  <2>3. Pruned(L, S, Counted(S, dark, heard))[k] = 0
    BY <1>1, <2>2, PrunedStep
  <2> QED
    BY <2>1, <2>3 DEF Reconcile
<1>3. ASSUME sensors[k] = "reading", k \notin heard
      PROVE  sensors'[k] = "none"
  <2>1. Counted(S, dark, heard)[k] \in 0 .. 1
    BY <1>1, <1>3, CountedStep DEF OneKind, Bump
  <2>2. ~(Counted(S, dark, heard)[k] >= SilentDebounce)
    BY <1>1, <2>1
  <2> QED
    BY <1>1, <1>3, <2>2 DEF Decoded
<1>4. ASSUME sensors[k] # "reading"
      PROVE  sensors'[k] # "stopped_reporting"
  BY <1>1, <1>4 DEF OneKind, Decoded, Silence
<1>5. sensors'[k] = "reading" => k \in heard
  BY <1>1, DecodedStep
<1> QED
  BY <1>1, <1>2, <1>3, <1>4, <1>5 DEF Decoded

\* The entity of a silent device never says that it stopped reporting, whatever
\* it reported before: _build_silent_subdevice reads the last reading from the
\* previous snapshot, from which the first silent poll has taken it.
THEOREM SilenceHasOneKind ==
  ASSUME SilentDebounce > 1
  PROVE  Spec => [](\A k \in Keys : sensors[k] # "stopped_reporting")
<1>1. Init => OneKind
  BY DEF Init, OneKind
<1>2. Enumerated /\ OneKind /\ [Next]_vars => OneKind'
  <2> SUFFICES ASSUME Enumerated, OneKind, [Next]_vars
               PROVE  OneKind'
    OBVIOUS
  <2>1. CASE \E L, S, dark, heard : Answer(L, S, dark, heard) /\ Finish(L, S, dark, heard)
    BY <2>1, FinishKeepsKind
  <2>2. CASE \E j \in dataKeys : PushReading(j)
    BY <2>2 DEF PushReading, OneKind, Enumerated, TypeOK
  <2>3. CASE \E end \in SessionEnds : NewSession(end)
    BY <2>3 DEF NewSession, OneKind
  <2>4. CASE UNCHANGED <<dataKeys, sensors, silent, track, issues, quiet>>
    BY <2>4 DEF OneKind
  <2> QED
    BY <2>1, <2>2, <2>3, <2>4, StepCases DEF Enumerated
<1>3. OneKind => \A k \in Keys : sensors[k] # "stopped_reporting"
  BY DEF OneKind
<1> QED
  BY <1>1, <1>2, <1>3, EnumeratedHolds, PTL DEF Spec
=============================================================================
