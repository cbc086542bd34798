-------------------------- MODULE HubConnectivity --------------------------
(***************************************************************************)
(* The hub half of RainPointCoordinator: the connectivity record shown for *)
(* each hub, the running outage windows and the hub Repairs card, under    *)
(* polls that suspend at their awaits, pushed edges that run to completion *)
(* in between, device-list and status outages, and new sessions.           *)
(*                                                                         *)
(* The cloud is the environment.  `truth` is the connection flag it knows, *)
(* `view` what its REST endpoint serves (it may lag), `frames` the pushed  *)
(* edges still under way (they may be lost, repeated or reordered).        *)
(***************************************************************************)
EXTENDS HubTracking

CONSTANTS
    RealHubs,      \* the keys whose record passes is_hub_record
    Mids,          \* the mids; connectivity and status are keyed by mid alone
    MidOf,         \* the mid of each hub key
    Stamped,       \* the mids whose `connected` entry always carries a usable time
    Faulty,        \* the hubs whose issue-registry calls may raise
    SessionEnds,   \* how a session may end: "reload", "restart"
    SilentTracked, \* whether a sub-device may be mid-debounce (_silent_poll_counts)
    None,          \* no time recorded
    Threshold,     \* HUB_DISCONNECT_DEBOUNCE_SECONDS, in ticks
    MaxTime        \* bound on the clock

ASSUME ConnectivityAssumption ==
    /\ RealHubs \subseteq Hubs
    /\ MidOf \in [Hubs -> Mids]
    /\ Faulty \subseteq Hubs
    /\ SessionEnds \subseteq {"reload", "restart"}
    /\ SilentTracked \subseteq BOOLEAN
    /\ None \notin Int
    /\ Threshold \in Nat \ {0}
    /\ MaxTime \in Nat

VARIABLES
    now, account, truth, view, frames, stable,   \* the cloud and the clock
    phase, listed, reply,                        \* the poll under way
    dataHubs, conn,                              \* coordinator.data
    backAt,         \* history: the reconnect last shown for a hub, while its record is dated
    since, lastHubs, absent,                     \* debounce state
    active, cards,                               \* the manager's set, the issue registry
    omitted,        \* history: non-empty lists in a row without the hub
    stuck,          \* history: cards whose deletion the registry refused
    drops           \* history: every moment at which the cloud lost a hub

cloud == <<account, truth, view, frames, stable, drops>>
poll  == <<phase, listed, reply>>
data  == <<dataHubs, conn, backAt>>
track == <<lastHubs, absent, omitted>>
issues == <<active, cards, stuck>>
vars == <<now, cloud, poll, data, since, track, issues>>

-----------------------------------------------------------------------------
Time == 0 .. MaxTime
Moment == Time \cup {None}
Flag == {"connected", "disconnected"}
Record == [state : Flag \cup {"unknown", "none"}, moment : Moment]
NoRecord == [state |-> "none", moment |-> None]      \* no entry for this mid
Unknown == [state |-> "unknown", moment |-> None]    \* absent, or no `connected` entry
Pending == NoRecord                                  \* the status call has not answered

\* One home per hub: the account never lists one mid under two homes at once.
OneHome(H) == \A g, h \in H : MidOf[g] = MidOf[h] => g = h
Accounts == {A \in SUBSET Hubs : OneHome(A)}
MidsOf(H) == {MidOf[h] : h \in H}

TypeOK ==
    /\ now \in Time
    /\ account \in Accounts
    /\ truth \in [Mids -> [state : Flag, moment : Time]]
    /\ view \in [Mids -> [state : Flag, moment : Time]]
    /\ frames \subseteq [mid : Mids, state : Flag, moment : Time]
    /\ stable \in BOOLEAN
    /\ phase \in {"idle", "status"}
    /\ listed \in Accounts
    /\ reply \in [Mids -> Record]
    /\ dataHubs \in Accounts
    /\ conn \in [Mids -> Record]
    /\ since \in [Hubs -> Moment]
    /\ lastHubs \subseteq Hubs
    /\ absent \in [Hubs -> 0 .. AbsentDebounce]
    /\ active \subseteq RealHubs
    /\ cards \subseteq RealHubs
    /\ omitted \in [Hubs -> 0 .. AbsentDebounce + 1]
    /\ stuck \subseteq Faulty
    /\ drops \in [Mids -> SUBSET Time]
    /\ backAt \in [Hubs -> Moment]

-----------------------------------------------------------------------------
(* Reading one status: _read_hub_connectivity and the ordering guard.      *)

\* What the status entry may say: the time of a flip may be missing from it.
Served(m) == {view[m]} \cup (IF m \in Stamped THEN {} ELSE {[view[m] EXCEPT !.moment = None]})

\* Mutant: the poll always wins.
GuardedNever(polled, prior) == polled

\* Mutant: a held time is never given up.
GuardedForEver(polled, prior) == IF prior.moment # None THEN prior ELSE polled

\* A strictly older poll loses to the record held; every other poll wins.
Guarded(polled, prior) ==
    IF /\ prior.moment # None
       /\ polled.moment # None
       /\ polled.moment < prior.moment
    THEN prior
    ELSE polled

\* Mutant: a pushed edge always wins.
OlderNever(f, held) == FALSE

\* A pushed edge no newer than the one held, or the very edge, is dropped.
Older(f, held) == held.moment # None /\ f.moment <= held.moment

\* The records this poll would show for the hubs it lists.
Polled(L) ==
    [m \in Mids |->
        IF m \in MidsOf(L \cap RealHubs) THEN Guarded(reply[m], conn[m]) ELSE NoRecord]

\* An empty list is a total outage and advances no enumeration memory.
Gone(L) == IF L = {} THEN {} ELSE Provisional(lastHubs, absent, L)

\* A provisionally missing hub keeps the record it had, if it had one.
Shown(L) ==
    [m \in Mids |->
        IF m \in MidsOf(Gone(L)) /\ conn[m].state # "none" THEN conn[m] ELSE Polled(L)[m]]

-----------------------------------------------------------------------------
(* _sync_hub_connectivity_issues: windows and cards.                       *)

InState(L, s) == {h \in L \cap RealHubs : Shown(L)[MidOf[h]].state = s}

Earlier(a, b) == IF a <= b THEN a ELSE b

\* Mutant: no floor, a newer edge restarts the window.
WindowStartUnfloored(h, moment) ==
    IF moment # None THEN moment ELSE IF since[h] # None THEN since[h] ELSE now

\* _hub_disconnect_window_start
WindowStart(h, moment) ==
    CASE moment = None /\ since[h] = None -> now
      [] moment = None /\ since[h] # None -> since[h]
      [] moment # None /\ since[h] = None -> moment
      [] moment # None /\ since[h] # None -> Earlier(since[h], moment)

Start(L, h) == WindowStart(h, Shown(L)[MidOf[h]].moment)

\* Mutant: an unknown poll leaves the window running.
WindowsThroughUnknown(L) ==
    [h \in Hubs |->
        IF h \in InState(L, "disconnected") THEN Start(L, h)
        ELSE IF h \in Gone(L) \cup InState(L, "unknown") THEN since[h]
        ELSE None]

\* The windows after the poll: open while down, frozen while hidden, else shut.
Windows(L) ==
    [h \in Hubs |->
        IF h \in InState(L, "disconnected") THEN Start(L, h)
        ELSE IF h \in Gone(L) THEN since[h]
        ELSE None]

\* Mutant: the threshold is not waited for.
DueAtOnce(L) == InState(L, "disconnected")

\* Mutant: a hidden hub's window goes on to raise.
DueThroughGap(L) ==
    {h \in InState(L, "disconnected") : now - Start(L, h) >= Threshold} \cup
    {h \in Gone(L) \cap RealHubs : since[h] # None /\ now - since[h] >= Threshold}

\* The records async_sync receives, disconnected and connected.
Due(L) == {h \in InState(L, "disconnected") : now - Start(L, h) >= Threshold}
Up(L) == InState(L, "connected")

\* Mutant: an unknown status does not suppress the clear.
UnreachableByGap(L) == Gone(L)

\* Mutant: no card goes with its hub.
UnreachableUnlisted(L) ==
    Gone(L) \cup (active \ L) \cup ((L \cap RealHubs) \ (Up(L) \cup Due(L)))

\* unreachable_ids: neither raised nor cleared.
Unreachable(L) == Gone(L) \cup ((L \cap RealHubs) \ (Up(L) \cup Due(L)))

\* Mutant: only the cards this session remembers are cleared.
ClearedIfActive(L) == active \ (Due(L) \cup Unreachable(L))

Cleared(L) == Up(L) \cup (active \ (Up(L) \cup Due(L) \cup Unreachable(L)))

\* Mutant: marked active before the registry accepted the card.
SyncIssuesMarksFirst(raise, clear) ==
    \E refused \in SUBSET Faulty :
        /\ active' = (active \ clear) \cup raise
        /\ cards' = (cards \ (clear \ refused)) \cup (raise \ refused)
        /\ stuck' = (stuck \ clear) \cup (cards \cap clear \cap refused)

\* RainPointHubConnectivityIssues.async_sync; a call the registry refuses leaves
\* a raise to be tried again, and a card whose deletion is not.
SyncIssues(raise, clear) ==
    \E refused \in SUBSET Faulty :
        /\ active' = (active \ clear) \cup (raise \ refused)
        /\ cards' = (cards \ (clear \ refused)) \cup (raise \ refused)
        /\ stuck' = (stuck \ clear) \cup (cards \cap clear \cap refused)

(* _reconcile_repairs_surfaces *)
Tracking(silent) == silent \/ \E h \in Hubs : since[h] # None

Reconcile(L) ==
    /\ since' = Windows(L)
    /\ SyncIssues(Due(L) \ active, Cleared(L))
    /\ IF L = {}
       THEN UNCHANGED track
       ELSE /\ lastHubs' = Remembered(lastHubs, absent, L)
            /\ absent' = AbsentCounts(lastHubs, absent, L)
            /\ omitted' = [h \in Hubs |->
                  IF h \in L THEN 0
                  ELSE IF omitted[h] > AbsentDebounce THEN omitted[h]
                  ELSE omitted[h] + 1]

\* A reconnect is known from the step that shows it until the record is undated.
NoteReconnects ==
    backAt' = [h \in Hubs |->
        LET r == conn'[MidOf[h]]
        IN  IF r.moment = None THEN None
            ELSE IF r.state = "connected" /\ h \in dataHubs' THEN r.moment
            ELSE backAt[h]]

\* The synchronous tail of a poll: reconcile, then the snapshot is replaced.
Finish(L) ==
    /\ \E silent \in SilentTracked :
          IF L # {} \/ ~Tracking(silent)
          THEN Reconcile(L)
          ELSE UNCHANGED <<since, track, issues>>
    /\ conn' = Shown(L)
    /\ dataHubs' = L
    /\ NoteReconnects
    /\ phase' = "idle"
    /\ listed' = {}
    /\ reply' = [m \in Mids |-> Pending]
    /\ UNCHANGED <<now, cloud>>

-----------------------------------------------------------------------------
(* The actions.                                                            *)

Init ==
    /\ now = 0
    /\ account \in Accounts \ {{}}
    /\ truth = [m \in Mids |-> [state |-> "connected", moment |-> 0]]
    /\ view = truth
    /\ frames = {}
    /\ stable = FALSE
    /\ phase = "idle"
    /\ listed = {}
    /\ reply = [m \in Mids |-> Pending]
    /\ dataHubs = {}
    /\ conn = [m \in Mids |-> NoRecord]
    /\ since = [h \in Hubs |-> None]
    /\ lastHubs = {}
    /\ absent = [h \in Hubs |-> 0]
    /\ active = {}
    /\ cards = {}
    /\ stuck = {}
    /\ drops = [m \in Mids |-> {}]
    /\ backAt = [h \in Hubs |-> None]
    /\ omitted = [h \in Hubs |-> 0]

\* getDeviceByHid answered for every home; an outage hides any of the hubs.
PollList ==
    /\ phase = "idle"
    /\ \E L \in SUBSET account :
          /\ stable => L = account
          /\ IF L = {}
             THEN Finish(L)
             ELSE /\ phase' = "status"
                  /\ listed' = L
                  /\ UNCHANGED <<now, cloud, reply, data, since, track, issues>>

\* One hub's status arrives, is absent, or arrives without a usable entry.
FetchStatus(m) ==
    /\ phase = "status"
    /\ m \in MidsOf(listed \cap RealHubs)
    /\ reply[m] = Pending
    /\ \E r \in Served(m) \cup
                (IF stable THEN {}
                 ELSE {Unknown} \cup {[s EXCEPT !.state = "unknown"] : s \in Served(m)}) :
          reply' = [reply EXCEPT ![m] = r]
    /\ UNCHANGED <<now, cloud, phase, listed, data, since, track, issues>>

PollTail ==
    /\ phase = "status"
    /\ \A m \in MidsOf(listed \cap RealHubs) : reply[m] # Pending
    /\ Finish(listed)

\* RainPointApiError, or any other exception: UpdateFailed, nothing is written.
PollFails ==
    /\ phase = "status"
    /\ ~stable
    /\ phase' = "idle"
    /\ listed' = {}
    /\ reply' = [m \in Mids |-> Pending]
    /\ UNCHANGED <<now, cloud, data, since, track, issues>>

\* Mutant: a connected edge shuts the window but leaves the card to the poll.
EdgeShutsWindow(f, h) ==
    /\ since' = IF f.state = "connected" THEN [since EXCEPT ![h] = None] ELSE since
    /\ UNCHANGED issues

\* Only a connected edge decides anything; a card is raised by a poll alone.
EdgeDecides(f, h) ==
    IF f.state = "connected"
    THEN /\ since' = [since EXCEPT ![h] = None]
         /\ SyncIssues({}, {h})
    ELSE UNCHANGED <<since, issues>>

\* apply_hub_push_update, past its drops; the frame may be delivered again.
PushHub(f) ==
    /\ f \in frames
    /\ ~Older(f, conn[f.mid])
    /\ \E h \in dataHubs \cap RealHubs :
          /\ MidOf[h] = f.mid
          /\ conn' = [conn EXCEPT ![f.mid] = [state |-> f.state, moment |-> f.moment]]
          /\ EdgeDecides(f, h)
    /\ UNCHANGED <<now, cloud, poll, dataHubs, track>>
    /\ NoteReconnects

\* A reload builds a new coordinator; a restart also loses the issue registry,
\* which no card of this kind is persisted in.
NewSession(end) ==
    /\ ~stable
    /\ phase' = "idle"
    /\ listed' = {}
    /\ reply' = [m \in Mids |-> Pending]
    /\ dataHubs' = {}
    /\ conn' = [m \in Mids |-> NoRecord]
    /\ NoteReconnects
    /\ since' = [h \in Hubs |-> None]
    /\ lastHubs' = {}
    /\ absent' = [h \in Hubs |-> 0]
    /\ omitted' = [h \in Hubs |-> 0]
    /\ active' = {}
    /\ cards' = IF end = "reload" THEN cards ELSE {}
    /\ stuck' = IF end = "reload" THEN stuck ELSE {}
    /\ UNCHANGED <<now, cloud>>

-----------------------------------------------------------------------------
(* The environment.                                                        *)

Tick ==
    /\ now < MaxTime
    /\ now' = now + 1
    /\ UNCHANGED <<cloud, poll, data, since, track, issues>>

\* The cloud notices a hub going or coming back, and announces the edge.  A
\* Bluetooth wrapper record has no connection of its own.
Flip(m) ==
    /\ m \in MidsOf(RealHubs)
    /\ truth[m].moment < now
    /\ LET s == IF truth[m].state = "connected" THEN "disconnected" ELSE "connected"
       IN  /\ truth' = [truth EXCEPT ![m] = [state |-> s, moment |-> now]]
           /\ frames' = frames \cup {[mid |-> m, state |-> s, moment |-> now]}
           /\ drops' = IF s = "disconnected" THEN [drops EXCEPT ![m] = @ \cup {now}] ELSE drops
    /\ UNCHANGED <<now, account, view, stable, poll, data, since, track, issues>>

ViewCatchesUp(m) ==
    /\ view' = [view EXCEPT ![m] = truth[m]]
    /\ UNCHANGED <<now, account, truth, frames, stable, drops, poll, data, since, track, issues>>

LoseFrame(f) ==
    /\ frames' = frames \ {f}
    /\ UNCHANGED <<now, account, truth, view, stable, drops, poll, data, since, track, issues>>

\* A hub is paired, removed or moved to another home.
AccountChanges ==
    /\ ~stable
    /\ account' \in Accounts
    /\ UNCHANGED <<now, truth, view, frames, stable, drops, poll, data, since, track, issues>>

\* From here on the cloud answers in full and the session is left alone.
Stabilise ==
    /\ stable' = TRUE
    /\ UNCHANGED <<now, account, truth, view, frames, drops, poll, data, since, track, issues>>

Poll == PollList \/ (\E m \in Mids : FetchStatus(m)) \/ PollTail

Next ==
    \/ Poll
    \/ PollFails
    \/ \E f \in frames : PushHub(f)
    \/ \E end \in SessionEnds : NewSession(end)
    \/ Tick
    \/ \E m \in Mids : Flip(m)
    \/ \E m \in Mids : ViewCatchesUp(m)
    \/ \E f \in frames : LoseFrame(f)
    \/ AccountChanges
    \/ Stabilise

Spec == Init /\ [][Next]_vars

\* What the cloud serves of a hub follows what it knows.
ViewFollows(m) == WF_vars(ViewCatchesUp(m))
ViewsFollow == \A m \in Mids : ViewFollows(m)

\* The 120 s timer keeps polling, the clock runs, and outages end.
Fairness ==
    /\ WF_vars(Poll)
    /\ WF_vars(Tick)
    /\ ViewsFollow
    /\ WF_vars(Stabilise)

FairSpec == Spec /\ Fairness

-----------------------------------------------------------------------------
(* Safety.                                                                 *)

\* A running outage window belongs to a hub that is shown disconnected: no
\* path that shows a hub as anything else (poll or pushed edge) may leave its
\* window running, or a later outage would inherit the old start.
WindowOnlyWhileDown ==
    \A h \in dataHubs : since[h] # None => conn[MidOf[h]].state = "disconnected"

\* No hub is shown connected while its outage card stands, even if the card
\* was raised by an earlier session; a deletion the registry refused excepted.
NoCardOverConnectedHub ==
    \A h \in (dataHubs \cap cards) \ stuck : conn[MidOf[h]].state # "connected"

\* The manager never believes in a card the registry does not hold.
ActiveCardsStand == active \subseteq cards

\* Neither a poll that was in flight nor a late frame moves the recorded edge
\* of a hub backwards in time (the two ordering guards).
EdgesNeverRegress ==
    [][\A m \in Mids :
          conn[m].moment # None /\ conn'[m].moment # None => conn'[m].moment >= conn[m].moment]_vars

\* While a window runs its start may only move earlier, so that an outage in
\* progress cannot be restarted for ever by a firmware that re-stamps it.
WindowNeverMovesForward ==
    [][\A h \in Hubs :
          since[h] # None /\ since'[h] # None => since'[h] <= since[h]]_vars

\* A card is raised only by a poll that lists the hub and answers for it: with
\* "disconnected", or with an answer provably older than a pushed disconnect.
\* A device-list gap or an unknown status never raises.
RaisedOnEvidence ==
    [][\A h \in active' \ active :
          /\ h \in listed
          /\ \/ reply[MidOf[h]].state = "disconnected"
             \/ /\ conn[MidOf[h]].state = "disconnected"
                /\ reply[MidOf[h]].moment # None
                /\ reply[MidOf[h]].moment < conn[MidOf[h]].moment]_vars

\* A card is raised over a real drop that is at least the threshold old, and
\* never over one that a reconnect has ended before the eyes of the coordinator:
\* once a hub has been shown connected as of some moment, no late frame, lagging
\* reply or window kept from before makes an earlier drop count again, for as long
\* as the record keeps its date.
NoCardForABriefDrop ==
    [][\A h \in active' \ active :
          \E d \in drops[MidOf[h]] :
              /\ now - d >= Threshold
              /\ backAt'[h] # None => d > backAt'[h]]_vars

\* Within a session a card goes only when the hub is shown connected, or after
\* more than AbsentDebounce non-empty lists in a row have omitted it, or by an empty
\* list that finds nothing being debounced. The last is what the code does, and not
\* what it says of itself: see EmptyListKeepsCards.
ClearedOnEvidence ==
    [][\A h \in active \ active' :
          \/ conn'[MidOf[h]].state = "connected"
          \/ omitted'[h] > AbsentDebounce
          \/ dataHubs' = {} /\ lastHubs' = {}   \* a new session
          \/ dataHubs' = {} /\ \A g \in Hubs : since[g] = None]_vars

\* What _reconcile_repairs_surfaces says of a device-list outage: an empty list
\* takes no card away, whatever else is being tracked. The code does not keep it.
EmptyListKeepsCards ==
    [][\A h \in active \ active' : dataHubs' = {} => lastHubs' = {}]_vars

\* A hub that has left the account takes its card with it: none stands once
\* more than AbsentDebounce non-empty lists in a row have omitted the hub.
DepartedHubHasNoCard ==
    \A h \in cards \ stuck : omitted[h] <= AbsentDebounce

-----------------------------------------------------------------------------
(* Liveness.                                                               *)

\* A stamped hub that stays down past the threshold gets its card.
DownTooLong(h) ==
    /\ stable
    /\ h \in account \cap RealHubs
    /\ MidOf[h] \in Stamped
    /\ truth[MidOf[h]].state = "disconnected"
    /\ truth[MidOf[h]].moment + Threshold <= MaxTime

OutageIsRaised ==
    \A h \in Hubs \ Faulty :
        DownTooLong(h) ~> (h \in active \/ truth[MidOf[h]].state = "connected")

\* A hub that stays connected loses its card, whoever raised it.
BackUp(h) == stable /\ h \in account \cap RealHubs /\ truth[MidOf[h]].state = "connected"

RecoveryIsCleared ==
    \A h \in Hubs \ Faulty :
        BackUp(h) ~> (h \notin cards \/ truth[MidOf[h]].state = "disconnected")

=============================================================================
