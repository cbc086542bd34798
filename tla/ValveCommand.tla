---------------------------- MODULE ValveCommand ----------------------------
(***************************************************************************)
(* One irrigation device in the coordinator's data, while its zones (or    *)
(* stations) are commanded: the command's round trip, the state its reply  *)
(* carries, and the guard that keeps a poll or a push that is older than   *)
(* the last command from showing the zone as it was before.                *)
(*                                                                         *)
(* The device and the cloud are the environment.  `device` is what the     *)
(* zones do and when that was last reported, `view` an earlier report that *)
(* the cloud still serves to polls, and that a late frame may still carry. *)
(***************************************************************************)
EXTENDS Integers

CONSTANTS
    Zones,        \* the zones of a valve hub, the stations of a controller
    Framings,     \* which of the three kinds of device there are (see Framing)
    Overlapping,  \* the framings whose zones may be commanded at the same time
    Dates,        \* whether an entry carries a usable time: a subset of BOOLEAN
    Replies,      \* what a command is answered with: "state", "blank"
    None,         \* no time recorded
    Guard,        \* STALE_VALVE_POLL_GUARD, in ticks
    MaxTime       \* bound on the clock

\* "hub": a reply describes every zone, a command guards its own zone.
\* "dp": the datapoint endpoint, a reply describes the commanded zone alone.
\* "station": HIC801W, one aggregate record, which any command guards whole.
Framing == {"hub", "dp", "station"}

ASSUME CommandAssumption ==
    /\ Framings \subseteq Framing
    /\ Overlapping \subseteq Framing
    /\ Dates \subseteq BOOLEAN
    /\ Replies \subseteq {"state", "blank"}
    /\ None \notin Int
    /\ Guard \in Nat
    /\ MaxTime \in Nat
    /\ Guard < MaxTime

VARIABLES
    now, calm, framing,        \* the clock; no more disturbances; the device's kind
    device, view,              \* the device and the cloud
    command,                   \* the round trip of each zone's command
    phase, polled,             \* the poll under way
    entry, known, shown,       \* data["sensors"][key]
    recorded,                  \* _last_valve_command_at
    answered                   \* history: as of when the zone's last reply spoke

cloud == <<calm, framing, device, view>>
poll  == <<phase, polled>>
data  == <<entry, known, shown>>
vars  == <<now, cloud, command, poll, data, recorded, answered>>

-----------------------------------------------------------------------------
Time == 0 .. MaxTime
Moment == Time \cup {None}
LastReply == MaxTime - Guard          \* bound: no command is answered later

Snapshot == [zones : [Zones -> BOOLEAN], at : Time]
Origin == [zones |-> [z \in Zones |-> FALSE], at |-> 0]

\* What is shown of one zone; `at` and `late` are annotations: as of when the
\* state was the device's, and whether it came undated after the guard window.
Reading == [open : BOOLEAN, at : Time, late : BOOLEAN]
NoReading == [open |-> FALSE, at |-> 0, late |-> FALSE]

Command == [step : {"idle", "sent", "acted"}, open : BOOLEAN, reply : Snapshot]
NoCommand == [step |-> "idle", open |-> FALSE, reply |-> Origin]
InFlight(z) == command[z].step # "idle"

\* The zones only exist inside an entry of the key.
TypeOK ==
    /\ now \in Time
    /\ calm \in BOOLEAN
    /\ framing \in Framings
    /\ device \in Snapshot
    /\ view \in Snapshot
    /\ command \in [Zones -> Command]
    /\ phase \in {"idle", "fetched"}
    /\ polled \in Snapshot
    /\ entry \in {"unpolled", "absent", "blank", "reading"}
    /\ known \subseteq Zones
    /\ known # {} => entry \in {"blank", "reading"}
    /\ shown \in [Zones -> Reading]
    /\ recorded \in [Zones -> Moment]
    /\ answered \in [Zones -> Moment]

-----------------------------------------------------------------------------
(* The guard.                                                              *)

\* Mutant: without a time, a reading stays stale for ever.
StaleForEver(at, dated, last) ==
    /\ last # None
    /\ IF dated THEN at < last ELSE TRUE

\* Mutant: a dated reading, too, is only told from an old one inside the window.
StaleByWindow(at, dated, last) ==
    /\ last # None
    /\ now - last < Guard

\* _valve_zone_poll_is_stale, for a zone that was commanded
Stale(at, dated, last) ==
    /\ last # None
    /\ IF dated THEN at < last ELSE now - last < Guard

\* Mutant: the controller's record guarded station by station.
HeldByZone(s, dated) == {z \in known : Stale(s.at, dated, recorded[z])}

\* The zones of which the reading is set aside and what is shown is kept.
Held(s, dated) ==
    IF framing = "station"
    THEN {z \in known : \E y \in Zones : Stale(s.at, dated, recorded[y])}
    ELSE {z \in known : Stale(s.at, dated, recorded[z])}

Late(z, dated) == ~dated /\ recorded[z] # None /\ now - recorded[z] >= Guard

\* _decode_one_subdevice: a polled or pushed reading enters the data.
Take(s) ==
    /\ \E dated \in Dates :
          shown' = [z \in Zones |->
              IF z \in Held(s, dated) THEN shown[z]
              ELSE [open |-> s.zones[z], at |-> s.at, late |-> Late(z, dated)]]
    /\ known' = Zones
    /\ entry' = "reading"
    /\ UNCHANGED answered

\* The key has no reading: unlisted, hidden, silent, or not decoded.
Drop(kind) ==
    /\ entry' = kind
    /\ known' = {}
    /\ shown' = [z \in Zones |-> NoReading]
    /\ answered' = [z \in Zones |-> None]

\* A payload that does not decode, or not to any zone.  The controller's guard
\* sets a stale one aside like any other.
Spoil(s) ==
    \E dated \in Dates :
        IF framing = "station" /\ Held(s, dated) # {}
        THEN UNCHANGED <<data, answered>>
        ELSE Drop("blank")

\* The zones that the reply to a command describes.
Described(z) == IF framing = "dp" THEN {z} ELSE Zones

\* _apply_response_state: wholesale, or into the commanded zone alone.
Apply(z, s) ==
    IF entry \in {"unpolled", "absent"}
    THEN UNCHANGED <<data, answered>>
    ELSE /\ known' = known \cup Described(z)
         /\ shown' = [y \in Zones |->
               IF y \in Described(z) THEN [open |-> s.zones[y], at |-> s.at, late |-> FALSE]
               ELSE shown[y]]
         /\ entry' = IF framing = "dp" THEN entry ELSE "reading"
         /\ answered' = [answered EXCEPT ![z] = s.at]

-----------------------------------------------------------------------------
(* The actions.                                                            *)

Init ==
    /\ now = 0
    /\ calm = FALSE
    /\ framing \in Framings
    /\ device = Origin
    /\ view = Origin
    /\ command = [z \in Zones |-> NoCommand]
    /\ phase = "idle"
    /\ polled = Origin
    /\ entry = "unpolled"
    /\ known = {}
    /\ shown = [z \in Zones |-> NoReading]
    /\ recorded = [z \in Zones |-> None]
    /\ answered = [z \in Zones |-> None]

\* The device's status is read; other awaits of the poll may follow.
PollFetch ==
    /\ phase = "idle"
    /\ phase' = "fetched"
    /\ polled' = view
    /\ UNCHANGED <<now, cloud, command, data, recorded, answered>>

\* The tail decodes against the data as it is by then.
PollTail ==
    /\ phase = "fetched"
    /\ \/ Take(polled)
       \/ ~calm /\ (Spoil(polled) \/ Drop("absent") \/ Drop("blank"))
    /\ phase' = "idle"
    /\ polled' = Origin
    /\ UNCHANGED <<now, cloud, command, recorded>>

PollFails ==
    /\ phase = "fetched"
    /\ ~calm
    /\ phase' = "idle"
    /\ polled' = Origin
    /\ UNCHANGED <<now, cloud, command, data, recorded, answered>>

\* apply_push_update: a frame, new or late, takes the path of a polled entry.
Push ==
    /\ entry # "unpolled"
    /\ \E s \in {device, view} : Take(s) \/ (~calm /\ (Spoil(s) \/ Drop("blank")))
    /\ UNCHANGED <<now, cloud, command, poll, recorded>>

\* Only the controller stays available through a frame that failed its check;
\* "blank" stands for such a frame as for silence.
Available == entry = "reading" \/ (framing = "station" /\ entry = "blank")

\* async_open_valve, async_close_valve up to the await; only an available entity
\* is commanded.  Bound: one command in flight per zone.
Send(z, open) ==
    /\ ~calm
    /\ now < LastReply
    /\ Available
    /\ ~InFlight(z)
    /\ framing \in Overlapping \/ \A y \in Zones : ~InFlight(y)
    /\ command' = [command EXCEPT ![z] = [NoCommand EXCEPT !.step = "sent", !.open = open]]
    /\ UNCHANGED <<now, cloud, poll, data, recorded, answered>>

\* The await returns: the command is recorded, then the state it came with, if
\* any, is written.
Reply(z) ==
    /\ command[z].step = "acted"
    /\ command' = [command EXCEPT ![z] = NoCommand]
    /\ recorded' = [recorded EXCEPT ![z] = now]
    /\ \/ "state" \in Replies /\ Apply(z, command[z].reply)
       \/ "blank" \in Replies /\ UNCHANGED <<data, answered>>
    /\ UNCHANGED <<now, cloud, poll>>

\* The call raises, before or after the device has acted: nothing is recorded.
CommandFails(z) ==
    /\ InFlight(z)
    /\ command' = [command EXCEPT ![z] = NoCommand]
    /\ UNCHANGED <<now, cloud, poll, data, recorded, answered>>

\* A new coordinator remembers neither commands nor readings.
NewSession ==
    /\ ~calm
    /\ command' = [z \in Zones |-> NoCommand]
    /\ phase' = "idle"
    /\ polled' = Origin
    /\ Drop("unpolled")
    /\ recorded' = [z \in Zones |-> None]
    /\ UNCHANGED <<now, cloud>>

-----------------------------------------------------------------------------
(* The environment.  One event of the device per tick, so that dates order *)
(* its reports.                                                            *)

Stamped(zones) == [zones |-> zones, at |-> now]

\* A controller runs one station at a time.
Obeyed(z, open) ==
    [y \in Zones |->
        IF y = z THEN open
        ELSE device.zones[y] /\ ~(framing = "station" /\ open)]

\* The device does what it was told and reports it.
Act(z) ==
    /\ command[z].step = "sent"
    /\ device.at < now
    /\ LET s == Stamped(Obeyed(z, command[z].open))
       IN  /\ device' = s
           /\ command' = [command EXCEPT ![z].step = "acted", ![z].reply = s]
    /\ UNCHANGED <<now, calm, framing, view, poll, data, recorded, answered>>

\* A run ends, or somebody presses a button.
DeviceChanges(z) ==
    /\ ~calm
    /\ device.at < now
    /\ device' = Stamped(Obeyed(z, ~device.zones[z]))
    /\ UNCHANGED <<now, calm, framing, view, command, poll, data, recorded, answered>>

\* The periodic report.
Report ==
    /\ device.at < now
    /\ device' = Stamped(device.zones)
    /\ UNCHANGED <<now, calm, framing, view, command, poll, data, recorded, answered>>

ViewCatchesUp ==
    /\ view' = device
    /\ UNCHANGED <<now, calm, framing, device, command, poll, data, recorded, answered>>

Tick ==
    /\ now < MaxTime
    /\ (\E z \in Zones : InFlight(z)) => now < LastReply
    /\ now' = now + 1
    /\ UNCHANGED <<cloud, command, poll, data, recorded, answered>>

\* From here on nobody touches the valves and the cloud answers.
CalmDown ==
    /\ calm' = TRUE
    /\ UNCHANGED <<now, framing, device, view, command, poll, data, recorded, answered>>

Poll == PollFetch \/ PollTail
Finish(z) == Reply(z) \/ CommandFails(z)
SomeCallReturns == \E z \in Zones : Finish(z)

Next ==
    \/ Poll
    \/ PollFails
    \/ Push
    \/ \E z \in Zones : (\E open \in BOOLEAN : Send(z, open)) \/ Finish(z) \/ Act(z)
    \/ NewSession
    \/ \E z \in Zones : DeviceChanges(z)
    \/ Report
    \/ ViewCatchesUp
    \/ Tick
    \/ CalmDown

Spec == Init /\ [][Next]_vars

\* The timer polls, the clock runs, calls return, the device goes on reporting,
\* the cloud catches up, and the disturbances end.
Fairness ==
    /\ WF_vars(Poll)
    /\ WF_vars(Tick)
    /\ WF_vars(SomeCallReturns)
    /\ WF_vars(Report)
    /\ WF_vars(ViewCatchesUp)
    /\ WF_vars(CalmDown)

FairSpec == Spec /\ Fairness

-----------------------------------------------------------------------------
(* Properties.                                                             *)

\* Once a reply has shown what a command did, no reading from before that moment
\* shows the zone again: neither a poll that was in flight, nor a late frame, nor
\* the reply to a sibling's command.  An undated reading is told apart from an
\* old one only until the guard window is over.
NeverBehindItsReply ==
    \A z \in known : answered[z] # None => shown[z].late \/ shown[z].at >= answered[z]

\* The controller's record describes one moment for all its stations: no guard
\* and no reply leaves it a mixture of two.
OneMoment ==
    framing = "station" => \A y, z \in Zones :
        y \in known => z \in known /\ shown[y].at = shown[z].at

\* The guard lets go: when the disturbances are over, what is shown ends up being
\* what the device does, whether its entries are dated or not.
ShownSettles ==
    <>[](known = Zones /\ \A z \in Zones : shown[z].open = device.zones[z])

=============================================================================
