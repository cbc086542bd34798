------------------------- MODULE ValveCommand_proofs -------------------------
(***************************************************************************)
(* Theorems of ValveCommand for every set of zones, guard window and clock *)
(* bound.  Where a reply describes more than its own zone, no two commands *)
(* may be in flight at once (run valve_overlap shows why).                 *)
(***************************************************************************)
EXTENDS ValveCommand, FiniteSetTheorems, TLAPS

-----------------------------------------------------------------------------
(* Type correctness.                                                       *)

\* The values the models start and idle with are of their types.
LEMMA Defaults ==
  /\ 0 \in Time /\ Time \subseteq Int
  /\ Origin \in Snapshot /\ NoReading \in Reading /\ NoCommand \in Command
<1>1. 0 \in Time /\ Time \subseteq Int
  BY CommandAssumption DEF Time
<1>2. Origin \in Snapshot /\ NoReading \in Reading
  BY <1>1 DEF Origin, Snapshot, NoReading, Reading
<1> QED
  BY <1>1, <1>2 DEF NoCommand, Command

\* A reading that enters the data leaves every zone with a reading.
LEMMA TakeType ==
  ASSUME TypeOK, NEW s \in Snapshot, Take(s)
  PROVE  /\ known' = Zones /\ entry' = "reading"
         /\ shown' \in [Zones -> Reading] /\ answered' \in [Zones -> Moment]
<1>1. \A z \in Zones, dated \in Dates : Late(z, dated) \in BOOLEAN
  BY DEF Late
<1>2. ASSUME NEW dated \in Dates, NEW z \in Zones
      PROVE  [open |-> s.zones[z], at |-> s.at, late |-> Late(z, dated)] \in Reading
  BY <1>1, <1>2 DEF Snapshot, Reading
<1> QED
  BY <1>2 DEF Take, TypeOK

\* A key without a reading shows no zone.
LEMMA DropType ==
  ASSUME NEW kind, Drop(kind)
  PROVE  /\ known' = {} /\ entry' = kind
         /\ shown' \in [Zones -> Reading] /\ answered' \in [Zones -> Moment]
BY Defaults DEF Drop, Moment

\* A payload that does not decode shows no zone, or is set aside.
LEMMA SpoilCases ==
  ASSUME NEW s, Spoil(s)
  PROVE  UNCHANGED <<data, answered>> \/ Drop("blank")
BY DEF Spoil

\* A reply with a state in it shows its zones inside an entry.
LEMMA ApplyType ==
  ASSUME TypeOK, NEW z \in Zones, NEW s \in Snapshot, Apply(z, s)
  PROVE  /\ known' \subseteq Zones
         /\ entry' \in {"unpolled", "absent", "blank", "reading"}
         /\ known' # {} => entry' \in {"blank", "reading"}
         /\ shown' \in [Zones -> Reading] /\ answered' \in [Zones -> Moment]
<1>1. \A y \in Zones : [open |-> s.zones[y], at |-> s.at, late |-> FALSE] \in Reading
  BY DEF Snapshot, Reading
<1>2. s.at \in Moment
  BY DEF Snapshot, Moment
<1>3. CASE entry \in {"unpolled", "absent"}
  BY <1>3 DEF Apply, TypeOK, data
<1>4. CASE entry \notin {"unpolled", "absent"}
  <2>1. shown' \in [Zones -> Reading]
    BY <1>1, <1>4 DEF Apply, Described, TypeOK
  <2> QED
    BY <1>2, <1>4, <2>1 DEF Apply, Described, TypeOK
<1> QED
  BY <1>3, <1>4

\* What the device reports at this moment.
LEMMA StampedType ==
  ASSUME TypeOK, NEW z \in Zones, NEW open \in BOOLEAN
  PROVE  Stamped(Obeyed(z, open)) \in Snapshot /\ Stamped(device.zones) \in Snapshot
<1>1. device.zones \in [Zones -> BOOLEAN] /\ now \in Time
  BY DEF TypeOK, Snapshot
<1>2. Obeyed(z, open) \in [Zones -> BOOLEAN]
  BY <1>1 DEF Obeyed
<1> QED
  BY <1>1, <1>2 DEF Stamped, Snapshot

\* The first coordinator of a session has every variable in its type.
LEMMA InitType == Init => TypeOK
BY Defaults DEF Init, TypeOK, Moment

\* Every step keeps every variable in its type.
LEMMA NextType == TypeOK /\ [Next]_vars => TypeOK'
<1> SUFFICES ASSUME TypeOK, [Next]_vars
             PROVE  TypeOK'
  OBVIOUS
<1>1. CASE PollFetch
  BY <1>1 DEF PollFetch, TypeOK, cloud, data
<1>2. CASE PollTail
  <2>1. \/ Take(polled)
        \/ UNCHANGED <<data, answered>>
        \/ \E kind \in {"absent", "blank"} : Drop(kind)
    BY <1>2, SpoilCases DEF PollTail
  <2>2. polled \in Snapshot
    BY DEF TypeOK
  <2>3. /\ known' \subseteq Zones
        /\ entry' \in {"unpolled", "absent", "blank", "reading"}
        /\ known' # {} => entry' \in {"blank", "reading"}
        /\ shown' \in [Zones -> Reading] /\ answered' \in [Zones -> Moment]
    BY <2>1, <2>2, TakeType, DropType DEF TypeOK, data
  <2> QED
    BY <1>2, <2>3, Defaults DEF PollTail, TypeOK, cloud
<1>3. CASE PollFails
  BY <1>3, Defaults DEF PollFails, TypeOK, cloud, data
<1>4. CASE Push
  <2>1. PICK s \in {device, view} :
           Take(s) \/ UNCHANGED <<data, answered>> \/ Drop("blank")
    BY <1>4, SpoilCases DEF Push
  <2>2. s \in Snapshot
    BY DEF TypeOK
  <2>3. /\ known' \subseteq Zones
        /\ entry' \in {"unpolled", "absent", "blank", "reading"}
        /\ known' # {} => entry' \in {"blank", "reading"}
        /\ shown' \in [Zones -> Reading] /\ answered' \in [Zones -> Moment]
    BY <2>1, <2>2, TakeType, DropType DEF TypeOK, data
  <2> QED
    BY <1>4, <2>3 DEF Push, TypeOK, cloud, poll
<1>5. ASSUME NEW z \in Zones, NEW open \in BOOLEAN, Send(z, open)
      PROVE  TypeOK'
  <2>1. [NoCommand EXCEPT !.step = "sent", !.open = open] \in Command
    BY Defaults DEF Command
  <2> QED
    BY <1>5, <2>1 DEF Send, TypeOK, cloud, poll, data
<1>6. ASSUME NEW z \in Zones, Reply(z)
      PROVE  TypeOK'
  <2>1. command' \in [Zones -> Command] /\ recorded' \in [Zones -> Moment]
    BY <1>6, Defaults DEF Reply, TypeOK, Moment
  <2>2. command[z].reply \in Snapshot
    BY DEF TypeOK, Command
  <2>3. /\ known' \subseteq Zones
        /\ entry' \in {"unpolled", "absent", "blank", "reading"}
        /\ known' # {} => entry' \in {"blank", "reading"}
        /\ shown' \in [Zones -> Reading] /\ answered' \in [Zones -> Moment]
    BY <1>6, <2>2, ApplyType DEF Reply, TypeOK, data
  <2> QED
    BY <1>6, <2>1, <2>3 DEF Reply, TypeOK, cloud, poll
<1>7. ASSUME NEW z \in Zones, CommandFails(z)
      PROVE  TypeOK'
  BY <1>7, Defaults DEF CommandFails, TypeOK, cloud, poll, data
<1>8. ASSUME NEW z \in Zones, Act(z)
      PROVE  TypeOK'
  <2>1. command[z].open \in BOOLEAN
    BY DEF TypeOK, Command
  <2>2. device' \in Snapshot /\ command' \in [Zones -> Command]
    BY <1>8, <2>1, StampedType DEF Act, TypeOK, Command
  <2> QED
    BY <1>8, <2>2 DEF Act, TypeOK, poll, data
<1>9. CASE NewSession
  BY <1>9, Defaults DEF NewSession, Drop, TypeOK, Moment, cloud
<1>10. ASSUME NEW z \in Zones, DeviceChanges(z)
       PROVE  TypeOK'
  BY <1>10, StampedType DEF DeviceChanges, TypeOK, poll, data
<1>11. CASE Report
  <2>1. Stamped(device.zones) \in Snapshot
    BY DEF Stamped, Snapshot, TypeOK
  <2> QED
    BY <1>11, <2>1 DEF Report, TypeOK, poll, data
<1>12. CASE ViewCatchesUp
  BY <1>12 DEF ViewCatchesUp, TypeOK, poll, data
<1>13. CASE Tick
  BY <1>13, CommandAssumption DEF Tick, TypeOK, Time, cloud, poll, data
<1>14. CASE CalmDown
  BY <1>14 DEF CalmDown, TypeOK, poll, data
<1>15. CASE UNCHANGED vars
  BY <1>15 DEF vars, TypeOK, cloud, poll, data
<1> QED
  BY <1>1, <1>2, <1>3, <1>4, <1>5, <1>6, <1>7, <1>8, <1>9, <1>10, <1>11, <1>12, <1>13, <1>14,
     <1>15 DEF Next, Poll, Finish

\* Every variable keeps its type, for any zones, guard window and clock.
THEOREM TypeCorrect == Spec => []TypeOK
BY InitType, NextType, PTL DEF Spec

-----------------------------------------------------------------------------
(* The order of replies, records and readings.                             *)

\* Only a shown and commanded zone has been answered; the record of a command is
\* made when its reply arrives, so it is no older than what the reply says.
AnswersAreRecorded ==
    \A z \in Zones : answered[z] # None =>
        /\ z \in known
        /\ recorded[z] # None
        /\ answered[z] <= recorded[z]

\* Nothing is recorded, and no reply under way speaks, of the time to come.
NothingFromTheFuture ==
    /\ \A z \in Zones : recorded[z] # None => recorded[z] <= now
    /\ \A z \in Zones : command[z].step = "acted" => command[z].reply.at <= now

\* Where a reply describes siblings, it is the only one under way and speaks of
\* a later moment than every reply applied so far.
RepliesInOrder ==
    framing # "dp" => \A y, z \in Zones :
        /\ InFlight(y) /\ InFlight(z) => y = z
        /\ command[y].step = "acted" /\ answered[z] # None => answered[z] <= command[y].reply.at

Ordered ==
    /\ TypeOK
    /\ AnswersAreRecorded
    /\ NothingFromTheFuture
    /\ RepliesInOrder
    /\ NeverBehindItsReply

\* The dates the comparisons below are about are integers.
LEMMA DatesAreInts ==
  ASSUME TypeOK
  PROVE  /\ now \in Int
         /\ \A z \in Zones : answered[z] # None => answered[z] \in Int
         /\ \A z \in Zones : recorded[z] # None => recorded[z] \in Int
         /\ \A z \in Zones : shown[z].at \in Int /\ command[z].reply.at \in Int
BY Defaults DEF TypeOK, Moment, Reading, Command, Snapshot

\* A reading that the guard lets through is younger than the zone's reply, or it
\* was undated and the guard window is over.
LEMMA TakenIsYounger ==
  ASSUME Ordered, NEW s \in Snapshot, NEW dated \in Dates,
         NEW z \in Zones \ Held(s, dated), answered[z] # None
  PROVE  Late(z, dated) \/ s.at >= answered[z]
<1>1. z \in known /\ recorded[z] # None /\ answered[z] <= recorded[z]
  BY DEF Ordered, AnswersAreRecorded
<1>2. ~Stale(s.at, dated, recorded[z])
  BY <1>1 DEF Held
<1>3. now \in Int /\ answered[z] \in Int /\ recorded[z] \in Int
  BY <1>1, DatesAreInts DEF Ordered
<1>4. s.at \in Int /\ Guard \in Int
  <2>1. s.at \in Time
    BY DEF Snapshot
  <2> QED
    BY <2>1, CommandAssumption DEF Time
<1>5. CASE dated = TRUE
  <2>1. ~(s.at < recorded[z])
    BY <1>1, <1>2, <1>5 DEF Stale
  <2> QED
    BY <1>1, <1>3, <1>4, <2>1
<1>6. CASE dated = FALSE
  <2>1. ~(now - recorded[z] < Guard)
    BY <1>1, <1>2, <1>6 DEF Stale
  <2>2. now - recorded[z] >= Guard
    BY <1>3, <1>4, <2>1
  <2> QED
    BY <1>1, <1>6, <2>2 DEF Late
<1> QED
  BY <1>5, <1>6, CommandAssumption

\* A polled or pushed reading keeps what is shown in order.
LEMMA TakeOrdered ==
  ASSUME Ordered, NEW s \in Snapshot, Take(s), UNCHANGED <<framing, recorded>>
  PROVE  AnswersAreRecorded' /\ NeverBehindItsReply'
<1>1. PICK dated \in Dates :
         shown' = [z \in Zones |->
            IF z \in Held(s, dated) THEN shown[z]
            ELSE [open |-> s.zones[z], at |-> s.at, late |-> Late(z, dated)]]
  BY DEF Take
<1>2. known' = Zones /\ answered' = answered
  BY DEF Take
<1>3. AnswersAreRecorded'
  BY <1>2 DEF Ordered, AnswersAreRecorded
<1>4. NeverBehindItsReply'
  <2> SUFFICES ASSUME NEW z \in Zones, answered[z] # None
               PROVE  shown'[z].late \/ shown'[z].at >= answered[z]
    BY <1>2 DEF NeverBehindItsReply
  <2>1. CASE z \in Held(s, dated)
    BY <1>1, <2>1 DEF Held, Ordered, NeverBehindItsReply
  <2>2. CASE z \notin Held(s, dated)
    BY <1>1, <2>2, TakenIsYounger
  <2> QED
    BY <2>1, <2>2
<1> QED
  BY <1>3, <1>4

\* A key without a reading has nothing to be out of order.
LEMMA DropOrdered ==
  ASSUME NEW kind, Drop(kind)
  PROVE  AnswersAreRecorded' /\ NeverBehindItsReply'
BY DEF Drop, AnswersAreRecorded, NeverBehindItsReply

\* Nor does a payload that does not decode put anything out of order.
LEMMA SpoilOrdered ==
  ASSUME Ordered, NEW s, Spoil(s), UNCHANGED <<framing, recorded>>
  PROVE  AnswersAreRecorded' /\ NeverBehindItsReply'
<1>1. CASE UNCHANGED <<data, answered>>
  BY <1>1 DEF Ordered, AnswersAreRecorded, NeverBehindItsReply, data
<1> QED
  BY <1>1, SpoilCases, DropOrdered

\* A reply is the youngest thing known of the zones it describes.
LEMMA ReplyOrdered ==
  ASSUME Ordered, NEW z \in Zones, Reply(z)
  PROVE  AnswersAreRecorded' /\ NeverBehindItsReply'
<1> DEFINE s == command[z].reply
<1>1. /\ recorded' = [recorded EXCEPT ![z] = now]
      /\ UNCHANGED framing
      /\ recorded \in [Zones -> Moment] /\ answered \in [Zones -> Moment]
  BY DEF Reply, cloud, Ordered, TypeOK
<1>2. s.at <= now /\ s.at \in Int /\ now \in Int /\ now # None /\ s.at # None
  BY DatesAreInts, CommandAssumption DEF Reply, Ordered, NothingFromTheFuture
<1>3. \A y \in Zones : answered[y] # None => answered[y] <= recorded'[y] /\ recorded'[y] # None
  BY <1>1, <1>2, DatesAreInts DEF Ordered, AnswersAreRecorded, NothingFromTheFuture
<1>4. CASE UNCHANGED <<data, answered>>
  BY <1>1, <1>3, <1>4 DEF data, Ordered, AnswersAreRecorded, NeverBehindItsReply
<1>5. CASE Apply(z, s) /\ entry \notin {"unpolled", "absent"}
  <2>1. /\ known' = known \cup (IF framing = "dp" THEN {z} ELSE Zones)
        /\ shown' = [y \in Zones |->
              IF y = z \/ framing # "dp"
              THEN [open |-> s.zones[y], at |-> s.at, late |-> FALSE]
              ELSE shown[y]]
        /\ answered' = [answered EXCEPT ![z] = s.at]
    BY <1>5 DEF Apply, Described
  <2>2. AnswersAreRecorded'
    <3> SUFFICES ASSUME NEW y \in Zones, answered'[y] # None
                 PROVE  y \in known' /\ recorded'[y] # None /\ answered'[y] <= recorded'[y]
      BY DEF AnswersAreRecorded
    <3>1. CASE y = z
      BY <1>1, <1>2, <2>1, <3>1
    <3>2. CASE y # z
      BY <1>1, <1>3, <2>1, <3>2 DEF Ordered, AnswersAreRecorded
    <3> QED
      BY <3>1, <3>2
  <2>3. NeverBehindItsReply'
    <3> SUFFICES ASSUME NEW y \in Zones, y \in known', answered'[y] # None
                 PROVE  shown'[y].late \/ shown'[y].at >= answered'[y]
      BY <2>1 DEF NeverBehindItsReply, Ordered, TypeOK
    <3>1. CASE y = z
      BY <1>1, <1>2, <2>1, <3>1
    <3>2. CASE y # z /\ framing = "dp"
      BY <1>1, <2>1, <3>2 DEF Ordered, NeverBehindItsReply
    <3>3. CASE y # z /\ framing # "dp"
      <4>1. answered[y] # None /\ answered'[y] = answered[y] /\ shown'[y].at = s.at
        BY <1>1, <2>1, <3>3
      <4>2. answered[y] <= s.at
        BY <3>3, <4>1 DEF Reply, Ordered, RepliesInOrder
      <4> QED
        BY <1>2, <4>1, <4>2, DatesAreInts DEF Ordered
    <3> QED
      BY <3>1, <3>2, <3>3
  <2> QED
    BY <2>2, <2>3
<1> QED
  BY <1>4, <1>5 DEF Reply, Apply

\* Where replies describe siblings, commands are sent one at a time.
LEMMA OrderedStep ==
  ASSUME Overlapping \subseteq {"dp"}
  PROVE  Ordered /\ [Next]_vars => Ordered'
<1> SUFFICES ASSUME Ordered, [Next]_vars
             PROVE  Ordered'
  OBVIOUS
<1>0. TypeOK /\ TypeOK'
  BY NextType DEF Ordered
<1>a. ASSUME UNCHANGED <<now, framing, command, known, shown, recorded, answered>>
      PROVE  Ordered'
  BY <1>0, <1>a DEF Ordered, AnswersAreRecorded, NothingFromTheFuture, RepliesInOrder, InFlight,
                    NeverBehindItsReply
<1>b. ASSUME UNCHANGED <<now, framing, command, recorded>>,
             AnswersAreRecorded' /\ NeverBehindItsReply',
             \A z \in Zones : answered'[z] # None => answered'[z] = answered[z]
      PROVE  Ordered'
  BY <1>0, <1>b DEF Ordered, NothingFromTheFuture, RepliesInOrder, InFlight
<1>c. command \in [Zones -> Command]
  BY <1>0 DEF TypeOK
<1>d. NoCommand.step = "idle"
  BY DEF NoCommand
<1>1. CASE PollTail \/ Push
  <2>1. UNCHANGED <<now, framing, command, recorded>>
    BY <1>1 DEF PollTail, Push, cloud
  <2>2. \/ \E s \in Snapshot : Take(s) \/ Spoil(s)
        \/ \E kind \in {"absent", "blank"} : Drop(kind)
    BY <1>0, <1>1 DEF PollTail, Push, TypeOK
  <2>3. AnswersAreRecorded' /\ NeverBehindItsReply'
    BY <2>1, <2>2, TakeOrdered, DropOrdered, SpoilOrdered
  <2>4. \A z \in Zones : answered'[z] # None => answered'[z] = answered[z]
    BY <2>2 DEF Take, Spoil, Drop
  <2> QED
    BY <1>b, <2>1, <2>3, <2>4
<1>2. ASSUME NEW z \in Zones, NEW open \in BOOLEAN, Send(z, open)
      PROVE  Ordered'
  <2>1. /\ UNCHANGED <<now, framing, known, shown, recorded, answered>>
        /\ command'[z].step = "sent"
        /\ \A y \in Zones \ {z} : command'[y] = command[y]
    BY <1>2, <1>c DEF Send, cloud, data, NoCommand
  <2>2. framing # "dp" => \A y \in Zones : ~InFlight(y)
    BY <1>2 DEF Send
  <2>3. RepliesInOrder'
    BY <2>1, <2>2 DEF RepliesInOrder, InFlight
  <2>4. NothingFromTheFuture'
    BY <2>1 DEF Ordered, NothingFromTheFuture
  <2> QED
    BY <1>0, <2>1, <2>3, <2>4 DEF Ordered, AnswersAreRecorded, NeverBehindItsReply
<1>3. ASSUME NEW z \in Zones, Reply(z)
      PROVE  Ordered'
  <2>1. /\ UNCHANGED <<now, framing>>
        /\ command' = [command EXCEPT ![z] = NoCommand]
        /\ recorded' = [recorded EXCEPT ![z] = now]
        /\ \A y \in Zones \ {z} : answered'[y] = answered[y]
        /\ command[z].step = "acted"
    BY <1>3, <1>0 DEF Reply, Apply, cloud, TypeOK
  <2>2. NothingFromTheFuture'
    BY <1>0, <1>c, <1>d, <2>1, DatesAreInts DEF Ordered, NothingFromTheFuture, TypeOK
  <2>3. framing # "dp" => \A y \in Zones : command'[y].step = "idle"
    BY <1>c, <1>d, <2>1 DEF Ordered, RepliesInOrder, InFlight
  <2>4. RepliesInOrder'
    BY <2>1, <2>3 DEF RepliesInOrder, InFlight
  <2> QED
    BY <1>0, <1>3, <2>2, <2>4, ReplyOrdered DEF Ordered
<1>4. ASSUME NEW z \in Zones, CommandFails(z)
      PROVE  Ordered'
  <2>1. /\ UNCHANGED <<now, framing, known, shown, recorded, answered>>
        /\ \A y \in Zones : command'[y] = command[y] \/ command'[y].step = "idle"
    BY <1>4, <1>c, <1>d DEF CommandFails, cloud, data
  <2>2. RepliesInOrder' /\ NothingFromTheFuture'
    BY <2>1 DEF Ordered, RepliesInOrder, NothingFromTheFuture, InFlight
  <2> QED
    BY <1>0, <2>1, <2>2 DEF Ordered, AnswersAreRecorded, NeverBehindItsReply
<1>5. ASSUME NEW z \in Zones, Act(z)
      PROVE  Ordered'
  <2>1. /\ UNCHANGED <<now, framing, known, shown, recorded, answered>>
        /\ command'[z].step = "acted" /\ command'[z].reply.at = now
        /\ \A y \in Zones \ {z} : command'[y] = command[y]
        /\ command[z].step = "sent"
    BY <1>5, <1>c DEF Act, data, Stamped, Command
  <2>2. now \in Int /\ \A y \in Zones : answered[y] # None => answered[y] <= now
    BY <1>0, DatesAreInts DEF Ordered, AnswersAreRecorded, NothingFromTheFuture
  <2>3. NothingFromTheFuture'
    BY <2>1, <2>2 DEF Ordered, NothingFromTheFuture
  <2>4. RepliesInOrder'
    BY <2>1, <2>2 DEF Ordered, RepliesInOrder, InFlight
  <2> QED
    BY <1>0, <2>1, <2>3, <2>4 DEF Ordered, AnswersAreRecorded, NeverBehindItsReply
<1>6. CASE NewSession
  <2>1. /\ \A z \in Zones : command'[z].step = "idle" /\ recorded'[z] = None /\ answered'[z] = None
        /\ known' = {}
    BY <1>6, <1>d DEF NewSession, Drop
  <2> QED
    BY <1>0, <2>1 DEF Ordered, AnswersAreRecorded, NothingFromTheFuture, RepliesInOrder, InFlight,
                      NeverBehindItsReply
<1>7. CASE Tick
  <2>1. /\ now' = now + 1
        /\ UNCHANGED <<framing, command, known, shown, recorded, answered>>
    BY <1>7 DEF Tick, cloud, data
  <2>2. NothingFromTheFuture'
    BY <1>0, <2>1, DatesAreInts DEF Ordered, NothingFromTheFuture
  <2> QED
    BY <1>0, <2>1, <2>2 DEF Ordered, AnswersAreRecorded, RepliesInOrder, InFlight,
                            NeverBehindItsReply
<1>8. CASE PollFetch \/ PollFails \/ (\E z \in Zones : DeviceChanges(z)) \/ Report
           \/ ViewCatchesUp \/ CalmDown \/ UNCHANGED vars
  BY <1>a, <1>8 DEF PollFetch, PollFails, DeviceChanges, Report, ViewCatchesUp, CalmDown, vars,
                    cloud, data
<1> QED
  BY <1>1, <1>2, <1>3, <1>4, <1>5, <1>6, <1>7, <1>8 DEF Next, Poll, Finish

\* Before the first poll nothing is out of order.
LEMMA OrderedInit == Init => Ordered
BY InitType DEF Init, Ordered, AnswersAreRecorded, NothingFromTheFuture, RepliesInOrder, InFlight,
                NoCommand, NeverBehindItsReply

\* Where replies describe siblings (hubs and controllers), and commands to them
\* are sent one at a time, no poll, push or reply from before a command's reply
\* shows its zone again (_preserve_recent_valve_command_state).
THEOREM CommandsAreNotReverted ==
  ASSUME Overlapping \subseteq {"dp"}
  PROVE  Spec => []NeverBehindItsReply
<1>1. Ordered => NeverBehindItsReply
  BY DEF Ordered
<1> QED
  BY <1>1, OrderedInit, OrderedStep, PTL DEF Spec

-----------------------------------------------------------------------------
(* One record, one moment.                                                 *)

\* A polled or pushed reading is taken, or set aside, for all stations at once.
LEMMA TakeIsWhole ==
  ASSUME OneMoment, NEW s, Take(s), UNCHANGED framing
  PROVE  OneMoment'
<1>1. PICK dated \in Dates :
         shown' = [z \in Zones |->
            IF z \in Held(s, dated) THEN shown[z]
            ELSE [open |-> s.zones[z], at |-> s.at, late |-> Late(z, dated)]]
  BY DEF Take
<1>2. known' = Zones
  BY DEF Take
<1> SUFFICES ASSUME framing = "station", NEW y \in Zones, NEW z \in Zones
             PROVE  shown'[y].at = shown'[z].at
  BY <1>2 DEF OneMoment
<1>3. y \in known <=> z \in known
  BY DEF OneMoment
<1>4. y \in Held(s, dated) <=> z \in Held(s, dated)
  BY <1>3 DEF Held
<1>5. CASE y \in Held(s, dated)
  <2>1. y \in known /\ shown[y].at = shown[z].at
    BY <1>5 DEF Held, OneMoment
  <2> QED
    BY <1>1, <1>4, <1>5, <2>1
<1>6. CASE y \notin Held(s, dated)
  BY <1>1, <1>4, <1>6
<1> QED
  BY <1>5, <1>6

\* The controller's record is never a mixture of two moments, whatever overlaps
\* (_preserve_recent_hic_command_state, RainPointHicStationValveEntity).
THEOREM RecordIsOfOneMoment == Spec => []OneMoment
<1>1. Init => OneMoment
  BY DEF Init, OneMoment
<1>2. OneMoment /\ [Next]_vars => OneMoment'
  <2> SUFFICES ASSUME OneMoment, [Next]_vars
               PROVE  OneMoment'
    OBVIOUS
  <2>1. ASSUME UNCHANGED <<framing, known, shown>>
        PROVE  OneMoment'
    BY <2>1 DEF OneMoment
  <2>2. ASSUME NEW kind, Drop(kind)
        PROVE  OneMoment'
    BY <2>2 DEF Drop, OneMoment
  <2>3. ASSUME NEW s, Take(s) \/ Spoil(s), UNCHANGED framing
        PROVE  OneMoment'
    BY <2>1, <2>2, <2>3, TakeIsWhole, SpoilCases DEF data
  <2>4. CASE PollTail \/ Push
    BY <2>2, <2>3, <2>4 DEF PollTail, Push, cloud
  <2>5. CASE NewSession
    BY <2>2, <2>5 DEF NewSession
  <2>6. ASSUME NEW z \in Zones, Reply(z)
        PROVE  OneMoment'
    <3>1. UNCHANGED framing
      BY <2>6 DEF Reply, cloud
    <3>2. CASE UNCHANGED data
      BY <2>1, <3>1, <3>2 DEF data
    <3>3. CASE Apply(z, command[z].reply) /\ ~UNCHANGED data
      BY <3>1, <3>3 DEF Apply, Described, OneMoment
    <3> QED
      BY <2>6, <3>2, <3>3 DEF Reply
  <2>7. CASE \/ PollFetch \/ PollFails \/ Report \/ ViewCatchesUp \/ Tick \/ CalmDown
             \/ UNCHANGED vars
             \/ \E z \in Zones : DeviceChanges(z) \/ Act(z) \/ CommandFails(z)
             \/ \E z \in Zones, open \in BOOLEAN : Send(z, open)
    BY <2>1, <2>7 DEF PollFetch, PollFails, Report, ViewCatchesUp, Tick, CalmDown, vars,
                      DeviceChanges, Act, CommandFails, Send, cloud, data
  <2> QED
    BY <2>4, <2>5, <2>6, <2>7 DEF Next, Poll, Finish
<1> QED
  BY <1>1, <1>2, PTL DEF Spec

-----------------------------------------------------------------------------
(* The guard lets go.                                                      *)

\* The clock waits for every call, and no command is recorded after LastReply:
\* when the clock stands at its bound, every guard window is over.
InTime ==
    \A z \in Zones :
        /\ InFlight(z) => now <= LastReply
        /\ recorded[z] # None => recorded[z] <= LastReply

\* No step records a command later.
LEMMA InTimeStep == TypeOK /\ InTime /\ [Next]_vars => InTime'
<1> SUFFICES ASSUME TypeOK, InTime, [Next]_vars
             PROVE  InTime'
  OBVIOUS
<1>1. /\ now \in Int /\ LastReply \in Int /\ NoCommand.step = "idle"
      /\ command \in [Zones -> Command] /\ recorded \in [Zones -> Moment]
  BY CommandAssumption DEF TypeOK, Time, LastReply, NoCommand
<1>2. ASSUME UNCHANGED <<now, recorded>>, \A z \in Zones : InFlight(z)' => InFlight(z)
      PROVE  InTime'
  BY <1>2 DEF InTime
<1>3. ASSUME NEW z \in Zones, NEW open \in BOOLEAN, Send(z, open)
      PROVE  InTime'
  <2>1. now < LastReply /\ UNCHANGED <<now, recorded>>
    BY <1>3 DEF Send
  <2> QED
    BY <1>1, <2>1 DEF InTime
<1>4. ASSUME NEW z \in Zones, Reply(z)
      PROVE  InTime'
  <2>1. now <= LastReply
    BY <1>4 DEF Reply, InTime, InFlight
  <2>2. /\ command' = [command EXCEPT ![z] = NoCommand]
        /\ recorded' = [recorded EXCEPT ![z] = now]
        /\ UNCHANGED now
    BY <1>4 DEF Reply
  <2> QED
    BY <1>1, <2>1, <2>2 DEF InTime, InFlight
<1>5. ASSUME NEW z \in Zones, CommandFails(z)
      PROVE  InTime'
  <2>1. command' = [command EXCEPT ![z] = NoCommand] /\ UNCHANGED <<now, recorded>>
    BY <1>5 DEF CommandFails
  <2> QED
    BY <1>1, <1>2, <2>1 DEF InFlight
<1>6. ASSUME NEW z \in Zones, Act(z)
      PROVE  InTime'
  <2>1. UNCHANGED <<now, recorded>> /\ InFlight(z)
    BY <1>6 DEF Act, InFlight
  <2>2. \A y \in Zones \ {z} : command'[y] = command[y]
    BY <1>1, <1>6 DEF Act
  <2> QED
    BY <1>2, <2>1, <2>2 DEF InFlight
<1>7. CASE NewSession
  BY <1>1, <1>7 DEF NewSession, InTime, InFlight
<1>8. CASE Tick
  <2>1. now' = now + 1 /\ UNCHANGED <<command, recorded>>
    BY <1>8 DEF Tick
  <2>2. \A z \in Zones : InFlight(z) => now < LastReply
    BY <1>8 DEF Tick
  <2> QED
    BY <1>1, <2>1, <2>2 DEF InTime, InFlight
<1>9. CASE \/ Poll \/ PollFails \/ Push \/ Report \/ ViewCatchesUp \/ CalmDown \/ UNCHANGED vars
           \/ \E z \in Zones : DeviceChanges(z)
  BY <1>2, <1>9 DEF Poll, PollFetch, PollTail, PollFails, Push, Report, ViewCatchesUp, CalmDown,
                    vars, DeviceChanges, InFlight
<1> QED
  BY <1>3, <1>4, <1>5, <1>6, <1>7, <1>8, <1>9 DEF Next, Finish

\* The two invariants the steps below rest on.
LEMMA InTimeHolds == Spec => [](TypeOK /\ InTime)
<1>1. NoCommand.step = "idle"
  BY DEF NoCommand
<1>2. Init => InTime
  BY <1>1 DEF Init, InTime, InFlight
<1> QED
  BY <1>2, InTimeStep, InitType, NextType, PTL DEF Spec

\* The disturbances are over and the clock stands at its bound.
Quiet == calm /\ now = MaxTime

\* The device has reported for the last time, and the cloud serves that report.
Settled == device.at = MaxTime /\ view = device

\* What is shown is what the device does.
Agrees == known = Zones /\ \A z \in Zones : shown[z].open = device.zones[z]

\* No reading of that moment is set aside, dated or not.
LEMMA NothingHeld ==
  ASSUME TypeOK, InTime, Quiet, Settled, NEW dated \in Dates
  PROVE  Held(device, dated) = {}
<1>1. ASSUME NEW z \in Zones, recorded[z] # None
      PROVE  recorded[z] \in Int /\ recorded[z] <= MaxTime - Guard
  BY <1>1 DEF InTime, LastReply, TypeOK, Moment, Time
<1>2. ASSUME NEW z \in Zones
      PROVE  ~Stale(device.at, dated, recorded[z])
  BY <1>1, CommandAssumption DEF Stale, Quiet, Settled
<1> QED
  BY <1>2 DEF Held, TypeOK

\* So the reading is shown whole.
LEMMA SettledTake ==
  ASSUME TypeOK, InTime, Quiet, Settled, Take(device), UNCHANGED device
  PROVE  Agrees'
BY NothingHeld DEF Take, Agrees

\* Then the device only reports, the view only catches up, and the data only
\* takes what they say.
LEMMA QuietStep ==
  ASSUME TypeOK, InTime, Quiet, Guard > 0, [Next]_vars
  PROVE  /\ Quiet'
         /\ device.at = MaxTime => UNCHANGED device
         /\ view = device /\ UNCHANGED device => view' = device'
         /\ \/ UNCHANGED <<poll, data>>
            \/ PollFetch
            \/ PollTail /\ Take(polled)
            \/ Push /\ (Take(device) \/ Take(view))
<1>1. \A z \in Zones : ~InFlight(z)
  BY CommandAssumption DEF InTime, Quiet, LastReply
<1>2. \A z \in Zones : /\ ~Finish(z) /\ ~Act(z) /\ ~DeviceChanges(z)
                       /\ \A open \in BOOLEAN : ~Send(z, open)
  BY <1>1 DEF Quiet, Finish, Reply, CommandFails, Act, DeviceChanges, Send, InFlight
<1>3. ~PollFails /\ ~NewSession /\ ~Tick
  BY CommandAssumption DEF Quiet, PollFails, NewSession, Tick
<1>4. CASE Poll
  BY <1>4 DEF Poll, PollFetch, PollTail, Quiet, cloud
<1>5. CASE Push
  BY <1>5 DEF Push, Quiet, cloud
<1>6. CASE Report
  BY <1>6, CommandAssumption DEF Report, Quiet
<1>7. CASE ViewCatchesUp
  BY <1>7 DEF ViewCatchesUp, Quiet
<1>8. CASE CalmDown \/ UNCHANGED vars
  BY <1>8 DEF CalmDown, vars, cloud, Quiet
<1> QED
  BY <1>2, <1>3, <1>4, <1>5, <1>6, <1>7, <1>8 DEF Next

\* Each step then is half of a poll, a push of that last report, or changes
\* nothing that is shown.
LEMMA SettledStep ==
  ASSUME TypeOK, InTime, Quiet, Settled, Guard > 0, [Next]_vars
  PROVE  /\ UNCHANGED device /\ Quiet' /\ Settled'
         /\ Poll => phase' # phase
         /\ \/ UNCHANGED poll /\ (UNCHANGED data \/ Agrees')
            \/ phase = "idle" /\ phase' = "fetched" /\ polled' = device' /\ UNCHANGED data
            \/ phase = "fetched" /\ phase' = "idle" /\ (polled = device => Agrees')
<1>1. UNCHANGED device /\ Quiet' /\ Settled'
  BY QuietStep DEF Settled
<1>2. Poll => phase' # phase
  BY DEF Poll, PollFetch, PollTail
<1>3. CASE UNCHANGED <<poll, data>>
  BY <1>1, <1>2, <1>3
<1>4. CASE PollFetch
  BY <1>1, <1>2, <1>4 DEF PollFetch, Settled
<1>5. CASE PollTail /\ Take(polled)
  BY <1>1, <1>2, <1>5, SettledTake DEF PollTail
<1>6. CASE Push /\ (Take(device) \/ Take(view))
  BY <1>1, <1>2, <1>6, SettledTake DEF Push, Settled
<1> QED
  BY <1>3, <1>4, <1>5, <1>6, QuietStep

\* The two conditions for that are never lost again.
LEMMA QuietLasts ==
  ASSUME TypeOK, [Next]_vars
  PROVE  /\ calm => calm'
         /\ now = MaxTime => now' = MaxTime
<1>1. ~(now = MaxTime /\ Tick)
  BY CommandAssumption DEF Tick
<1>2. CASE Poll \/ PollFails \/ Push \/ NewSession
  BY <1>2 DEF Poll, PollFetch, PollTail, PollFails, Push, NewSession, cloud
<1>3. CASE \E z \in Zones : (\E open \in BOOLEAN : Send(z, open)) \/ Finish(z) \/ Act(z)
  <2>1. UNCHANGED <<calm, now>>
    BY <1>3 DEF Send, Finish, Reply, CommandFails, Act, cloud
  <2> QED
    BY <2>1
<1>4. CASE \E z \in Zones : DeviceChanges(z)
  BY <1>4 DEF DeviceChanges
<1>5. CASE Report \/ ViewCatchesUp \/ Tick \/ CalmDown \/ UNCHANGED vars
  BY <1>1, <1>5 DEF Report, ViewCatchesUp, Tick, CalmDown, cloud, vars
<1> QED
  BY <1>2, <1>3, <1>4, <1>5 DEF Next

\* What must be assumed: each fair action can run when it has something to do (an
\* ENABLED), and the clock reaches its bound, which it does only when every call
\* returns (ClockArrives, below).
Ready ==
    /\ ENABLED <<Poll>>_vars
    /\ device.at < now => ENABLED <<Report>>_vars
    /\ view = device \/ ENABLED <<ViewCatchesUp>>_vars
    /\ calm \/ ENABLED <<CalmDown>>_vars

TimePasses == <>(now = MaxTime)

\* What is shown ends up being what the device does, whichever polls, pushes and
\* failed or overlapping commands came before (STALE_VALVE_POLL_GUARD).
THEOREM GuardLetsGo ==
  ASSUME Guard > 0
  PROVE  FairSpec /\ []Ready /\ TimePasses => ShownSettles
<1> DEFINE Inv   == TypeOK /\ InTime
           Over  == now = MaxTime
           Done  == device.at = MaxTime
           Idle  == phase = "idle"
           Busy  == phase = "fetched"
           Fresh == phase = "fetched" /\ polled = device
           Live  == FairSpec /\ []Ready /\ TimePasses
<1>1. Inv /\ calm /\ [Next]_vars => calm'
  BY QuietLasts
<1>2. Inv /\ Over /\ [Next]_vars => Over'
  BY QuietLasts
<1>3. <<CalmDown>>_vars => calm'
  BY DEF CalmDown
<1>4. Quiet <=> calm /\ Over
  BY DEF Quiet
<1>5. Inv /\ Quiet /\ Done /\ [Next]_vars => Done'
  BY QuietStep
<1>6. Inv /\ Quiet /\ <<Report>>_vars => Done'
  BY DEF Report, Stamped, Quiet
<1>7. Inv /\ Quiet /\ Ready => Done \/ ENABLED <<Report>>_vars
  BY CommandAssumption DEF Ready, Quiet, TypeOK, Snapshot, Time
<1>8. Inv /\ Settled /\ Quiet /\ [Next]_vars => Settled'
  BY SettledStep
<1>9. Inv /\ Quiet /\ Done /\ <<ViewCatchesUp>>_vars => Settled'
  BY DEF ViewCatchesUp, Settled
<1>10. Ready => /\ ENABLED <<Poll>>_vars
                /\ calm \/ ENABLED <<CalmDown>>_vars
  BY DEF Ready
<1>11. Ready /\ Done => Settled \/ ENABLED <<ViewCatchesUp>>_vars
  BY DEF Ready, Settled
<1>12. Inv => Idle \/ Busy
  BY DEF TypeOK
<1>13. Inv /\ Quiet /\ Settled /\ Busy /\ [Next]_vars => Busy' \/ Idle'
  BY SettledStep DEF poll
<1>14. Inv /\ Quiet /\ Settled /\ Busy /\ <<Poll>>_vars => Idle'
  BY SettledStep DEF poll, Next
<1>15. Inv /\ Quiet /\ Settled /\ Idle /\ [Next]_vars => Idle' \/ Fresh'
  BY SettledStep DEF poll
<1>16. Inv /\ Quiet /\ Settled /\ Idle /\ <<Poll>>_vars => Fresh'
  BY SettledStep DEF poll, Next
<1>17. Inv /\ Quiet /\ Settled /\ Fresh /\ [Next]_vars => Fresh' \/ (Idle' /\ Agrees')
  BY SettledStep DEF poll
<1>18. Inv /\ Quiet /\ Settled /\ Fresh /\ <<Poll>>_vars => Idle' /\ Agrees'
  BY SettledStep DEF poll, Next
<1>19. Inv /\ Quiet /\ Settled /\ (Idle \/ Fresh) /\ Agrees /\ [Next]_vars => Agrees'
  BY SettledStep DEF data, Agrees
<1> HIDE DEF Inv, Over, Done, Idle, Busy, Fresh
<1>20. Live => []Inv /\ [][Next]_vars /\ WF_vars(Poll) /\ []Ready
  BY InTimeHolds, PTL DEF Inv, FairSpec, Fairness, Spec
<1>21. Live => WF_vars(Report) /\ WF_vars(ViewCatchesUp) /\ WF_vars(CalmDown)
  BY PTL DEF FairSpec, Fairness
<1>22. Live => <>[]Quiet
  BY <1>1, <1>2, <1>3, <1>4, <1>10, <1>20, <1>21, PTL DEF TimePasses, Over
<1>23. Live => <>[](Quiet /\ Done)
  BY <1>5, <1>6, <1>7, <1>20, <1>21, <1>22, PTL
<1>24. Live => <>[](Quiet /\ Settled)
  BY <1>8, <1>9, <1>11, <1>20, <1>21, <1>23, PTL
<1>25. Live => <>[](Quiet /\ Settled /\ (Idle \/ Fresh))
  BY <1>12, <1>13, <1>14, <1>15, <1>17, <1>10, <1>20, <1>24, PTL
<1>26. Live => <>[]Agrees
  BY <1>16, <1>17, <1>18, <1>19, <1>10, <1>20, <1>25, PTL
<1>27. Agrees => known = Zones /\ \A z \in Zones : shown[z].open = device.zones[z]
  BY DEF Agrees
<1> QED
  BY <1>26, <1>27, PTL DEF ShownSettles

-----------------------------------------------------------------------------
(* Calls return and time passes.  Neither bound below is the code's:       *)
(* without an induction the steps are added up by doubling.                *)

CallCanReturn == (\E z \in Zones : InFlight(z)) => ENABLED <<SomeCallReturns>>_vars
ClockCanGoOn ==
    (\A z \in Zones : ~InFlight(z)) /\ now < MaxTime => ENABLED <<Tick>>_vars

\* The zones whose command has not returned.
Out == {z \in Zones : InFlight(z)}
Still == calm /\ Out = {}

\* Once nobody commands any more, a zone whose command has returned stays out.
LEMMA OutStep ==
  ASSUME TypeOK, calm, [Next]_vars
  PROVE  calm' /\ ((Out' = Out /\ ~SomeCallReturns) \/ \E z \in Out : Out' = Out \ {z})
<1>1. calm' /\ NoCommand.step = "idle" /\ command \in [Zones -> Command]
  BY QuietLasts DEF NoCommand, TypeOK
<1>2. ASSUME NEW z \in Zones, Finish(z)
      PROVE  \E y \in Out : Out' = Out \ {y}
  <2>1. z \in Out /\ command' = [command EXCEPT ![z] = NoCommand]
    BY <1>2 DEF Finish, Reply, CommandFails, InFlight, Out
  <2> QED
    BY <1>1, <2>1 DEF Out, InFlight
<1>3. ASSUME NEW z \in Zones, Act(z)
      PROVE  Out' = Out
  <2>1. /\ command[z].step = "sent" /\ command'[z].step = "acted"
        /\ \A y \in Zones \ {z} : command'[y] = command[y]
    BY <1>1, <1>3 DEF Act, Command
  <2> QED
    BY <2>1 DEF Out, InFlight
<1>4. ~NewSession /\ \A z \in Zones, open \in BOOLEAN : ~Send(z, open)
  BY DEF NewSession, Send
<1>5. ASSUME \/ Poll \/ PollFails \/ Push \/ Report \/ ViewCatchesUp \/ Tick \/ CalmDown
             \/ UNCHANGED vars \/ \E z \in Zones : DeviceChanges(z)
      PROVE  Out' = Out
  <2>1. UNCHANGED command
    BY <1>5 DEF Poll, PollFetch, PollTail, PollFails, Push, Report, ViewCatchesUp, Tick,
                CalmDown, vars, DeviceChanges
  <2> QED
    BY <2>1 DEF Out, InFlight
<1>6. CASE SomeCallReturns
  BY <1>1, <1>2, <1>6 DEF SomeCallReturns
<1>7. CASE ~SomeCallReturns
  <2>1. Out' = Out
    BY <1>3, <1>4, <1>5, <1>7 DEF Next, SomeCallReturns
  <2> QED
    BY <1>1, <1>7, <2>1
<1> QED
  BY <1>6, <1>7

Returned(n) == calm /\ Cardinality(Out) + n <= 32
Returns(m, n) == Returned(m) ~> Returned(n) \/ Still

LEMMA OutIsFinite ==
  ASSUME IsFiniteSet(Zones)
  PROVE  /\ IsFiniteSet(Out)
         /\ Cardinality(Out) \in Nat
         /\ Cardinality(Out) <= Cardinality(Zones)
<1>1. Out \subseteq Zones
  BY DEF Out
<1> QED
  BY <1>1, FS_Subset, FS_CardinalityType

LEMMA OneReturn ==
  ASSUME IsFiniteSet(Zones), NEW n \in Nat
  PROVE  FairSpec /\ []CallCanReturn => Returns(n, n + 1)
<1> DEFINE Rung  == Returned(n)
           Upper == Returned(n + 1)
<1>1. ASSUME TypeOK, Rung, [Next]_vars
      PROVE  Rung' /\ (SomeCallReturns => Upper')
  <2>1. calm' /\ ((Out' = Out /\ ~SomeCallReturns) \/ \E z \in Out : Out' = Out \ {z})
    BY <1>1, OutStep DEF Returned
  <2>2. CASE Out' = Out /\ ~SomeCallReturns
    BY <1>1, <2>1, <2>2 DEF Returned
  <2>3. CASE \E z \in Out : Out' = Out \ {z}
    <3>1. Cardinality(Out') = Cardinality(Out) - 1 /\ Cardinality(Out) \in Nat
      BY <2>3, OutIsFinite, FS_RemoveElement
    <3> QED
      BY <1>1, <2>1, <3>1 DEF Returned
  <2> QED
    BY <2>1, <2>2, <2>3
<1>2. CallCanReturn /\ Rung => Still \/ ENABLED <<SomeCallReturns>>_vars
  BY DEF CallCanReturn, Returned, Still, Out
<1>3. /\ TypeOK /\ Rung /\ [Next]_vars => Rung'
      /\ TypeOK /\ Rung /\ <<SomeCallReturns>>_vars => Upper'
  <2>1. SomeCallReturns => Next
    BY DEF SomeCallReturns, Next
  <2> QED
    BY <1>1, <2>1
<1> HIDE DEF Rung, Upper
<1>4. FairSpec /\ []CallCanReturn => (Rung ~> Upper \/ Still)
  BY <1>2, <1>3, InTimeHolds, PTL DEF FairSpec, Fairness, Spec
<1> QED
  BY <1>4 DEF Returns, Rung, Upper

LEMMA ReturnsOn ==
  ASSUME NEW a \in Nat, NEW b \in Nat, NEW c \in Nat
  PROVE  Returns(a, b) /\ Returns(b, c) => Returns(a, c)
BY PTL DEF Returns

\* All the commands still out return.
LEMMA AllReturn ==
  ASSUME IsFiniteSet(Zones), Cardinality(Zones) <= 32
  PROVE  FairSpec /\ []CallCanReturn => (calm ~> Still)
<1> DEFINE Going == FairSpec /\ []CallCanReturn
<1>1. Going => \A n \in Nat : Returns(n, n + 1)
  BY OneReturn
<1>2. (\A n \in Nat : Returns(n, n + 1)) => \A n \in Nat : Returns(n, n + 2)
  BY ReturnsOn
<1>3. (\A n \in Nat : Returns(n, n + 2)) => \A n \in Nat : Returns(n, n + 4)
  BY ReturnsOn
<1>4. (\A n \in Nat : Returns(n, n + 4)) => \A n \in Nat : Returns(n, n + 8)
  BY ReturnsOn
<1>5. (\A n \in Nat : Returns(n, n + 8)) => \A n \in Nat : Returns(n, n + 16)
  BY ReturnsOn
<1>6. (\A n \in Nat : Returns(n, n + 16)) => \A n \in Nat : Returns(n, n + 32)
  BY ReturnsOn
<1>7. (\A n \in Nat : Returns(n, n + 32)) => Returns(0, 32) /\ Returns(32, 64)
  OBVIOUS
<1>8. Returns(0, 32) /\ Returns(32, 64) => Returns(0, 64)
  BY ReturnsOn
<1>9. (calm => Returned(0)) /\ ~Returned(64)
  BY OutIsFinite, FS_CardinalityType DEF Returned
<1>10. Going => Returns(0, 64)
  BY <1>1, <1>2, <1>3, <1>4, <1>5, <1>6, <1>7, <1>8
<1> QED
  BY <1>9, <1>10, PTL DEF Returns

Reached(n) == Still /\ now >= n
Rises(m, n) == Reached(m) ~> (Reached(n) \/ now = MaxTime)

LEMMA OneTick ==
  ASSUME NEW n \in Nat
  PROVE  FairSpec /\ []ClockCanGoOn => Rises(n, n + 1)
<1> DEFINE Rung  == Reached(n)
           Upper == Reached(n + 1)
           Full  == now = MaxTime
<1>1. ASSUME TypeOK, Rung, [Next]_vars
      PROVE  Rung' /\ (Tick => Upper')
  <2>1. Still'
    BY <1>1, OutStep DEF Still, Reached
  <2>2. now' = now \/ Tick
    <3>1. \A z \in Zones : /\ ~Finish(z) /\ ~Act(z) /\ ~DeviceChanges(z)
                           /\ \A open \in BOOLEAN : ~Send(z, open)
      BY <1>1 DEF Reached, Still, Out, Finish, Reply, CommandFails, Act, DeviceChanges, Send,
                  InFlight
    <3>2. CASE \/ Poll \/ PollFails \/ Push \/ NewSession \/ Report \/ ViewCatchesUp \/ CalmDown
               \/ UNCHANGED vars
      BY <3>2 DEF Poll, PollFetch, PollTail, PollFails, Push, NewSession, Report,
                  ViewCatchesUp, CalmDown, vars
    <3> QED
      BY <1>1, <3>1, <3>2 DEF Next
  <2>3. now \in Int /\ (Tick => now' = now + 1)
    BY <1>1, Defaults DEF TypeOK, Tick
  <2> QED
    BY <1>1, <2>1, <2>2, <2>3 DEF Reached
<1>2. TypeOK /\ ClockCanGoOn /\ Rung => Full \/ ENABLED <<Tick>>_vars
  BY CommandAssumption DEF TypeOK, Time, ClockCanGoOn, Reached, Still, Out
<1>3. /\ TypeOK /\ Rung /\ [Next]_vars => Rung'
      /\ TypeOK /\ Rung /\ <<Tick>>_vars => Upper'
  BY <1>1 DEF Next
<1> HIDE DEF Rung, Upper, Full
<1>4. FairSpec /\ []ClockCanGoOn => (Rung ~> Upper \/ Full)
  BY <1>2, <1>3, InTimeHolds, PTL DEF FairSpec, Fairness, Spec
<1> QED
  BY <1>4 DEF Rises, Rung, Upper, Full

LEMMA RisesOn ==
  ASSUME NEW a \in Nat, NEW b \in Nat, NEW c \in Nat
  PROVE  Rises(a, b) /\ Rises(b, c) => Rises(a, c)
BY PTL DEF Rises

\* The clock reaches its bound: a command that is out holds it up
\* (async_open_valve and async_close_valve await the client's reply), but every
\* one returns once nobody commands any more.
THEOREM ClockArrives ==
  ASSUME IsFiniteSet(Zones), Cardinality(Zones) <= 32, MaxTime <= 32
  PROVE  FairSpec /\ []Ready /\ []CallCanReturn /\ []ClockCanGoOn => TimePasses
<1> DEFINE Going == FairSpec /\ []Ready /\ []CallCanReturn /\ []ClockCanGoOn
<1>1. Going => \A n \in Nat : Rises(n, n + 1)
  BY OneTick
<1>2. (\A n \in Nat : Rises(n, n + 1)) => \A n \in Nat : Rises(n, n + 2)
  BY RisesOn
<1>3. (\A n \in Nat : Rises(n, n + 2)) => \A n \in Nat : Rises(n, n + 4)
  BY RisesOn
<1>4. (\A n \in Nat : Rises(n, n + 4)) => \A n \in Nat : Rises(n, n + 8)
  BY RisesOn
<1>5. (\A n \in Nat : Rises(n, n + 8)) => \A n \in Nat : Rises(n, n + 16)
  BY RisesOn
<1>6. (\A n \in Nat : Rises(n, n + 16)) => Rises(0, 16) /\ Rises(16, 32)
  OBVIOUS
<1>7. Rises(0, 16) /\ Rises(16, 32) => Rises(0, 32)
  BY RisesOn
<1>8. Going => Rises(0, 32)
  BY <1>1, <1>2, <1>3, <1>4, <1>5, <1>6, <1>7
<1>9. TypeOK => (Still => Reached(0)) /\ (Reached(32) => now = MaxTime)
  BY CommandAssumption DEF TypeOK, Time, Reached
<1>10. Ready => calm \/ ENABLED <<CalmDown>>_vars
  BY DEF Ready
<1>11. <<CalmDown>>_vars => calm'
  BY DEF CalmDown
<1>12. Going => <>calm
  BY <1>10, <1>11, PTL DEF FairSpec, Fairness
<1>13. Going => (calm ~> Still)
  BY AllReturn
<1> QED
  BY <1>8, <1>9, <1>12, <1>13, InTimeHolds, PTL DEF TimePasses, FairSpec, Rises

=============================================================================
