--------------------------- MODULE WindowsSession ---------------------------
(***************************************************************************)
(* The Windows gateway (internal/gateway/windows_session.go, winnet):      *)
(* bring-up, tear down and recovery, written ahead to a journal under      *)
(* ProgramData.                                                            *)
(*                                                                         *)
(* It differs from the Linux one in what outlives what.  The journal, the  *)
(* address, the forwarding setting and the translation all survive a       *)
(* reboot; only the hotspot does not.  There is no live scan beside the    *)
(* journal.  The steps name the interface they were taken on, which may    *)
(* not be the one that carries the default route the next time.  Some      *)
(* clean-ups report success whatever happened.  And the machine may         *)
(* already have another program's translation, of which it can have one.    *)
(*                                                                         *)
(* That the served address was on no interface before the program ran, and  *)
(* that the hotspot was off, is assumed.                                   *)
(***************************************************************************)
EXTENDS GatewayRules, FiniteSets

CONSTANTS
    Ifaces,         \* names of the interfaces, in the order of the list
    Settings,       \* what a person may ask for
    Answers,        \* what Windows may say of the hotspot
    Port,           \* where the resolver listens
    MaxFaults,      \* bound on failing commands and journal operations
    MaxCrashes,     \* bound on process deaths and reboots
    MaxChanges      \* bound on changes of the machine from outside

ASSUME IfacesAssumption == Ifaces \in Seq(STRING \ {None})

ASSUME WindowsAssumption ==
    /\ \A s \in Settings : s.sharing \in Models
    /\ Port \in 1..65535

ASSUME BoundsAssumption == MaxFaults \in Nat /\ MaxCrashes \in Nat /\ MaxChanges \in Nat

VARIABLES
    found,      \* each interface's forwarding before the program first ran
    machine,    \* forwarding, addresses, the translation, the hotspot
    outside,    \* what the program only reads: the hotspot's answer, up, route
    journal,    \* session.json: the steps recorded, and their data
    phase,      \* what the process is doing
    elevated,   \* whether the process has administrator rights
    goal,       \* the configuration a reconcile makes way for, if any
    cfg,        \* s.cfg
    steps,      \* s.steps, as the set of its step names
    data,       \* the data of those steps: the interface, and its forwarding
    todo,       \* the step recorded and not performed, or the undos left
    lost,       \* auxiliary: changes whose undo failed
    spoiled,    \* auxiliary: a fault or a change since the start, or leftovers at it
    faults, crashes, changes

process == <<phase, elevated, goal, cfg, steps, data, todo>>
bounds == <<faults, crashes, changes>>
vars == <<found, machine, outside, journal, process, lost, spoiled, bounds>>

Names == {Ifaces[i] : i \in DOMAIN Ifaces}
Steps == {"tethering", "address", "forwarding", "nat"}
Phases == {"dead", "idle", "reconciling", "starting", "running", "failing", "closing"}
NoData == [iface |-> None, prev |-> "Disabled"]
Rank == [s \in Steps |-> CASE s = "tethering" -> 0 [] s = "address" -> 1
                           [] s = "forwarding" -> 2 [] s = "nat" -> 3]
Configs == UNION {GatewayConfig(s, Port) : s \in Settings}

TypeOK ==
    /\ found \in [Names -> {"Enabled", "Disabled"}]
    /\ machine \in [forwarding : [Names -> {"Enabled", "Disabled"}], address : SUBSET Names,
                    nat : {None, "ours", "other"}, tethering : BOOLEAN]
    /\ outside \in [answer : Answers, up : SUBSET Names, route : Names \cup {None}]
    /\ journal \in [steps : SUBSET Steps, data : [iface : Names \cup {None},
                                                  prev : {"Enabled", "Disabled"}]]
    /\ phase \in Phases /\ elevated \in BOOLEAN
    /\ goal \subseteq Configs /\ Cardinality(goal) <= 1
    /\ cfg \subseteq Configs /\ Cardinality(cfg) <= 1
    /\ steps \subseteq Steps /\ todo \subseteq Steps
    /\ data \in [iface : Names \cup {None}, prev : {"Enabled", "Disabled"}]
    /\ lost \subseteq Steps /\ spoiled \in BOOLEAN
    /\ faults \in 0..MaxFaults /\ crashes \in 0..MaxCrashes /\ changes \in 0..MaxChanges

-----------------------------------------------------------------------------
(* The machine. *)

Applied(s) ==
    CASE s = "tethering"  -> [machine EXCEPT !.tethering = TRUE]
      [] s = "address"    -> [machine EXCEPT !.address = @ \cup {data.iface}]
      [] s = "forwarding" -> [machine EXCEPT !.forwarding[data.iface] = "Enabled"]
      [] s = "nat"        -> [machine EXCEPT !.nat = "ours"]

\* Faulty variant of Undone: forwarding is restored on the interface that carries
\* the default route now.
UndoneOnRoute(s) ==
    CASE s = "tethering"  -> [machine EXCEPT !.tethering = FALSE]
      [] s = "address"    -> [machine EXCEPT !.address = @ \ {data.iface}]
      [] s = "forwarding" -> [machine EXCEPT !.forwarding =
                                [n \in Names |-> IF n = outside.route THEN data.prev ELSE @[n]]]
      [] s = "nat"        -> [machine EXCEPT !.nat = IF @ = "ours" THEN None ELSE @]

Undone(s) ==
    CASE s = "tethering"  -> [machine EXCEPT !.tethering = FALSE]
      [] s = "address"    -> [machine EXCEPT !.address = @ \ {data.iface}]
      [] s = "forwarding" -> [machine EXCEPT !.forwarding[data.iface] = data.prev]
      [] s = "nat"        -> [machine EXCEPT !.nat = IF @ = "ours" THEN None ELSE @]

\* What refuses a step or its undo by itself.  A hotspot needs an internet
\* connection to be started and to be stopped; and there is one translation.
Refused(s) ==
    \/ ~elevated
    \/ s = "tethering" /\ outside.route = None
    \/ s = "nat" /\ phase = "starting" /\ machine.nat # None

Differs(m, s) ==
    CASE s = "tethering"  -> m.tethering
      [] s = "address"    -> m.address # {}
      [] s = "forwarding" -> m.forwarding # found
      [] s = "nat"        -> m.nat = "ours"

Fault == faults < MaxFaults /\ faults' = faults + 1 /\ spoiled' = TRUE
NoFault == UNCHANGED <<faults, spoiled>>

\* What is back as it was found is not lost any more.
Lose(S) == lost' = {s \in lost \cup S : Differs(machine', s)}

\* The list of interfaces as Windows shows it; whether one can host an access
\* point is not determined.
Interfaces ==
    [i \in DOMAIN Ifaces |-> [name |-> Ifaces[i], kind |-> "wired", ap |-> FALSE,
                              up |-> Ifaces[i] \in outside.up,
                              route |-> Ifaces[i] = outside.route]]

\* What Capabilities asks: without an internet connection the question about the
\* hotspot ends in an error.
Probed == [elevated |-> elevated, nat |-> machine.nat,
           answer |-> IF outside.route = None THEN "error" ELSE outside.answer]

Init ==
    /\ found \in [Names -> {"Enabled", "Disabled"}]
    /\ machine = [forwarding |-> found, address |-> {}, nat |-> None, tethering |-> FALSE]
    /\ outside \in [answer : Answers, up : {Names}, route : Names]
    /\ journal = [steps |-> {}, data |-> NoData]
    /\ phase = "dead" /\ elevated = FALSE
    /\ goal = {} /\ cfg = {} /\ steps = {} /\ data = NoData /\ todo = {}
    /\ lost = {} /\ spoiled = FALSE
    /\ faults = 0 /\ crashes = 0 /\ changes = 0

-----------------------------------------------------------------------------
(* Reconcile: at launch, and in every Start that is not refused. *)

\* A journal that cannot be read is taken for an empty one.
ReconcileBegin ==
    /\ phase' = "reconciling"
    /\ \/ UNCHANGED faults /\ todo' = journal.steps /\ UNCHANGED lost
       \/ /\ faults < MaxFaults /\ faults' = faults + 1
          /\ todo' = {}
          /\ lost' = lost \cup {s \in journal.steps : Differs(machine, s)}
    /\ data' = journal.data
    /\ spoiled' = (faults' # faults \/ lost' # {})
    /\ UNCHANGED <<found, machine, outside, journal, cfg, steps, crashes, changes>>

\* The process may have other rights than the one before it.
Launch ==
    /\ phase = "dead"
    /\ elevated' \in BOOLEAN /\ goal' = {}
    /\ ReconcileBegin

\* Configuration and capabilities are judged before anything is touched.
StartGateway(s) ==
    /\ phase = "idle"
    /\ \E c \in GatewayConfig(s, Port) :
          /\ Valid(c)
          /\ Satisfied(WindowsCapabilities(Probed).have, c)
          /\ goal' = {c}
    /\ ReconcileBegin
    /\ UNCHANGED elevated

\* Faulty variant of UndoStep: a refused undo is tried until it works.
UndoRetried(s) ==
    /\ \/ NoFault /\ ~Refused(s) /\ machine' = Undone(s) /\ Lose({}) /\ todo' = todo \ {s}
       \/ NoFault /\ Refused(s) /\ UNCHANGED <<machine, lost, todo>>
       \/ Fault /\ machine' \in {machine, Undone(s)} /\ Lose({s}) /\ todo' = todo \ {s}
    /\ UNCHANGED <<found, outside, journal, phase, elevated, goal, cfg, steps, data,
                   crashes, changes>>

\* One undo; the next follows whether it worked or not.
UndoStep(s) ==
    /\ todo' = todo \ {s}
    /\ \/ NoFault /\ ~Refused(s) /\ machine' = Undone(s) /\ Lose({})
       \/ NoFault /\ Refused(s) /\ UNCHANGED machine /\ Lose({s})
       \/ Fault /\ machine' \in {machine, Undone(s)} /\ Lose({s})
    /\ UNCHANGED <<found, outside, journal, phase, elevated, goal, cfg, steps, data,
                   crashes, changes>>

Undoing == phase \in {"reconciling", "failing", "closing"}

\* Reverse order, in a reconcile and in a tear down.
Undo ==
    /\ Undoing
    /\ \E s \in todo : (\A t \in todo : Rank[t] <= Rank[s]) /\ UndoStep(s)

\* The journal goes, whatever could not be undone; the file of a process with
\* administrator rights may not be removed by one without them.
JournalCleared ==
    \/ NoFault /\ journal' = [steps |-> {}, data |-> NoData]
    \/ Fault /\ UNCHANGED journal
    \/ NoFault /\ ~elevated /\ UNCHANGED journal

ReconcileEnd ==
    /\ phase = "reconciling" /\ todo = {}
    /\ JournalCleared
    /\ phase' = IF goal = {} THEN "idle" ELSE "starting"
    /\ cfg' = goal /\ goal' = {} /\ data' = NoData
    /\ UNCHANGED <<found, machine, outside, elevated, steps, todo, lost, crashes, changes>>

-----------------------------------------------------------------------------
(* bringUp. *)

Platform == \E c \in cfg : c.sharing = "platform"

\* The platform's sharing without a hotspot reads the settings of a hotspot that
\* is not there: the call ends, and no session exists.
NoHotspot ==
    /\ phase = "starting" /\ Platform
    /\ \A c \in cfg : c.hotspot = {}
    /\ phase' = "idle" /\ cfg' = {}
    /\ UNCHANGED <<found, machine, outside, journal, elevated, goal, steps, data, todo,
                   lost, spoiled, bounds>>

\* Faulty variant of ForwardingState: what PowerShell printed is not trimmed.
ForwardingUntrimmed(n) == "Enabled and a line end"

ForwardingState(n) == machine.forwarding[n]

\* Everything but the platform's sharing chooses an uplink, which it also serves,
\* and reads how its forwarding is set before it changes anything.
ChooseServed ==
    /\ phase = "starting" /\ ~Platform /\ data.iface = None
    /\ \E c \in cfg :
       LET uplink == SelectUplink(Interfaces, c.uplink) IN
       \/ \E i \in uplink :
             /\ NoFault
             /\ data' = [iface |-> Ifaces[i], prev |-> ForwardingState(Ifaces[i])]
             /\ UNCHANGED phase
       \/ NoFault /\ uplink = {} /\ phase' = "failing" /\ UNCHANGED data
       \/ Fault /\ phase' = "failing" /\ UNCHANGED data
    /\ UNCHANGED <<found, machine, outside, journal, elevated, goal, cfg, steps, todo,
                   lost, crashes, changes>>

Wanted == IF Platform THEN {"tethering"} ELSE {"address", "forwarding", "nat"}

NextStep == {s \in Wanted \ steps : \A t \in Wanted : Rank[t] < Rank[s] => t \in steps}

Ready ==
    /\ phase = "starting" /\ todo = {}
    /\ IF Platform THEN \E c \in cfg : c.hotspot # {} ELSE data.iface # None

\* Record a step; a process without rights may find a file it cannot replace.
Record ==
    /\ Ready
    /\ \E s \in NextStep :
       \/ /\ NoFault
          /\ steps' = steps \cup {s} /\ todo' = {s}
          /\ journal' = [steps |-> steps', data |-> data]
          /\ UNCHANGED phase
       \/ /\ Fault \/ (NoFault /\ ~elevated)
          /\ phase' = "failing" /\ todo' = steps /\ UNCHANGED <<steps, journal>>
    /\ UNCHANGED <<found, machine, outside, elevated, goal, cfg, data, lost, crashes, changes>>

\* Faulty variant of Failed: what a step reports is not looked at.
FailedUnheard(s) == UNCHANGED phase /\ todo' = {}

Failed(s) == phase' = "failing" /\ todo' = steps

\* A command that fails, or is killed, may have done its work, and assigning an
\* address takes away an equal one first.
Perform ==
    /\ phase = "starting"
    /\ \E s \in todo :
       \/ NoFault /\ ~Refused(s) /\ machine' = Applied(s) /\ todo' = {} /\ UNCHANGED phase
       \/ NoFault /\ Refused(s) /\ UNCHANGED machine /\ Failed(s)
       \/ /\ Fault /\ Failed(s)
          /\ machine' \in {machine, Applied(s)} \cup {Undone(t) : t \in {"address"} \cap {s}}
    /\ UNCHANGED <<found, outside, journal, elevated, goal, cfg, steps, data, lost,
                   crashes, changes>>

Up ==
    /\ Ready /\ steps = Wanted
    /\ phase' = "running"
    /\ UNCHANGED <<found, machine, outside, journal, elevated, goal, cfg, steps, data, todo,
                   lost, spoiled, bounds>>

Close ==
    /\ phase = "running"
    /\ phase' = "closing" /\ todo' = steps
    /\ UNCHANGED <<found, machine, outside, journal, elevated, goal, cfg, steps, data,
                   lost, spoiled, bounds>>

TearDownEnd ==
    /\ phase \in {"failing", "closing"} /\ todo = {}
    /\ JournalCleared
    /\ phase' = "idle" /\ steps' = {} /\ cfg' = {} /\ data' = NoData
    /\ UNCHANGED <<found, machine, outside, elevated, goal, todo, lost, crashes, changes>>

-----------------------------------------------------------------------------
(* The world outside. *)

Forget ==
    /\ phase' = "dead" /\ elevated' = FALSE /\ goal' = {} /\ cfg' = {}
    /\ steps' = {} /\ data' = NoData /\ todo' = {}

Crash ==
    /\ phase # "dead" /\ crashes < MaxCrashes
    /\ crashes' = crashes + 1
    /\ Forget
    /\ UNCHANGED <<found, machine, outside, journal, lost, spoiled, faults, changes>>

Reboot ==
    /\ crashes < MaxCrashes
    /\ crashes' = crashes + 1
    /\ Forget
    /\ machine' = [machine EXCEPT !.tethering = FALSE]
    /\ lost' = lost \ {"tethering"}
    /\ UNCHANGED <<found, outside, journal, spoiled, faults, changes>>

Change ==
    /\ changes < MaxChanges /\ changes' = changes + 1 /\ spoiled' = TRUE
    /\ UNCHANGED <<found, journal, process, lost, faults, crashes>>

\* Cables are pulled and networks joined: the default route moves or goes.
NetworkMoves ==
    /\ \E route \in Names \cup {None} :
          outside' = [outside EXCEPT !.route = route, !.up = IF route = None THEN {} ELSE @]
    /\ Change /\ UNCHANGED machine

\* Docker, WSL and Hyper-V install a translation, or remove theirs.
OtherNat ==
    /\ machine.nat # "ours"
    /\ machine' = [machine EXCEPT !.nat = IF @ = None THEN "other" ELSE None]
    /\ Change /\ UNCHANGED outside

\* What goes on by itself once it has begun.
Process ==
    \/ Undo \/ ReconcileEnd
    \/ NoHotspot \/ ChooseServed \/ Record \/ Perform \/ Up
    \/ TearDownEnd

User == Launch \/ (\E s \in Settings : StartGateway(s)) \/ Close

Next == Process \/ User \/ Crash \/ Reboot \/ NetworkMoves \/ OtherNat

Spec == Init /\ [][Next]_vars

\* As on Linux: a clean-up or a bring-up waits for nobody, and every command
\* ends, if only by being killed.
FairSpec == Spec /\ WF_vars(Process)

-----------------------------------------------------------------------------
(* Properties. *)

\* What the machine would be if every recorded step were undone by what the
\* record says.
Recovered ==
    [machine EXCEPT
        !.tethering = @ /\ "tethering" \notin journal.steps,
        !.address = IF "address" \in journal.steps THEN @ \ {journal.data.iface} ELSE @,
        !.forwarding = [n \in Names |->
            IF "forwarding" \in journal.steps /\ n = journal.data.iface
            THEN journal.data.prev ELSE @[n]],
        !.nat = IF "nat" \in journal.steps /\ @ = "ours" THEN None ELSE @]

\* Write-ahead, over deaths and reboots: at every moment the file alone is enough
\* to put the machine back as it was before the program first ran - which steps,
\* on which interface, and to which setting - but for undos that failed.
\* Wherever the default route is by now, and however many sessions came between.
Recoverable == \A s \in Steps \ lost : ~Differs(Recovered, s)

\* Start either succeeds completely or not at all: a session that says it is
\* running has everything it is made of, on one interface, and while it runs
\* nothing has been taken away from it.
Whole ==
    phase = "running" =>
        \/ Platform /\ machine.tethering
        \/ /\ ~Platform /\ machine.nat = "ours" /\ data.iface \in machine.address
           /\ machine.forwarding[data.iface] = "Enabled"

\* A configuration this machine cannot satisfy is refused before anything is
\* touched: with nothing failing, nothing changing from outside and nothing left
\* from before, a bring-up that has taken a step never fails at a later one.
\* SharingNone, which asks for no capability and is brought up as managed sharing
\* is, is excepted.
RefusedUpFront ==
    phase = "failing" /\ ~spoiled /\ steps # {} =>
        \A c \in cfg : c.sharing = "none"

\* A clean-up that has begun comes to an end, with the machine as it was found
\* but for what was lost, or with the death of the process.
CleanUpEnds ==
    Undoing ~>
        \/ phase = "dead"
        \/ phase \in {"idle", "starting"} /\ \A s \in Steps : Differs(machine, s) => s \in lost

=============================================================================
