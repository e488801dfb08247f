---------------------------- MODULE LinuxSession ----------------------------
(***************************************************************************)
(* The Linux gateway (internal/gateway/linux_session.go): bring-up, tear   *)
(* down and recovery of the changes it makes to the machine, written ahead *)
(* to a journal under /run.                                                *)
(*                                                                         *)
(* Three kinds of state live for three different times: what the kernel    *)
(* has (kernel, and the hostapd daemon) and the journal outlive the        *)
(* process; steps, prev, todo and session are the process's memory.  A     *)
(* reboot resets all of them.                                              *)
(*                                                                         *)
(* Every external command and every journal operation may fail; a step of  *)
(* bring-up may fail with its effect taken, because a command that is      *)
(* killed may already have done its work.  Failures, crashes and           *)
(* disturbances from outside are bounded by constants.                     *)
(***************************************************************************)
EXTENDS Integers, FiniteSets

CONSTANTS
    Devices,        \* device addresses that may be blocked
    MaxFaults,      \* bound on failing commands
    MaxCrashes,     \* bound on process deaths and reboots
    MaxMeddling     \* bound on outside flushes of the ruleset or of /run

ASSUME SessionAssumption ==
    /\ MaxFaults \in Nat /\ MaxCrashes \in Nat /\ MaxMeddling \in Nat

VARIABLES
    found,      \* the machine before the program first ran
    kernel,     \* the machine: forwarding, address, table with its sets, hostapd
    journal,    \* /run/gatewaydns/session.json: the steps recorded, and prev
    phase,      \* what the process is doing
    goal,       \* what the phase after a reconcile is
    steps,      \* s.steps, as the set of its step names
    prev,       \* the forwarding entry's data, in memory
    todo,       \* the undos a reconcile or a tear down has left
    session,    \* state and capture of linuxSession
    reported,   \* steps the last clean-up reported it could not undo
    lost,       \* auxiliary: changes whose undo failed or whose record was wiped, and
                \* an address that was there beforehand and was taken away
    faults, crashes, meddled

machine == <<kernel, journal>>
memory == <<phase, goal, steps, prev, todo, session, reported>>
bounds == <<faults, crashes, meddled>>
vars == <<found, machine, memory, lost, bounds>>

Switch == {"0", "1"}
Steps == {"forwarding", "address", "table", "hostapd"}
Phases == {"dead", "idle", "reconciling", "starting", "running", "uncapturing", "closing"}

\* The order of bring-up.
Rank == [s \in Steps |-> IF s = "forwarding" THEN 1 ELSE IF s = "address" THEN 2
                         ELSE IF s = "table" THEN 3 ELSE 4]

TypeOK ==
    /\ found \in [forwarding : Switch, address : BOOLEAN]
    /\ kernel \in [forwarding : Switch, address : BOOLEAN, table : BOOLEAN,
                   hostapd : BOOLEAN, capture : BOOLEAN, blocked : SUBSET Devices]
    /\ journal \in [steps : SUBSET Steps, prev : Switch]
    /\ phase \in Phases
    /\ goal \in {"idle", "starting"}
    /\ steps \subseteq Steps
    /\ prev \in Switch
    /\ todo \subseteq Steps
    /\ session \in [state : {"stopped", "starting", "running", "degraded"}, capture : BOOLEAN,
                    blocked : SUBSET Devices]
    /\ reported \subseteq Steps
    /\ lost \subseteq Steps \cup {"capture"}
    /\ faults \in 0..MaxFaults /\ crashes \in 0..MaxCrashes /\ meddled \in 0..MaxMeddling

-----------------------------------------------------------------------------
(* The machine: what each step does to it, and what undoing it does. *)

NoSession == [state |-> "stopped", capture |-> FALSE, blocked |-> {}]

\* Loading the ruleset over a table that is there adds to it: the sets keep
\* their elements.
Applied(s) ==
    CASE s = "forwarding" -> [kernel EXCEPT !.forwarding = "1"]
      [] s = "address"    -> [kernel EXCEPT !.address = TRUE]
      [] s = "table"      -> [kernel EXCEPT !.table = TRUE]
      [] s = "hostapd"    -> [kernel EXCEPT !.hostapd = TRUE]

\* Faulty variant of Undone: the clean-up writes forwarding's new value again.
ForwardingLeftOn(s) ==
    CASE s = "forwarding" -> [kernel EXCEPT !.forwarding = "1"]
      [] s = "address"    -> [kernel EXCEPT !.address = FALSE]
      [] s = "table"      -> [kernel EXCEPT !.table = FALSE, !.capture = FALSE, !.blocked = {}]
      [] s = "hostapd"    -> [kernel EXCEPT !.hostapd = FALSE]

\* destroyTable takes the sets of the table with it.
Undone(s) ==
    CASE s = "forwarding" -> [kernel EXCEPT !.forwarding = prev]
      [] s = "address"    -> [kernel EXCEPT !.address = FALSE]
      [] s = "table"      -> [kernel EXCEPT !.table = FALSE, !.capture = FALSE, !.blocked = {}]
      [] s = "hostapd"    -> [kernel EXCEPT !.hostapd = FALSE]

\* The address step keeps no record of an interface that had the address already
\* ("addr replace" succeeds on it), so the undo of that step takes it away.
TakenAway(s) == {t \in {s} : t = "address" /\ found.address}

\* "ip addr del" of an address that is not there is an error; every other undo
\* takes "not there" for done.
NotThere(s) == s = "address" /\ ~kernel.address

\* hostapd -B refuses an interface another hostapd drives.
CannotApply(s) == s = "hostapd" /\ kernel.hostapd

\* What differs from the machine as it was found.
Differs(k, s) ==
    CASE s = "forwarding" -> k.forwarding # found.forwarding
      [] s = "address"    -> k.address # found.address
      [] s = "table"      -> k.table
      [] s = "hostapd"    -> k.hostapd
      [] s = "capture"    -> k.capture

Fault == faults < MaxFaults /\ faults' = faults + 1
NoFault == UNCHANGED faults

\* What is back as it was found is not lost any more.
Lose(S) == lost' = {s \in lost \cup S : Differs(kernel', s)}

Init ==
    /\ found \in [forwarding : Switch, address : BOOLEAN]
    /\ kernel = [forwarding |-> found.forwarding, address |-> found.address, table |-> FALSE,
                 hostapd |-> FALSE, capture |-> FALSE, blocked |-> {}]
    /\ journal = [steps |-> {}, prev |-> "0"]
    /\ phase = "dead" /\ goal = "idle" /\ steps = {} /\ prev = "0" /\ todo = {}
    /\ session = NoSession /\ reported = {} /\ lost = {}
    /\ faults = 0 /\ crashes = 0 /\ meddled = 0

-----------------------------------------------------------------------------
(* Reconcile.  It runs at launch, and at the head of every Start. *)

\* The journal and the live ruleset are both asked.  When one of them gives no
\* answer, what only it knows is taken not to be there.  Of hostapd the record
\* is dropped, and nothing is stopped.
ReconcileBegin(to) ==
    LET recorded == journal.steps \ {"table", "hostapd"}
        live == {s \in {"table"} : kernel.table}
        unasked(S) == {s \in (journal.steps \cup live) \ S : Differs(kernel, s)}
    IN
    /\ phase' = "reconciling" /\ goal' = to /\ reported' = {}
    /\ \/ NoFault /\ todo' = recorded \cup live
       \/ Fault /\ todo' \in {recorded, live}
    /\ lost' = lost \cup (IF faults' = faults THEN {s \in {"hostapd"} : kernel.hostapd}
                          ELSE unasked(todo'))
    /\ prev' = journal.prev
    /\ UNCHANGED <<found, machine, steps, session, crashes, meddled>>

Launch == phase = "dead" /\ ReconcileBegin("idle")

StartGateway == phase = "idle" /\ ReconcileBegin("starting")

\* Faulty variant of UndoStep: an undo that is refused is tried again.
RetriedUndo(s) ==
    /\ \/ /\ NoFault /\ ~NotThere(s)
          /\ kernel' = Undone(s) /\ Lose(TakenAway(s)) /\ todo' = todo \ {s} /\ UNCHANGED reported
       \/ /\ NoFault /\ NotThere(s)
          /\ reported' = reported \cup {s} /\ UNCHANGED <<kernel, lost, todo>>
       \/ Fault /\ UNCHANGED <<kernel, lost, reported, todo>>
    /\ UNCHANGED <<found, journal, phase, goal, steps, prev, session, crashes, meddled>>

\* One undo, by whoever does it.  What goes wrong with pkill is discarded, and
\* when no nft command works destroyTable takes the table for gone.
UndoStep(s) ==
    /\ todo' = todo \ {s}
    /\ \/ /\ NoFault /\ ~NotThere(s)
          /\ kernel' = Undone(s) /\ Lose(TakenAway(s)) /\ UNCHANGED reported
       \/ /\ NoFault /\ NotThere(s)
          /\ reported' = reported \cup {s} /\ UNCHANGED <<kernel, lost>>
       \/ /\ Fault
          /\ kernel' \in {kernel, Undone(s)} /\ Lose({s})
          /\ \/ s # "hostapd" /\ reported' = reported \cup {s}
             \/ s \in {"hostapd", "table"} /\ UNCHANGED reported
    /\ UNCHANGED <<found, journal, phase, goal, steps, prev, session, crashes, meddled>>

\* Reconcile's own order: the table, then forwarding, then the address.
ReconcileUndo ==
    /\ phase = "reconciling"
    /\ \E s \in todo :
          /\ s = "address" => todo = {"address"}
          /\ s = "forwarding" => "table" \notin todo
          /\ UndoStep(s)

\* Faulty variant of ReconcileEnd: what sysctl printed is kept unparsed.
PrevUnread ==
    /\ phase = "reconciling" /\ todo = {}
    /\ NoFault /\ journal' = [journal EXCEPT !.steps = {}]
    /\ phase' = goal
    /\ prev' = "" /\ session' = [NoSession EXCEPT !.state = "starting"]
    /\ UNCHANGED <<found, kernel, goal, steps, todo, reported, lost, crashes, meddled>>

\* The journal goes, whatever could not be undone.
ReconcileEnd ==
    /\ phase = "reconciling" /\ todo = {}
    /\ \/ NoFault /\ journal' = [journal EXCEPT !.steps = {}]
       \/ Fault /\ UNCHANGED journal
    /\ phase' = goal
    /\ IF goal = "starting"
       THEN /\ session' = [NoSession EXCEPT !.state = "starting"]
            /\ prev' = kernel.forwarding
       ELSE UNCHANGED <<session, prev>>
    /\ UNCHANGED <<found, kernel, goal, steps, todo, reported, lost, crashes, meddled>>

\* Choosing the uplink or the interface failed: there is no session yet.
StartRefused ==
    /\ phase = "starting" /\ steps = {}
    /\ phase' = "idle" /\ session' = NoSession
    /\ UNCHANGED <<found, machine, goal, steps, prev, todo, reported, lost, bounds>>

-----------------------------------------------------------------------------
(* bringUp: apply records a step and then performs it.  todo holds the step  *)
(* that is recorded and not performed yet.                                   *)

NextStep == {s \in Steps \ steps : \A t \in Steps : Rank[t] < Rank[s] => t \in steps}

\* Faulty variant of Record: the list is written before the step is added to it.
RecordTooEarly ==
    /\ phase = "starting" /\ todo = {}
    /\ \E s \in NextStep :
          /\ NoFault
          /\ steps' = steps \cup {s} /\ todo' = {s}
          /\ journal' = [steps |-> steps, prev |-> prev]
    /\ UNCHANGED <<found, kernel, phase, goal, prev, session, reported, lost, crashes, meddled>>

Record ==
    /\ phase = "starting" /\ todo = {}
    /\ \E s \in NextStep :
       \/ /\ NoFault
          /\ steps' = steps \cup {s} /\ todo' = {s}
          /\ journal' = [steps |-> steps', prev |-> prev]
          /\ UNCHANGED phase
       \/ Fault /\ phase' = "uncapturing" /\ UNCHANGED <<steps, todo, journal>>
    /\ UNCHANGED <<found, kernel, goal, prev, session, reported, lost, crashes, meddled>>

Perform ==
    /\ phase = "starting"
    /\ \E s \in todo :
       \/ NoFault /\ ~CannotApply(s) /\ kernel' = Applied(s) /\ UNCHANGED phase
       \/ NoFault /\ CannotApply(s) /\ UNCHANGED kernel /\ phase' = "uncapturing"
       \/ Fault /\ kernel' \in {kernel, Applied(s)} /\ phase' = "uncapturing"
    /\ todo' = {}
    /\ UNCHANGED <<found, journal, goal, steps, prev, session, reported, lost, crashes, meddled>>

Up ==
    /\ phase = "starting" /\ todo = {} /\ steps = Steps
    /\ phase' = "running" /\ session' = [session EXCEPT !.state = "running"]
    /\ UNCHANGED <<found, machine, goal, steps, prev, todo, reported, lost, bounds>>

-----------------------------------------------------------------------------
(* A running session. *)

\* SetDNSCapture.  Adding an element to a set that has it succeeds; deleting
\* one that is not there, or from a table that is gone, is an error.
CaptureFails(on) == ~kernel.table \/ (~on /\ ~kernel.capture)

Switched(on) ==
    /\ NoFault /\ ~CaptureFails(on)
    /\ kernel' = [kernel EXCEPT !.capture = on]

\* A command that fails may have taken effect.
NotSwitched(on) ==
    \/ NoFault /\ CaptureFails(on) /\ UNCHANGED kernel
    \/ Fault /\ UNCHANGED kernel
    \/ Fault /\ kernel.table /\ kernel' = [kernel EXCEPT !.capture = on]

\* Faulty variant of SetDNSCapture: what was asked for is remembered whether or
\* not the command worked.
CaptureAssumed(on) ==
    /\ phase = "running"
    /\ Switched(on) \/ NotSwitched(on)
    /\ session' = [session EXCEPT !.capture = on]
    /\ UNCHANGED <<found, journal, phase, goal, steps, prev, todo, reported, lost, crashes, meddled>>

\* Switching off that fails is remembered as degraded.
SetDNSCapture(on) ==
    /\ phase = "running"
    /\ \/ /\ Switched(on)
          /\ session' = [session EXCEPT !.capture = on,
                           !.state = IF ~on /\ @ = "degraded" THEN "running" ELSE @]
       \/ /\ NotSwitched(on)
          /\ session' = [session EXCEPT !.state = IF on THEN @ ELSE "degraded"]
    /\ UNCHANGED <<found, journal, phase, goal, steps, prev, todo, reported, lost, crashes, meddled>>

BlockFails(d, on) == ~kernel.table \/ (~on /\ d \notin kernel.blocked)

Block(d, on) ==
    LET Changed(r) == [r EXCEPT !.blocked = IF on THEN @ \cup {d} ELSE @ \ {d}] IN
    /\ phase = "running"
    /\ \/ /\ NoFault /\ ~BlockFails(d, on)
          /\ kernel' = Changed(kernel) /\ session' = Changed(session)
       \/ /\ \/ NoFault /\ BlockFails(d, on) /\ UNCHANGED kernel
             \/ Fault /\ kernel.table /\ kernel' \in {kernel, Changed(kernel)}
          /\ UNCHANGED session
    /\ UNCHANGED <<found, journal, phase, goal, steps, prev, todo, reported, lost, crashes, meddled>>

Close ==
    /\ phase = "running"
    /\ phase' = "uncapturing"
    /\ UNCHANGED <<found, machine, goal, steps, prev, todo, session, reported, lost, bounds>>

-----------------------------------------------------------------------------
(* tearDown: capture off first, then every recorded step in reverse, then   *)
(* the journal.                                                             *)

\* Faulty variant of TearDownBegin: the redirect is left for the table's undo.
NoCaptureOff ==
    /\ phase = "uncapturing"
    /\ session' = [session EXCEPT !.state = "stopped"]
    /\ phase' = "closing" /\ todo' = steps /\ reported' = {}
    /\ UNCHANGED <<found, machine, goal, steps, prev, lost, bounds>>

\* Faulty variant of TearDownBegin: the loop over the steps ends one early.
FirstStepForgotten ==
    /\ phase = "uncapturing"
    /\ Switched(FALSE) \/ NotSwitched(FALSE)
    /\ session' = [session EXCEPT !.state = "stopped"]
    /\ Lose({"capture"})
    /\ phase' = "closing" /\ todo' = steps \ {"forwarding"} /\ reported' = {}
    /\ UNCHANGED <<found, journal, goal, steps, prev, crashes, meddled>>

TearDownBegin ==
    /\ phase = "uncapturing"
    /\ \/ /\ Switched(FALSE)
          /\ session' = [session EXCEPT !.capture = FALSE, !.state = "stopped"]
       \/ /\ NotSwitched(FALSE)
          /\ session' = [session EXCEPT !.state = "stopped"]
    /\ Lose({"capture"})
    /\ phase' = "closing" /\ todo' = steps /\ reported' = {}
    /\ UNCHANGED <<found, journal, goal, steps, prev, crashes, meddled>>

TearDownUndo ==
    /\ phase = "closing"
    /\ \E s \in todo :
          /\ \A t \in todo : Rank[t] <= Rank[s]
          /\ UndoStep(s)

TearDownEnd ==
    /\ phase = "closing" /\ todo = {}
    /\ \/ NoFault /\ journal' = [journal EXCEPT !.steps = {}]
       \/ Fault /\ UNCHANGED journal
    /\ phase' = "idle" /\ steps' = {} /\ session' = NoSession
    /\ UNCHANGED <<found, kernel, goal, prev, todo, reported, lost, crashes, meddled>>

-----------------------------------------------------------------------------
(* The world outside. *)

Forget ==
    /\ phase' = "dead" /\ goal' = "idle" /\ steps' = {} /\ todo' = {} /\ session' = NoSession
    /\ reported' = {} /\ prev' = "0"

\* The process dies; hostapd, a daemon, does not.
Crash ==
    /\ phase # "dead" /\ crashes < MaxCrashes
    /\ crashes' = crashes + 1
    /\ Forget
    /\ UNCHANGED <<found, machine, lost, faults, meddled>>

\* /run is a memory file system, and nothing the session did is persistent.
Reboot ==
    /\ crashes < MaxCrashes
    /\ crashes' = crashes + 1
    /\ Forget
    /\ kernel' = [forwarding |-> found.forwarding, address |-> found.address, table |-> FALSE,
                  hostapd |-> FALSE, capture |-> FALSE, blocked |-> {}]
    /\ journal' = [steps |-> {}, prev |-> "0"]
    /\ lost' = {}
    /\ UNCHANGED <<found, faults, meddled>>

FlushRuleset ==
    /\ kernel.table /\ meddled < MaxMeddling
    /\ meddled' = meddled + 1
    /\ kernel' = [kernel EXCEPT !.table = FALSE, !.capture = FALSE, !.blocked = {}]
    /\ lost' = lost \ {"table", "capture"}
    /\ UNCHANGED <<found, journal, memory, faults, crashes>>

WipeRun ==
    /\ journal.steps # {} /\ meddled < MaxMeddling
    /\ meddled' = meddled + 1
    /\ journal' = [journal EXCEPT !.steps = {}]
    /\ lost' = lost \cup (journal.steps \ {"table"})
    /\ UNCHANGED <<found, kernel, memory, faults, crashes>>

\* What goes on by itself once it has begun.
Process ==
    \/ ReconcileUndo \/ ReconcileEnd
    \/ StartRefused \/ Record \/ Perform \/ Up
    \/ TearDownBegin \/ TearDownUndo \/ TearDownEnd

User ==
    \/ Launch \/ StartGateway \/ Close
    \/ \E on \in BOOLEAN : SetDNSCapture(on) \/ \E d \in Devices : Block(d, on)

Next == Process \/ User \/ Crash \/ Reboot \/ FlushRuleset \/ WipeRun

Spec == Init /\ [][Next]_vars

\* A clean-up or a bring-up that has begun goes on: nothing in it waits for
\* anybody, and every command it runs ends, if only by being killed.
FairSpec == Spec /\ WF_vars(Process)

-----------------------------------------------------------------------------
(* Properties. *)

\* Write-ahead: whatever differs from the machine as it was found is in the
\* journal or, being the table, is seen in the live ruleset, so the next process
\* will undo it; the only exceptions are undos that failed, records that were
\* wiped from outside, and an address that was there beforehand once an undo has
\* taken it away.  It holds at every point where the process may die.
Accounted ==
    \A s \in Steps \ {"table"} : Differs(kernel, s) /\ s \notin lost => s \in journal.steps

\* When no session exists and no clean-up is under way, and when a bring-up has
\* not begun yet, the machine is as it was found, but for what was lost; at the
\* start of a bring-up that means its ruleset goes into an empty kernel.  Lost is
\* also an address that was there beforehand, from the undo that takes it away
\* until the next reboot.
CleanWhenQuiet ==
    \/ phase = "idle"
    \/ phase = "starting" /\ steps = {}
    => \A s \in Steps : Differs(kernel, s) => s \in lost

\* The value recorded for forwarding is the one the machine had before the
\* program first ran, however many sessions, deaths and half-done clean-ups lie
\* in between, unless restoring it has failed.
ForwardingRemembered ==
    "forwarding" \in journal.steps /\ "forwarding" \notin lost =>
        journal.prev = found.forwarding

\* While DNS is redirected the whole gateway stands behind it: the redirect is
\* never there before the table, the address and the access point are, and
\* none of them is taken away while it is still in force, by a tear down or by
\* the clean-up after a death.
CaptureOnlyOnGateway ==
    kernel.capture /\ lost \cap {"capture", "table"} = {} =>
        /\ kernel.table /\ kernel.address /\ kernel.hostapd /\ kernel.forwarding = "1"
        /\ phase \in {"dead", "running", "uncapturing", "reconciling"}

\* What Status shows is not better than what is: while the session says it is
\* running, DNS is captured if Status says so, unless somebody else has flushed
\* the ruleset.
StatusNotBetter ==
    phase = "running" /\ session.state = "running" /\ kernel.table /\ session.capture =>
        kernel.capture

\* A clean-up that has begun ends with the machine as it was found, but for
\* what was lost, or with the death of the process.
CleanUpEnds ==
    phase \in {"reconciling", "uncapturing", "closing"} ~>
        \/ phase = "dead"
        \/ phase \in {"idle", "starting"} /\ \A s \in Steps : Differs(kernel, s) => s \in lost

=============================================================================
