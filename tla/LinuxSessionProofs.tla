-------------------------- MODULE LinuxSessionProofs --------------------------
(***************************************************************************)
(* Proofs about the Linux gateway's bring-up, tear down and recovery: for  *)
(* any number of failing commands, process deaths, reboots and             *)
(* disturbances from outside, any devices, and a machine that had the      *)
(* gateway's address before or not.                                        *)
(***************************************************************************)
EXTENDS LinuxSession, TLAPS

-----------------------------------------------------------------------------
(* The inductive invariant. *)

\* The undos the program still means to do, or the next process will find.
Pending ==
    CASE phase = "idle" -> {}
      [] phase \in {"reconciling", "closing"} -> todo
      [] phase \in {"starting", "running", "uncapturing"} -> steps
      [] phase = "dead" -> journal.steps \cup {"table"}

PlanComplete == \A s \in Steps : Differs(kernel, s) /\ s \notin lost => s \in Pending

\* Bring-up: what is done is in order and in place, what is next is recorded.
Progress ==
    /\ phase = "starting" =>
          /\ todo \subseteq steps
          /\ \A s, t \in todo : s = t
          /\ todo \subseteq journal.steps \cup lost \cup {"table"}
          /\ session.capture = FALSE
          /\ "forwarding" \in steps \ todo => kernel.forwarding = "1"
          /\ "address" \in steps \ todo => kernel.address
          /\ "hostapd" \in steps \ todo => kernel.hostapd
    /\ phase = "running" => kernel.forwarding = "1" /\ kernel.address /\ kernel.hostapd
    /\ phase \in {"dead", "idle", "reconciling"} => steps = {}
    /\ phase = "reconciling" => "hostapd" \notin todo
    /\ kernel.capture => kernel.table

\* A wrong value for forwarding can only come from a restore that failed, and
\* then writing it back changes nothing.
Stuck == "forwarding" \in lost /\ kernel.forwarding # found.forwarding

InUse == phase \in {"starting", "running", "uncapturing", "closing"}
         \/ (phase = "reconciling" /\ "forwarding" \in todo)

Memory ==
    /\ found.forwarding = "1" => kernel.forwarding = "1"
    /\ "forwarding" \in journal.steps /\ journal.prev # found.forwarding => Stuck
    /\ InUse /\ prev # found.forwarding => Stuck
    /\ InUse /\ "forwarding" \in journal.steps /\ journal.prev # found.forwarding
          => prev # found.forwarding

\* An address that was there beforehand is there until an undo takes it away, and
\* counts as lost from then on.
AddressKept == found.address /\ ~kernel.address => "address" \in lost

Machine == [forwarding : Switch, address : BOOLEAN, table : BOOLEAN,
            hostapd : BOOLEAN, capture : BOOLEAN, blocked : SUBSET Devices]

IInv ==
    /\ TypeOK /\ AddressKept
    /\ Accounted
    /\ PlanComplete
    /\ Progress
    /\ Memory
    /\ CaptureOnlyOnGateway
    /\ StatusNotBetter

-----------------------------------------------------------------------------
(* Every step keeps it. *)

\* What differs is unchanged while the machine is.
LEMMA Quiet == ASSUME UNCHANGED <<found, kernel>>, NEW s PROVE Differs(kernel, s)' = Differs(kernel, s)
  BY DEF Differs

\* What Differs means, step by step.
LEMMA DiffersFrom ==
    ASSUME TypeOK
    PROVE  /\ Differs(kernel, "forwarding") <=> kernel.forwarding # found.forwarding
           /\ Differs(kernel, "address") <=> kernel.address # found.address
           /\ Differs(kernel, "table") <=> kernel.table
           /\ Differs(kernel, "hostapd") <=> kernel.hostapd
           /\ Differs(kernel, "capture") <=> kernel.capture
  BY DEF Differs, TypeOK

\* Reading the journal and the ruleset: whatever differs and is not lost will be
\* undone, whichever of the two gives no answer.
LEMMA BeginInv ==
    ASSUME IInv, NEW to \in {"idle", "starting"}, phase \in {"dead", "idle"}, ReconcileBegin(to)
    PROVE  IInv'
<1> USE SessionAssumption DEF IInv
<1>q. \A s : Differs(kernel, s)' = Differs(kernel, s)
  BY Quiet DEF ReconcileBegin, machine
<1>a. /\ lost \subseteq lost' /\ lost' \subseteq lost \cup Steps
      /\ todo' \subseteq (journal.steps \ {"hostapd"}) \cup {"table"}
      /\ "hostapd" \notin todo'
      /\ faults' \in 0..MaxFaults
      /\ \A s \in Steps : Differs(kernel, s) /\ s \notin lost' => s \in todo'
  <2>1. CASE NoFault /\ todo' = (journal.steps \ {"table", "hostapd"})
                               \cup {s \in {"table"} : kernel.table}
    <3>1. lost' = lost \cup {s \in {"hostapd"} : kernel.hostapd}
      BY <2>1 DEF ReconcileBegin, NoFault
    <3>2. faults' \in 0..MaxFaults
      BY <2>1 DEF NoFault, TypeOK
    <3>3. ASSUME NEW s \in Steps, Differs(kernel, s), s \notin lost' PROVE s \in todo'
      <4>1. s # "hostapd"
        BY <3>1, <3>3, DiffersFrom
      <4>2. s = "table" => s \in todo'
        BY <2>1, <3>3, DiffersFrom
      <4>3. s # "table" => s \in journal.steps
        BY <3>1, <3>3 DEF PlanComplete, Pending
      <4> QED BY <2>1, <4>1, <4>2, <4>3
    <3> QED BY <2>1, <3>1, <3>2, <3>3 DEF TypeOK, Steps
  <2>2. CASE Fault
    <3>1. todo' \in {journal.steps \ {"table", "hostapd"}, {s \in {"table"} : kernel.table}}
      BY <2>2 DEF ReconcileBegin, Fault, NoFault, TypeOK
    <3>2. /\ faults' # faults /\ faults' \in 0..MaxFaults
      BY <2>2 DEF Fault, TypeOK
    <3>3. lost' = lost \cup {s \in (journal.steps \cup {x \in {"table"} : kernel.table}) \ todo' :
                                Differs(kernel, s)}
      BY <3>2 DEF ReconcileBegin
    <3>4. ASSUME NEW s \in Steps, Differs(kernel, s), s \notin lost' PROVE s \in todo'
      <4>1. s \notin lost
        BY <3>3, <3>4
      <4>2. s \in journal.steps \cup {x \in {"table"} : kernel.table}
        BY <3>4, <4>1, DiffersFrom DEF PlanComplete, Pending
      <4> QED BY <3>3, <3>4, <4>2
    <3> QED BY <3>1, <3>2, <3>3, <3>4 DEF TypeOK, Steps
  <2> QED BY <2>1, <2>2 DEF ReconcileBegin
<1>b. /\ phase' = "reconciling" /\ goal' = to /\ reported' = {} /\ prev' = journal.prev
      /\ UNCHANGED <<found, kernel, journal, steps, session, crashes, meddled>>
  BY DEF ReconcileBegin, machine
<1>1. TypeOK'
  BY <1>a, <1>b DEF TypeOK, Phases, Steps
<1>2. Accounted'
  BY <1>a, <1>b, <1>q DEF Accounted
<1>3. PlanComplete'
  BY <1>a, <1>b, <1>q DEF PlanComplete, Pending
<1>4. Progress'
  BY <1>a, <1>b DEF Progress
<1>5. Memory'
  BY <1>a, <1>b DEF Memory, InUse, Stuck
<1>6. CaptureOnlyOnGateway'
  BY <1>a, <1>b DEF CaptureOnlyOnGateway
<1>7. StatusNotBetter'
  BY <1>b DEF StatusNotBetter
<1>8. AddressKept'
  BY <1>a, <1>b DEF AddressKept
<1> QED BY <1>1, <1>2, <1>3, <1>4, <1>5, <1>6, <1>7, <1>8

\* Dropping the journal is sound because nothing is left to undo, and the value
\* then read for forwarding is the one the machine was found with.
LEMMA ReconcileEndInv == ASSUME IInv, ReconcileEnd PROVE IInv'
<1> USE SessionAssumption DEF IInv
<1>q. \A s : Differs(kernel, s)' = Differs(kernel, s)
  BY Quiet DEF ReconcileEnd
<1>a. /\ phase = "reconciling" /\ todo = {} /\ phase' = goal
      /\ UNCHANGED <<found, kernel, goal, steps, todo, reported, lost, crashes, meddled>>
      /\ journal'.steps \in {{}, journal.steps} /\ journal'.prev = journal.prev
      /\ journal' \in [steps : SUBSET Steps, prev : Switch]
      /\ faults' \in 0..MaxFaults
  BY DEF ReconcileEnd, Fault, NoFault, TypeOK
<1>b. CASE goal = "starting"
  <2>1. /\ session' = [state |-> "starting", capture |-> FALSE, blocked |-> {}]
        /\ prev' = kernel.forwarding
    BY <1>b DEF ReconcileEnd, NoSession
  <2>2. TypeOK'
    BY <1>a, <1>b, <2>1 DEF TypeOK, Phases
  <2>3. Memory'
    BY <1>a, <1>b, <2>1, DiffersFrom DEF Memory, InUse, Stuck, PlanComplete, Pending, Steps, TypeOK, Switch
  <2>4. CaptureOnlyOnGateway'
    BY <1>a, <1>b, <2>1, DiffersFrom DEF CaptureOnlyOnGateway, PlanComplete, Pending, Steps, Progress
  <2>5. Progress' /\ StatusNotBetter'
    BY <1>a, <1>b, <2>1 DEF StatusNotBetter, Progress
  <2>6. PlanComplete'
    BY <1>a, <1>b, <1>q DEF PlanComplete, Pending
  <2> QED BY <2>2, <2>3, <2>4, <2>5, <2>6, <1>a, <1>q DEF Accounted, PlanComplete, Pending, AddressKept
<1>c. CASE goal = "idle"
  <2>1. UNCHANGED <<session, prev>>
    BY <1>c DEF ReconcileEnd
  <2>2. TypeOK'
    BY <1>a, <1>c, <2>1 DEF TypeOK, Phases
  <2>3. Memory'
    BY <1>a, <1>c, <2>1 DEF Memory, InUse, Stuck
  <2>4. CaptureOnlyOnGateway'
    BY <1>a, <1>c, <2>1, DiffersFrom DEF CaptureOnlyOnGateway, PlanComplete, Pending, Steps, Progress
  <2>5. Progress' /\ StatusNotBetter'
    BY <1>a, <1>c, <2>1 DEF StatusNotBetter, Progress
  <2>6. PlanComplete'
    BY <1>a, <1>c, <1>q DEF PlanComplete, Pending
  <2> QED BY <2>2, <2>3, <2>4, <2>5, <2>6, <1>a, <1>q DEF Accounted, PlanComplete, Pending, AddressKept
<1> QED BY <1>b, <1>c DEF TypeOK

\* What one undo does, whoever does it and whether or not it works: its step
\* leaves the plan, what it leaves behind is lost, and it touches no other step.
Undid(s) ==
    /\ todo' = todo \ {s}
    /\ lost' \subseteq lost \cup {s}
    /\ \A x \in lost : Differs(kernel, x)' => x \in lost'
    /\ Differs(kernel, s)' => s \in lost'
    /\ \A x \in Steps \ {s} : Differs(kernel, x)' = Differs(kernel, x)
    /\ kernel' \in Machine
    /\ kernel'.forwarding = kernel.forwarding \/ (s = "forwarding" /\ kernel'.forwarding = prev)
    /\ s # "address" => kernel'.address = kernel.address
    /\ s # "hostapd" => kernel'.hostapd = kernel.hostapd
    /\ \/ kernel'.table = kernel.table /\ kernel'.capture = kernel.capture
       \/ s = "table" /\ ~kernel'.table /\ ~kernel'.capture
    /\ reported' \subseteq Steps /\ faults' \in 0..MaxFaults
    /\ UNCHANGED <<found, journal, phase, goal, steps, prev, session, crashes, meddled>>

\* Undoing a step changes what belongs to that step and nothing else.
LEMMA UndoneEffect ==
    ASSUME TypeOK, NEW s \in Steps, found' = found, kernel' \in {kernel, Undone(s)}
    PROVE  /\ \A x \in Steps \ {s} : Differs(kernel, x)' = Differs(kernel, x)
           /\ kernel' \in Machine
           /\ kernel'.forwarding = kernel.forwarding
              \/ (s = "forwarding" /\ kernel'.forwarding = prev)
           /\ s # "address" => kernel'.address = kernel.address
           /\ s # "hostapd" => kernel'.hostapd = kernel.hostapd
           /\ \/ kernel'.table = kernel.table /\ kernel'.capture = kernel.capture
              \/ s = "table" /\ ~kernel'.table /\ ~kernel'.capture
<1>0. CASE kernel' = kernel
  BY <1>0 DEF TypeOK, Differs, Machine
<1>1. CASE s = "forwarding" /\ kernel' = Undone(s)
  BY <1>1 DEF Undone, TypeOK, Differs, Steps, Machine
<1>2. CASE s = "address" /\ kernel' = Undone(s)
  BY <1>2 DEF Undone, TypeOK, Differs, Steps, Machine
<1>3. CASE s = "table" /\ kernel' = Undone(s)
  BY <1>3 DEF Undone, TypeOK, Differs, Steps, Machine
<1>4. CASE s = "hostapd" /\ kernel' = Undone(s)
  BY <1>4 DEF Undone, TypeOK, Differs, Steps, Machine
<1> QED BY <1>0, <1>1, <1>2, <1>3, <1>4 DEF Steps

\* Every outcome of UndoStep is an Undid: an undo that works leaves nothing behind
\* that was not lost before or with it (a wrong value for forwarding, an address
\* that was there beforehand); what one that fails leaves is lost.
LEMMA UndoStepEffect ==
    ASSUME IInv, NEW s \in todo, phase \in {"reconciling", "closing"}, UndoStep(s)
    PROVE  s \in Steps /\ Undid(s)
<1> USE SessionAssumption DEF IInv
<1>0. /\ s \in Steps
      /\ UNCHANGED <<found, journal, phase, goal, steps, prev, session, crashes, meddled>>
      /\ todo' = todo \ {s}
  BY DEF UndoStep, TypeOK
<1>1. CASE NoFault /\ ~NotThere(s) /\ kernel' = Undone(s) /\ Lose(TakenAway(s)) /\ UNCHANGED reported
  <2>1. Undone(s).forwarding = IF s = "forwarding" THEN prev ELSE kernel.forwarding
    BY <1>0 DEF Undone, TypeOK, Steps
  <2>2. /\ s = "address" => Undone(s).address = FALSE
        /\ s = "table" => Undone(s).table = FALSE
        /\ s = "hostapd" => Undone(s).hostapd = FALSE
    BY <1>0 DEF Undone, TypeOK, Steps
  <2>3. /\ lost' = {x \in lost \cup TakenAway(s) : Differs(kernel, x)'}
        /\ TakenAway(s) \subseteq {s}
    BY <1>0, <1>1 DEF Lose, Differs, TakenAway
  <2>4. ASSUME Differs(kernel, s)' PROVE s \in lost \cup TakenAway(s)
    <3>1. CASE s = "forwarding"
      <4>1. prev # found.forwarding
        BY <1>0, <1>1, <2>1, <2>4, <3>1 DEF Differs
      <4> QED BY <3>1, <4>1 DEF Memory, InUse, Stuck
    <3>2. CASE s = "address"
      BY <1>0, <1>1, <2>2, <2>4, <3>2 DEF Differs, TakenAway, TypeOK
    <3>3. CASE s \in {"table", "hostapd"}
      BY <1>0, <1>1, <2>2, <2>4, <3>3 DEF Differs
    <3> QED BY <1>0, <3>1, <3>2, <3>3 DEF Steps
  <2> QED BY <1>0, <1>1, <2>3, <2>4, UndoneEffect DEF NoFault, TypeOK, Undid
<1>2. CASE NoFault /\ NotThere(s) /\ reported' = reported \cup {s} /\ UNCHANGED <<kernel, lost>>
  <2>1. Differs(kernel, s)' => s \in lost
    BY <1>0, <1>2 DEF Differs, NotThere, AddressKept, TypeOK
  <2> QED BY <1>0, <1>2, <2>1, UndoneEffect DEF NoFault, TypeOK, Undid
<1>3. CASE Fault
  <2>1. /\ kernel' \in {kernel, Undone(s)} /\ Lose({s})
        /\ reported' \in {reported, reported \cup {s}}
    BY <1>3 DEF UndoStep, Fault, NoFault, TypeOK
  <2>2. lost' = {x \in lost \cup {s} : Differs(kernel, x)'}
    BY <1>0, <2>1 DEF Lose, Differs
  <2> QED BY <1>0, <1>3, <2>1, <2>2, UndoneEffect DEF Fault, TypeOK, Undid
<1> QED BY <1>1, <1>2, <1>3 DEF UndoStep

\* The parts of the invariant that Reconcile and the tear down keep alike.
LEMMA UndidInv ==
    ASSUME IInv, NEW s \in todo, s \in Steps, phase \in {"reconciling", "closing"}, Undid(s)
    PROVE  TypeOK' /\ Accounted' /\ PlanComplete' /\ Memory' /\ AddressKept'
<1> USE DEF IInv
<1>1. TypeOK'
  BY DEF TypeOK, Undid, Machine
<1>2. Accounted'
  <2> SUFFICES ASSUME NEW x \in Steps \ {"table"}, Differs(kernel, x)', x \notin lost'
               PROVE  x \in journal.steps
    BY DEF Accounted, Undid
  <2> QED BY DEF Accounted, Undid
<1>3. PlanComplete'
  <2> SUFFICES ASSUME NEW x \in Steps, Differs(kernel, x)', x \notin lost'
               PROVE  x \in todo'
    BY DEF PlanComplete, Pending, Undid
  <2> QED BY DEF PlanComplete, Pending, Undid
<1>4. Memory'
  <2>1. InUse' => InUse
    BY DEF InUse, Undid
  <2>2. found.forwarding = "1" => kernel'.forwarding = "1"
    BY DEF Memory, InUse, Stuck, Undid
  <2>3. ASSUME Stuck, prev # found.forwarding \/ s # "forwarding" PROVE Stuck'
    <3>1. kernel'.forwarding # found.forwarding
      BY <2>3 DEF Stuck, Undid
    <3>2. Differs(kernel, "forwarding")'
      BY <3>1 DEF Differs, Undid
    <3> QED BY <2>3, <3>1, <3>2 DEF Stuck, Undid
  <2>4. s = "forwarding" => InUse
    BY DEF InUse
  <2> QED BY <2>1, <2>2, <2>3, <2>4 DEF Memory, Undid
<1>5. AddressKept'
  <2> SUFFICES ASSUME found.address, ~kernel'.address PROVE "address" \in lost'
    BY DEF AddressKept, Undid
  <2>1. Differs(kernel, "address")'
    BY DEF Differs, Undid
  <2>2. CASE s = "address"
    BY <2>1, <2>2 DEF Undid
  <2>3. CASE s # "address"
    BY <2>1, <2>3 DEF Undid, AddressKept
  <2> QED BY <2>2, <2>3
<1> QED BY <1>1, <1>2, <1>3, <1>4, <1>5

\* Reconcile takes the table away first, so while the redirect is in force the
\* address and forwarding behind it stay.
LEMMA ReconcileUndoInv == ASSUME IInv, ReconcileUndo PROVE IInv'
<1> USE DEF IInv
<1>1. PICK s \in todo : /\ s = "address" => todo = {"address"}
                        /\ s = "forwarding" => "table" \notin todo
                        /\ UndoStep(s)
  BY DEF ReconcileUndo
<1>2. phase = "reconciling" /\ s \in Steps /\ Undid(s) /\ s # "hostapd"
  BY <1>1, UndoStepEffect DEF ReconcileUndo, Progress
<1>3. TypeOK' /\ Accounted' /\ PlanComplete' /\ Memory' /\ AddressKept'
  BY <1>2, UndidInv
<1>4. Progress'
  BY <1>2 DEF Progress, Undid
<1>5. CaptureOnlyOnGateway'
  <2> SUFFICES ASSUME kernel'.capture, lost' \cap {"capture", "table"} = {}
               PROVE  /\ kernel'.table /\ kernel'.address /\ kernel'.hostapd
                      /\ kernel'.forwarding = "1"
    BY <1>2 DEF CaptureOnlyOnGateway, Undid
  <2>1. kernel.capture /\ kernel.table /\ kernel'.table
    BY <1>2 DEF Undid, Progress
  <2>2. Differs(kernel, "table") /\ Differs(kernel, "table")' /\ Differs(kernel, "capture")'
    BY <1>2, <2>1 DEF Differs
  <2>3. "table" \notin lost /\ "capture" \notin lost /\ s # "table"
    BY <1>2, <2>2 DEF Undid
  <2>4. "table" \in todo
    BY <1>2, <2>2, <2>3 DEF PlanComplete, Pending, Steps
  <2>5. s \notin {"forwarding", "address"}
    BY <1>1, <2>4
  <2> QED BY <1>2, <2>1, <2>3, <2>5 DEF CaptureOnlyOnGateway, Undid
<1>6. StatusNotBetter'
  BY <1>2 DEF StatusNotBetter, Undid
<1> QED BY <1>3, <1>4, <1>5, <1>6

\* In a tear down the redirect is off before the first undo, or it is lost.
LEMMA TearDownUndoInv == ASSUME IInv, TearDownUndo PROVE IInv'
<1> USE DEF IInv
<1>1. PICK s \in todo : UndoStep(s)
  BY DEF TearDownUndo
<1>2. phase = "closing" /\ s \in Steps /\ Undid(s)
  BY <1>1, UndoStepEffect DEF TearDownUndo
<1>3. TypeOK' /\ Accounted' /\ PlanComplete' /\ Memory' /\ AddressKept'
  BY <1>2, UndidInv
<1>4. Progress'
  BY <1>2 DEF Progress, Undid
<1>5. CaptureOnlyOnGateway'
  <2> SUFFICES ASSUME kernel'.capture PROVE lost' \cap {"capture", "table"} # {}
    BY DEF CaptureOnlyOnGateway
  <2>1. kernel.capture /\ kernel'.table
    BY <1>2 DEF Undid, Progress
  <2>2. PICK x \in {"capture", "table"} : x \in lost
    BY <1>2, <2>1 DEF CaptureOnlyOnGateway
  <2>3. Differs(kernel, "table")' /\ Differs(kernel, "capture")'
    BY <2>1 DEF Differs
  <2> QED BY <1>2, <2>2, <2>3 DEF Undid
<1>6. StatusNotBetter'
  BY <1>2 DEF StatusNotBetter, Undid
<1> QED BY <1>3, <1>4, <1>5, <1>6

\* A start that is refused before it changes anything.
LEMMA StartRefusedInv == ASSUME IInv, StartRefused PROVE IInv'
<1> USE DEF IInv, StartRefused, NoSession, machine, bounds
<1>q. \A s : Differs(kernel, s)' = Differs(kernel, s)
  BY Quiet
<1>1. TypeOK'
  BY SessionAssumption, SMTT(30) DEF TypeOK, Switch, Steps, Phases
<1>2. Accounted'
  BY <1>q, SMTT(30) DEF Accounted
<1>3. PlanComplete'
  BY <1>q, SMTT(30) DEF PlanComplete, Pending
<1>4. Progress'
  BY SMTT(30) DEF Progress
<1>5. Memory'
  BY SMTT(30) DEF Memory, InUse, Stuck
<1>6. CaptureOnlyOnGateway'
  BY SMTT(30) DEF CaptureOnlyOnGateway
<1>7. StatusNotBetter'
  BY SMTT(30) DEF StatusNotBetter
<1>8. AddressKept'
  BY SMTT(30) DEF AddressKept
<1> QED BY <1>1, <1>2, <1>3, <1>4, <1>5, <1>6, <1>7, <1>8

\* A step is recorded with the steps before it and the value to restore.
LEMMA RecordInv == ASSUME IInv, Record PROVE IInv'
<1> USE DEF IInv, Record, NextStep, Fault, NoFault
<1>q. \A s : Differs(kernel, s)' = Differs(kernel, s)
  BY Quiet
<1>1. TypeOK'
  <2>1. CASE NoFault
    BY <2>1, SessionAssumption DEF TypeOK
  <2>2. CASE Fault /\ phase' = "uncapturing" /\ UNCHANGED <<steps, todo, journal>>
    BY <2>2, SessionAssumption DEF TypeOK, Phases
  <2> QED BY <2>1, <2>2
<1>2. Accounted'
  BY <1>q, SMTT(30) DEF Accounted, Progress, PlanComplete, Pending
<1>3. PlanComplete'
  BY <1>q, SMTT(30) DEF PlanComplete, Pending, TypeOK
<1>4. Progress'
  BY SMTT(30) DEF Progress, TypeOK
<1>5. Memory'
  BY SMTT(30) DEF Memory, InUse, Stuck
<1>6. CaptureOnlyOnGateway'
  BY SMTT(30) DEF CaptureOnlyOnGateway
<1>7. StatusNotBetter'
  BY SMTT(30) DEF StatusNotBetter
<1>8. AddressKept'
  BY SMTT(30) DEF AddressKept
<1> QED BY <1>1, <1>2, <1>3, <1>4, <1>5, <1>6, <1>7, <1>8

\* Bring-up is over when every step is recorded and performed.
LEMMA UpInv == ASSUME IInv, Up PROVE IInv'
<1> USE DEF IInv, Up, machine, bounds
<1>q. \A s : Differs(kernel, s)' = Differs(kernel, s)
  BY Quiet
<1>1. TypeOK'
  BY SessionAssumption, SMTT(30) DEF TypeOK, Switch, Steps, Phases
<1>2. Accounted'
  BY <1>q, SMTT(30) DEF Accounted
<1>3. PlanComplete'
  BY <1>q, SMTT(30) DEF PlanComplete, Pending
<1>4. Progress'
  BY SMTT(30) DEF Progress, Steps
<1>5. Memory'
  BY SMTT(30) DEF Memory, InUse, Stuck
<1>6. CaptureOnlyOnGateway'
  BY SMTT(30) DEF CaptureOnlyOnGateway
<1>7. StatusNotBetter'
  BY SMTT(30) DEF StatusNotBetter, Progress
<1>8. AddressKept'
  BY SMTT(30) DEF AddressKept
<1> QED BY <1>1, <1>2, <1>3, <1>4, <1>5, <1>6, <1>7, <1>8

\* Close only begins the tear down.
LEMMA CloseInv == ASSUME IInv, Close PROVE IInv'
<1> USE DEF IInv, Close, machine, bounds
<1>q. \A s : Differs(kernel, s)' = Differs(kernel, s)
  BY Quiet
<1>1. TypeOK'
  BY SessionAssumption, SMTT(30) DEF TypeOK, Switch, Steps, Phases
<1>2. Accounted'
  BY <1>q, SMTT(30) DEF Accounted
<1>3. PlanComplete'
  BY <1>q, SMTT(30) DEF PlanComplete, Pending
<1>4. Progress'
  BY SMTT(30) DEF Progress
<1>5. Memory'
  BY SMTT(30) DEF Memory, InUse, Stuck
<1>6. CaptureOnlyOnGateway'
  BY SMTT(30) DEF CaptureOnlyOnGateway
<1>7. StatusNotBetter'
  BY SMTT(30) DEF StatusNotBetter
<1>8. AddressKept'
  BY SMTT(30) DEF AddressKept
<1> QED BY <1>1, <1>2, <1>3, <1>4, <1>5, <1>6, <1>7, <1>8

\* The tear down drops the journal when nothing is left to undo.
LEMMA TearDownEndInv == ASSUME IInv, TearDownEnd PROVE IInv'
<1> USE DEF IInv, TearDownEnd, NoSession, Fault, NoFault
<1>q. \A s : Differs(kernel, s)' = Differs(kernel, s)
  BY Quiet
<1>1. TypeOK'
  BY SessionAssumption, SMTT(30) DEF TypeOK, Switch, Steps, Phases
<1>2. Accounted'
  BY <1>q, SMTT(30) DEF Accounted, PlanComplete, Pending
<1>3. PlanComplete'
  BY <1>q, SMTT(30) DEF PlanComplete, Pending
<1>4. Progress'
  BY SMTT(30) DEF Progress
<1>5. Memory'
  BY SMTT(30) DEF Memory, InUse, Stuck, TypeOK
<1>6. CaptureOnlyOnGateway'
  BY SMTT(30) DEF CaptureOnlyOnGateway
<1>7. StatusNotBetter'
  BY SMTT(30) DEF StatusNotBetter
<1>8. AddressKept'
  BY SMTT(30) DEF AddressKept
<1> QED BY <1>1, <1>2, <1>3, <1>4, <1>5, <1>6, <1>7, <1>8

\* A death loses the plan; the journal stands in for it.
LEMMA CrashInv == ASSUME IInv, Crash PROVE IInv'
<1> USE DEF IInv, Crash, Forget, NoSession, machine
<1>q. \A s : Differs(kernel, s)' = Differs(kernel, s)
  BY Quiet
<1>1. TypeOK'
  BY SessionAssumption, SMTT(30) DEF TypeOK, Switch, Steps, Phases
<1>2. Accounted'
  BY <1>q, SMTT(30) DEF Accounted
<1>3. PlanComplete'
  BY <1>q, SMTT(30) DEF PlanComplete, Pending, Accounted
<1>4. Progress'
  BY SMTT(30) DEF Progress
<1>5. Memory'
  BY SMTT(30) DEF Memory, InUse, Stuck
<1>6. CaptureOnlyOnGateway'
  BY SMTT(30) DEF CaptureOnlyOnGateway
<1>7. StatusNotBetter'
  BY SMTT(30) DEF StatusNotBetter
<1>8. AddressKept'
  BY SMTT(30) DEF AddressKept
<1> QED BY <1>1, <1>2, <1>3, <1>4, <1>5, <1>6, <1>7, <1>8

\* What a wiped journal knew is lost.
LEMMA WipeInv == ASSUME IInv, WipeRun PROVE IInv'
<1> USE DEF IInv, WipeRun, memory
<1>q. \A s : Differs(kernel, s)' = Differs(kernel, s)
  BY Quiet
<1>1. TypeOK'
  BY SessionAssumption, SMTT(30) DEF TypeOK, Switch, Steps, Phases
<1>2. Accounted'
  BY <1>q, SMTT(30) DEF Accounted
<1>3. PlanComplete'
  <2>1. CASE phase = "dead"
    BY <1>q, <2>1 DEF PlanComplete, Pending, TypeOK
  <2>2. CASE phase # "dead"
    BY <1>q, <2>2 DEF PlanComplete, Pending, TypeOK, Phases
  <2> QED BY <2>1, <2>2
<1>4. Progress'
  BY SMTT(30) DEF Progress
<1>5. Memory'
  BY SMTT(30) DEF Memory, InUse, Stuck
<1>6. CaptureOnlyOnGateway'
  BY SMTT(30) DEF CaptureOnlyOnGateway
<1>7. StatusNotBetter'
  BY SMTT(30) DEF StatusNotBetter
<1>8. AddressKept'
  BY SMTT(30) DEF AddressKept
<1> QED BY <1>1, <1>2, <1>3, <1>4, <1>5, <1>6, <1>7, <1>8

\* A step is performed after it was recorded, so it is accounted for whether its
\* command works, fails, or fails with its effect taken.
LEMMA PerformInv == ASSUME IInv, Perform PROVE IInv'
<1> USE DEF IInv
<1>1. PICK s \in todo :
        /\ kernel' \in {kernel, Applied(s)}
        /\ (kernel' = Applied(s) /\ phase' = "starting") \/ phase' = "uncapturing"
           \/ (kernel.hostapd /\ s = "hostapd" /\ kernel' = kernel /\ phase' = "uncapturing")
  BY DEF Perform, CannotApply
<1>2. /\ phase = "starting" /\ todo' = {} /\ s \in Steps
      /\ faults' \in 0..MaxFaults
      /\ UNCHANGED <<found, journal, goal, steps, prev, session, reported, lost, crashes, meddled>>
  BY <1>1, SessionAssumption DEF Perform, Fault, NoFault, TypeOK
<1>3. /\ kernel'.forwarding = kernel.forwarding \/ (s = "forwarding" /\ kernel'.forwarding = "1")
      /\ kernel'.address = kernel.address \/ (s = "address" /\ kernel'.address = TRUE)
      /\ kernel'.table = kernel.table \/ (s = "table" /\ kernel'.table = TRUE)
      /\ kernel'.hostapd = kernel.hostapd \/ (s = "hostapd" /\ kernel'.hostapd = TRUE)
      /\ kernel'.capture = kernel.capture
      /\ kernel' \in Machine
  <2>1. CASE s = "forwarding"
    BY <1>1, <2>1, ZenonT(30) DEF Applied, TypeOK, Machine, Switch
  <2>2. CASE s = "address"
    BY <1>1, <2>2, ZenonT(30) DEF Applied, TypeOK, Machine
  <2>3. CASE s = "table"
    BY <1>1, <2>3, ZenonT(30) DEF Applied, TypeOK, Machine
  <2>4. CASE s = "hostapd"
    BY <1>1, <2>4, ZenonT(30) DEF Applied, TypeOK, Machine
  <2> QED BY <1>2, <2>1, <2>2, <2>3, <2>4 DEF Steps
<1>4. phase' = "starting" =>
        /\ s = "forwarding" => kernel'.forwarding = "1"
        /\ s = "address" => kernel'.address
        /\ s = "hostapd" => kernel'.hostapd
  <2> SUFFICES ASSUME phase' = "starting" PROVE kernel' = Applied(s)
    BY <1>2 DEF Applied, TypeOK
  <2> QED BY <1>1
<1>5. \A x \in Steps \ {s} : Differs(kernel, x)' = Differs(kernel, x)
  BY <1>2, <1>3 DEF Differs, Steps
<1>6. TypeOK'
  BY <1>1, <1>2, <1>3 DEF TypeOK, Phases, Machine
<1>7. Accounted'
  <2> SUFFICES ASSUME NEW x \in Steps \ {"table"}, Differs(kernel, x)', x \notin lost'
               PROVE  x \in journal.steps'
    BY DEF Accounted
  <2>1. CASE x = s
    BY <1>1, <1>2, <2>1 DEF Progress
  <2>2. CASE x # s
    BY <1>2, <1>5, <2>2 DEF Accounted
  <2> QED BY <2>1, <2>2
<1>8. PlanComplete'
  <2> SUFFICES ASSUME NEW x \in Steps, Differs(kernel, x)', x \notin lost'
               PROVE  x \in steps
    BY <1>1, <1>2 DEF PlanComplete, Pending
  <2>1. CASE x = s
    BY <1>1, <1>2, <2>1 DEF Progress
  <2>2. CASE x # s
    BY <1>2, <1>5, <2>2 DEF PlanComplete, Pending
  <2> QED BY <2>1, <2>2
<1>9. Progress'
  BY <1>1, <1>2, <1>3, <1>4 DEF Progress, TypeOK
<1>10. Memory'
  BY <1>1, <1>2, <1>3 DEF Memory, InUse, Stuck, TypeOK, Switch
<1>11. CaptureOnlyOnGateway' /\ StatusNotBetter' /\ AddressKept'
  BY <1>1, <1>2, <1>3 DEF CaptureOnlyOnGateway, StatusNotBetter, AddressKept
<1> QED BY <1>6, <1>7, <1>8, <1>9, <1>10, <1>11

\* Switching the redirect, whatever comes of it, changes nothing else.
LEMMA SwitchEffect ==
    ASSUME TypeOK, NEW on \in BOOLEAN, Switched(on) \/ NotSwitched(on)
    PROVE  /\ kernel' \in {kernel, [kernel EXCEPT !.capture = on]}
           /\ kernel' \in Machine
           /\ kernel'.forwarding = kernel.forwarding /\ kernel'.address = kernel.address
           /\ kernel'.table = kernel.table /\ kernel'.hostapd = kernel.hostapd
           /\ kernel'.capture = kernel.capture \/ (kernel.table /\ kernel'.capture = on)
           /\ Switched(on) => kernel'.capture = on
           /\ faults' \in 0..MaxFaults
<1>1. kernel' = kernel \/ (kernel.table /\ kernel' = [kernel EXCEPT !.capture = on])
  BY DEF Switched, NotSwitched, CaptureFails
<1>2. faults' \in 0..MaxFaults
  BY SessionAssumption DEF Switched, NotSwitched, Fault, NoFault, TypeOK
<1>3. Switched(on) => kernel'.capture = on
  BY DEF Switched, TypeOK
<1> QED BY <1>1, <1>2, <1>3 DEF TypeOK, Machine

\* Switching the redirect of a running session: it is up, so everything the
\* redirect needs is there.
LEMMA SetDNSCaptureInv ==
    ASSUME IInv, NEW on \in BOOLEAN, SetDNSCapture(on)
    PROVE  IInv'
<1> USE DEF IInv
<1>0. /\ phase = "running"
      /\ UNCHANGED <<found, journal, phase, goal, steps, prev, todo, reported, lost, crashes, meddled>>
  BY DEF SetDNSCapture
<1>1. /\ kernel' \in Machine
      /\ kernel'.forwarding = kernel.forwarding /\ kernel'.address = kernel.address
      /\ kernel'.table = kernel.table /\ kernel'.hostapd = kernel.hostapd
      /\ kernel'.capture = kernel.capture \/ (kernel.table /\ kernel'.capture = on)
      /\ Switched(on) => kernel'.capture = on
      /\ faults' \in 0..MaxFaults
  BY SwitchEffect DEF SetDNSCapture
<1>2. \A s \in Steps : Differs(kernel, s)' = Differs(kernel, s)
  BY <1>0, <1>1 DEF Differs, Steps
<1>3. /\ session' \in [state : {"stopped", "starting", "running", "degraded"}, capture : BOOLEAN,
                       blocked : SUBSET Devices]
      /\ \/ Switched(on) /\ session'.capture = on
         \/ /\ session'.capture = session.capture
            /\ session'.state = IF on THEN session.state ELSE "degraded"
  BY DEF SetDNSCapture, TypeOK
<1>4. TypeOK'
  BY <1>0, <1>1, <1>3 DEF TypeOK, Machine
<1>5. Accounted'
  BY <1>0, <1>2 DEF Accounted
<1>6. PlanComplete'
  BY <1>0, <1>2 DEF PlanComplete, Pending
<1>7. Progress'
  BY <1>0, <1>1 DEF Progress
<1>8. Memory'
  BY <1>0, <1>1 DEF Memory, InUse, Stuck
<1>9. CaptureOnlyOnGateway'
  BY <1>0, <1>1 DEF CaptureOnlyOnGateway, Progress
<1>10. StatusNotBetter'
  BY <1>0, <1>1, <1>3 DEF StatusNotBetter, TypeOK
<1>11. AddressKept'
  BY <1>0, <1>1 DEF AddressKept
<1> QED BY <1>4, <1>5, <1>6, <1>7, <1>8, <1>9, <1>10, <1>11

\* Blocking a device changes the set of blocked devices only.
LEMMA BlockInv ==
    ASSUME IInv, NEW d \in Devices, NEW on \in BOOLEAN, Block(d, on)
    PROVE  IInv'
<1> USE DEF IInv
<1>0. /\ phase = "running"
      /\ UNCHANGED <<found, journal, phase, goal, steps, prev, todo, reported, lost, crashes, meddled>>
  BY DEF Block
<1>1. PICK b \in SUBSET Devices : kernel' = [kernel EXCEPT !.blocked = b]
  BY DEF Block, TypeOK
<1>2. PICK c \in SUBSET Devices : session' = [session EXCEPT !.blocked = c]
  BY DEF Block, TypeOK
<1>3. faults' \in 0..MaxFaults
  BY SessionAssumption DEF Block, Fault, NoFault, TypeOK
<1>4. \A s \in Steps : Differs(kernel, s)' = Differs(kernel, s)
  BY <1>0, <1>1 DEF Differs, Steps, TypeOK
<1>5. TypeOK'
  BY <1>0, <1>1, <1>2, <1>3 DEF TypeOK
<1>6. Accounted'
  BY <1>0, <1>4 DEF Accounted
<1>7. PlanComplete'
  BY <1>0, <1>4 DEF PlanComplete, Pending
<1>8. Progress'
  BY <1>0, <1>1 DEF Progress, TypeOK
<1>9. Memory'
  BY <1>0, <1>1 DEF Memory, InUse, Stuck, TypeOK
<1>10. CaptureOnlyOnGateway' /\ StatusNotBetter' /\ AddressKept'
  BY <1>0, <1>1, <1>2 DEF CaptureOnlyOnGateway, StatusNotBetter, AddressKept, TypeOK
<1> QED BY <1>5, <1>6, <1>7, <1>8, <1>9, <1>10

\* The tear down switches the redirect off, or it is lost, and then plans the undo
\* of every recorded step.
LEMMA TearDownBeginInv == ASSUME IInv, TearDownBegin PROVE IInv'
<1> USE DEF IInv
<1>0. /\ phase = "uncapturing" /\ phase' = "closing" /\ todo' = steps /\ reported' = {}
      /\ UNCHANGED <<found, journal, goal, steps, prev, crashes, meddled>>
  BY DEF TearDownBegin
<1>1. /\ kernel' \in Machine
      /\ kernel'.forwarding = kernel.forwarding /\ kernel'.address = kernel.address
      /\ kernel'.table = kernel.table /\ kernel'.hostapd = kernel.hostapd
      /\ kernel'.capture = kernel.capture \/ (kernel.table /\ kernel'.capture = FALSE)
      /\ faults' \in 0..MaxFaults
  BY SwitchEffect DEF TearDownBegin
<1>2. \A s \in Steps : Differs(kernel, s)' = Differs(kernel, s)
  BY <1>0, <1>1 DEF Differs, Steps
<1>3. lost' = {s \in lost \cup {"capture"} : Differs(kernel, s)'}
  BY <1>0 DEF TearDownBegin, Lose, Differs
<1>4. session' \in [state : {"stopped", "starting", "running", "degraded"}, capture : BOOLEAN,
                   blocked : SUBSET Devices]
  BY DEF TearDownBegin, TypeOK
<1>5. TypeOK'
  BY <1>0, <1>1, <1>3, <1>4 DEF TypeOK, Machine, Phases
<1>6. Accounted'
  <2> SUFFICES ASSUME NEW s \in Steps \ {"table"}, Differs(kernel, s)', s \notin lost'
               PROVE  s \in journal.steps
    BY <1>0 DEF Accounted
  <2> QED BY <1>2, <1>3 DEF Accounted
<1>7. PlanComplete'
  <2> SUFFICES ASSUME NEW s \in Steps, Differs(kernel, s)', s \notin lost'
               PROVE  s \in steps
    BY <1>0 DEF PlanComplete, Pending
  <2> QED BY <1>0, <1>2, <1>3 DEF PlanComplete, Pending
<1>8. Progress'
  BY <1>0, <1>1 DEF Progress
<1>9. Memory'
  <2>1. Stuck => Stuck'
    <3> SUFFICES ASSUME Stuck PROVE "forwarding" \in lost' /\ kernel'.forwarding # found'.forwarding
      BY DEF Stuck
    <3>1. Differs(kernel, "forwarding")'
      BY <1>0, <1>1 DEF Differs, Stuck
    <3> QED BY <1>0, <1>1, <1>3, <3>1 DEF Stuck
  <2> QED BY <1>0, <1>1, <2>1 DEF Memory, InUse
<1>10. CaptureOnlyOnGateway'
  <2>1. kernel'.capture => Differs(kernel, "capture")'
    BY DEF Differs
  <2> QED BY <1>3, <2>1 DEF CaptureOnlyOnGateway
<1>11. StatusNotBetter' /\ AddressKept'
  <2>1. found.address /\ ~kernel'.address => Differs(kernel, "address")'
    BY <1>0 DEF Differs
  <2> QED BY <1>0, <1>1, <1>3, <2>1 DEF StatusNotBetter, AddressKept
<1> QED BY <1>5, <1>6, <1>7, <1>8, <1>9, <1>10, <1>11

\* After a reboot there is nothing to account for.
LEMMA RebootInv == ASSUME IInv, Reboot PROVE IInv'
<1> USE DEF IInv
<1>0. /\ phase' = "dead" /\ goal' = "idle" /\ steps' = {} /\ todo' = {} /\ reported' = {}
      /\ prev' = "0" /\ lost' = {} /\ crashes' \in 0..MaxCrashes
      /\ session' = [state |-> "stopped", capture |-> FALSE, blocked |-> {}]
      /\ journal' = [steps |-> {}, prev |-> "0"]
      /\ UNCHANGED <<found, faults, meddled>>
  BY SessionAssumption DEF Reboot, Forget, NoSession, TypeOK
<1>1. kernel' = [forwarding |-> found.forwarding, address |-> found.address, table |-> FALSE,
                 hostapd |-> FALSE, capture |-> FALSE, blocked |-> {}]
  BY DEF Reboot
<1>2. \A s \in Steps : ~Differs(kernel, s)'
  BY <1>0, <1>1 DEF Differs, Steps
<1>3. TypeOK'
  BY <1>0, <1>1 DEF TypeOK, Phases, Switch
<1>4. Accounted' /\ PlanComplete'
  BY <1>2 DEF Accounted, PlanComplete
<1>5. Progress' /\ Memory' /\ CaptureOnlyOnGateway' /\ StatusNotBetter' /\ AddressKept'
  BY <1>0, <1>1 DEF Progress, Memory, InUse, CaptureOnlyOnGateway, StatusNotBetter, AddressKept
<1> QED BY <1>3, <1>4, <1>5

\* A flush from outside only takes away.
LEMMA FlushInv == ASSUME IInv, FlushRuleset PROVE IInv'
<1> USE DEF IInv
<1>0. /\ UNCHANGED <<found, journal, phase, goal, steps, prev, todo, session, reported, faults, crashes>>
      /\ meddled' \in 0..MaxMeddling /\ lost' = lost \ {"table", "capture"}
  BY SessionAssumption DEF FlushRuleset, memory, TypeOK
<1>1. kernel' = [forwarding |-> kernel.forwarding, address |-> kernel.address, table |-> FALSE,
                 hostapd |-> kernel.hostapd, capture |-> FALSE, blocked |-> {}]
  BY DEF FlushRuleset, TypeOK
<1>2. /\ ~Differs(kernel, "table")'
      /\ \A s \in Steps \ {"table"} : Differs(kernel, s)' = Differs(kernel, s)
  BY <1>0, <1>1 DEF Differs, Steps
<1>3. TypeOK'
  BY <1>0, <1>1 DEF TypeOK
<1>4. Accounted'
  BY <1>0, <1>2 DEF Accounted, Steps
<1>5. PlanComplete'
  <2> SUFFICES ASSUME NEW s \in Steps, Differs(kernel, s)', s \notin lost' PROVE s \in Pending
    BY <1>0 DEF PlanComplete, Pending
  <2> QED BY <1>0, <1>2 DEF PlanComplete, Steps
<1>6. Progress'
  BY <1>0, <1>1 DEF Progress, TypeOK, Steps
<1>7. Memory'
  BY <1>0, <1>1 DEF Memory, InUse, Stuck
<1>8. CaptureOnlyOnGateway' /\ StatusNotBetter' /\ AddressKept'
  BY <1>0, <1>1 DEF CaptureOnlyOnGateway, StatusNotBetter, AddressKept
<1> QED BY <1>3, <1>4, <1>5, <1>6, <1>7, <1>8

\* The first start finds nothing of its own.
LEMMA InitInv == ASSUME Init PROVE IInv
<1> USE SessionAssumption
<1>1. TypeOK
  BY DEF Init, TypeOK, Phases, Switch, NoSession
<1>2. \A s \in Steps : ~Differs(kernel, s)
  BY DEF Init, Differs, Steps
<1>3. Accounted /\ PlanComplete
  BY <1>2 DEF Accounted, PlanComplete
<1>4. Progress /\ Memory /\ CaptureOnlyOnGateway /\ StatusNotBetter /\ AddressKept
  BY DEF Init, Progress, Memory, InUse, CaptureOnlyOnGateway, StatusNotBetter, AddressKept
<1> QED BY <1>1, <1>3, <1>4 DEF IInv

\* Every step keeps the invariant.
LEMMA NextInv == ASSUME IInv, [Next]_vars PROVE IInv'
<1>1. CASE Launch
  BY <1>1, BeginInv DEF Launch
<1>2. CASE StartGateway
  BY <1>2, BeginInv DEF StartGateway
<1>3. CASE ReconcileUndo \/ ReconcileEnd \/ StartRefused
  BY <1>3, ReconcileUndoInv, ReconcileEndInv, StartRefusedInv
<1>4. CASE Record \/ Perform \/ Up
  BY <1>4, RecordInv, PerformInv, UpInv
<1>5. CASE Close \/ TearDownBegin \/ TearDownUndo \/ TearDownEnd
  BY <1>5, CloseInv, TearDownBeginInv, TearDownUndoInv, TearDownEndInv
<1>6. CASE \E on \in BOOLEAN : SetDNSCapture(on) \/ \E d \in Devices : Block(d, on)
  BY <1>6, SetDNSCaptureInv, BlockInv
<1>7. CASE Crash \/ Reboot \/ FlushRuleset \/ WipeRun
  BY <1>7, CrashInv, RebootInv, FlushInv, WipeInv
<1>8. CASE UNCHANGED vars
  <2>1. UNCHANGED <<found, kernel, journal, phase, goal, steps, prev, todo, session, reported, lost,
                    faults, crashes, meddled>>
    BY <1>8 DEF vars, machine, memory, bounds
  <2>2. \A s : Differs(kernel, s)' = Differs(kernel, s)
    BY <2>1, Quiet
  <2> USE <2>1 DEF IInv
  <2>3. TypeOK' /\ Progress'
    BY DEF TypeOK, Progress
  <2>4. Accounted' /\ PlanComplete'
    BY <2>2 DEF Accounted, PlanComplete, Pending
  <2>5. Memory' /\ CaptureOnlyOnGateway' /\ StatusNotBetter' /\ AddressKept'
    BY DEF Memory, InUse, Stuck, CaptureOnlyOnGateway, StatusNotBetter, AddressKept
  <2> QED BY <2>3, <2>4, <2>5
<1> QED BY <1>1, <1>2, <1>3, <1>4, <1>5, <1>6, <1>7, <1>8 DEF Next, Process, User

-----------------------------------------------------------------------------
(* The theorems. *)

\* The inductive invariant holds in every reachable state.
THEOREM SessionInvariant == Spec => []IInv
<1>1. Init => IInv
  BY InitInv
<1>2. IInv /\ [Next]_vars => IInv'
  BY NextInv
<1> QED BY <1>1, <1>2, PTL DEF Spec

\* The state of the machine, the journal and the process keeps its types.
THEOREM SessionTypes == Spec => []TypeOK
<1>1. IInv => TypeOK
  BY DEF IInv
<1> QED BY <1>1, SessionInvariant, PTL

\* Write-ahead: at every moment the process may die, each change it made is in the
\* journal or in the live ruleset, unless an undo failed, the record was wiped, or
\* it is an address that was there beforehand and an undo took away.
THEOREM EveryChangeAccounted == Spec => []Accounted
<1>1. IInv => Accounted
  BY DEF IInv
<1> QED BY <1>1, SessionInvariant, PTL

\* With no session and no clean-up under way the machine is as it was found, but
\* for what was lost.
THEOREM QuietMachineIsClean == Spec => []CleanWhenQuiet
<1>1. IInv => CleanWhenQuiet
  BY DEF IInv, PlanComplete, Pending, CleanWhenQuiet
<1> QED BY <1>1, SessionInvariant, PTL

\* The journal never holds another value for forwarding than the one the machine
\* had before the program first ran, unless restoring it has failed.
THEOREM ForwardingIsRemembered == Spec => []ForwardingRemembered
<1>1. IInv => ForwardingRemembered
  BY DEF IInv, Memory, Stuck, ForwardingRemembered
<1> QED BY <1>1, SessionInvariant, PTL

\* DNS is redirected only while the table, the address, forwarding and the access
\* point behind the redirect are in place.
THEOREM CaptureNeedsGateway == Spec => []CaptureOnlyOnGateway
<1>1. IInv => CaptureOnlyOnGateway
  BY DEF IInv
<1> QED BY <1>1, SessionInvariant, PTL

\* Status never shows DNS as captured when it is not, unless the session is
\* degraded or somebody else flushed the ruleset.
THEOREM StatusIsNeverBetter == Spec => []StatusNotBetter
<1>1. IInv => StatusNotBetter
  BY DEF IInv
<1> QED BY <1>1, SessionInvariant, PTL

CleaningUp == phase \in {"reconciling", "uncapturing", "closing"}

\* What a step may do to a clean-up: nothing, if it is the world's; go from the
\* redirect to the recorded steps; take one undo off the list; or, with none left,
\* end it, with the machine as it was found but for what was lost.  Only the end of
\* the process cuts it short.
CleanUpStep ==
    \/ (FlushRuleset \/ WipeRun) /\ UNCHANGED <<phase, todo>>
    \/ phase = "uncapturing" /\ phase' = "closing" /\ todo' = steps
    \/ phase' = phase /\ \E s \in todo : todo' = todo \ {s}
    \/ /\ phase # "uncapturing" /\ todo = {} /\ phase' \in {"idle", "starting"}
       /\ \A s \in Steps : Differs(kernel, s)' => s \in lost'
    \/ phase' = "dead"

\* Neither Reconcile's order nor the reverse order of bring-up leaves an undo that
\* must wait for another for ever.
SomeUndo ==
    todo # {} =>
        /\ phase = "reconciling" =>
              \E s \in todo : /\ s = "address" => todo = {"address"}
                              /\ s = "forwarding" => "table" \notin todo
        /\ phase = "closing" => \E s \in todo : \A t \in todo : Rank[t] <= Rank[s]

\* The safety half of CleanUpEnds: a clean-up, of a reconcile, a bring-up that failed
\* or a tear down, can always go on, takes each recorded step once whether its undo
\* works or not, and ends clean (linux_session.go, Reconcile and tearDown).
THEOREM CleanUpAdvances ==
    Spec => [](SomeUndo) /\ [][CleaningUp => CleanUpStep]_vars
<1>1. IInv => SomeUndo
  <2>. SUFFICES ASSUME IInv, todo # {} PROVE SomeUndo
    BY DEF SomeUndo
  <2>1. todo \subseteq Steps /\ (phase = "reconciling" => "hostapd" \notin todo)
    BY DEF IInv, TypeOK, Progress
  <2>2. ASSUME phase = "reconciling"
        PROVE  \E s \in todo : /\ s = "address" => todo = {"address"}
                               /\ s = "forwarding" => "table" \notin todo
    <3>1. CASE "table" \in todo
      BY <3>1
    <3>2. CASE "table" \notin todo /\ "forwarding" \in todo
      BY <3>2
    <3>3. CASE "table" \notin todo /\ "forwarding" \notin todo
      <4>1. todo = {"address"}
        BY <2>1, <2>2, <3>3 DEF Steps
      <4>. QED
        BY <4>1
    <3>. QED
      BY <3>1, <3>2, <3>3
  <2>3. \E s \in todo : \A t \in todo : Rank[t] <= Rank[s]
    <3>1. CASE "hostapd" \in todo
      BY <2>1, <3>1 DEF Rank, Steps
    <3>2. CASE "hostapd" \notin todo /\ "table" \in todo
      BY <2>1, <3>2 DEF Rank, Steps
    <3>3. CASE "hostapd" \notin todo /\ "table" \notin todo /\ "address" \in todo
      BY <2>1, <3>3 DEF Rank, Steps
    <3>4. CASE todo = {"forwarding"}
      BY <3>4 DEF Rank, Steps
    <3>. QED
      BY <2>1, <3>1, <3>2, <3>3, <3>4 DEF Steps
  <2>. QED
    BY <2>2, <2>3 DEF SomeUndo
<1>2. IInv /\ [Next]_vars => [CleaningUp => CleanUpStep]_vars
  <2>. SUFFICES ASSUME IInv, Next, CleaningUp PROVE CleanUpStep
    OBVIOUS
  <2>1. CASE ReconcileUndo \/ TearDownUndo
    BY <2>1 DEF ReconcileUndo, TearDownUndo, UndoStep, CleanUpStep
  <2>2. CASE TearDownBegin
    BY <2>2 DEF TearDownBegin, CleanUpStep
  <2>3. CASE ReconcileEnd \/ TearDownEnd
    <3>1. /\ todo = {} /\ phase \in {"reconciling", "closing"} /\ phase' \in {"idle", "starting"}
          /\ UNCHANGED <<kernel, found, lost>>
      BY <2>3 DEF ReconcileEnd, TearDownEnd, IInv, TypeOK
    <3>2. \A s \in Steps : Differs(kernel, s) => s \in lost
      BY <3>1 DEF IInv, PlanComplete, Pending
    <3>3. \A s \in Steps : Differs(kernel, s)' => s \in lost'
      BY <3>1, <3>2 DEF Differs
    <3>. QED
      BY <3>1, <3>3 DEF CleanUpStep
  <2>4. CASE StartRefused \/ Record \/ Perform \/ Up \/ User
    BY <2>4 DEF CleaningUp, StartRefused, Record, Perform, Up, User, Launch, StartGateway, Close,
                SetDNSCapture, Block
  <2>5. CASE Crash \/ Reboot
    BY <2>5 DEF Crash, Reboot, Forget, CleanUpStep
  <2>6. CASE FlushRuleset \/ WipeRun
    BY <2>6 DEF FlushRuleset, WipeRun, memory, CleanUpStep
  <2>. QED
    BY <2>1, <2>2, <2>3, <2>4, <2>5, <2>6 DEF Next, Process
<1>. QED
  BY <1>1, <1>2, SessionInvariant, PTL DEF Spec

=============================================================================
