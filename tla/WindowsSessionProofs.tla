------------------------ MODULE WindowsSessionProofs ------------------------
(***************************************************************************)
(* Proofs about the Windows gateway's bring-up, tear down and recovery:    *)
(* for any interfaces and settings, any number of failing commands,        *)
(* process deaths and reboots, and any moves of the default route.         *)
(*                                                                         *)
(* What has to be shown is that the file is always enough, over sessions   *)
(* on different interfaces, clean-ups that fail, and journals that cannot  *)
(* be removed or are replaced.                                             *)
(*                                                                         *)
(* At the end, what is decided before a gateway changes anything, for any  *)
(* machine, any list of interfaces and any subnet: the range that is       *)
(* handed out, the interfaces that are chosen, and what the capabilities   *)
(* promise of a Start.                                                     *)
(***************************************************************************)
EXTENDS WindowsSession, FiniteSetTheorems, TLAPS

-----------------------------------------------------------------------------
(* The inductive invariant. *)

Machine == [forwarding : [Names -> {"Enabled", "Disabled"}], address : SUBSET Names,
            nat : {None, "ours", "other"}, tethering : BOOLEAN]

Memo == [iface : Names \cup {None}, prev : {"Enabled", "Disabled"}]

\* At most one configuration is made way for, and one is brought up.
One(S) == \A c, d \in S : c = d

OneAtATime == One(goal) /\ One(cfg)

\* A session is under way, or what is left of one is being undone.
InSession == phase \in {"starting", "running", "failing", "closing"}

\* What the process knows agrees with the file: a reconcile has what it read, a
\* session that has taken a step has written what it knows.
Synced ==
    /\ phase \in {"dead", "idle"} => todo = {} /\ data = NoData
    /\ phase = "reconciling" => data = journal.data /\ todo \subseteq journal.steps
    /\ phase = "starting" => One(todo)
    /\ phase = "running" => todo = {} /\ steps = Wanted
    /\ ~InSession => steps = {}
    /\ InSession =>
          /\ todo \subseteq steps /\ steps \subseteq Wanted
          /\ steps # {} => /\ journal = [steps |-> steps, data |-> data]
                           /\ Platform => \E c \in cfg : c.hotspot # {}
          /\ Platform => data = NoData
          /\ ~Platform /\ data.iface = None => steps = {} /\ data = NoData

\* The steps that may have changed the machine without being undone yet.
Pending ==
    IF phase \in {"reconciling", "failing", "closing"} THEN todo
    ELSE IF phase \in {"starting", "running"} THEN steps \ todo
    ELSE Steps

Settled == \A s \in Steps \ (Pending \cup lost) : ~Differs(machine, s)

\* A record of the forwarding of an interface says how it was found, or how a
\* clean-up that failed left it.
Remembers(d) ==
    d.iface # None =>
        /\ d.prev = "Disabled" => found[d.iface] = "Disabled"
        /\ d.prev = "Enabled" => machine.forwarding[d.iface] = "Enabled"

\* Forwarding is never switched off where it was on.
Forwarding ==
    /\ \A n \in Names : found[n] = "Enabled" => machine.forwarding[n] = "Enabled"
    /\ Remembers(data) /\ Remembers(journal.data)

\* Recoverable, part by part.
Restorable ==
    /\ machine.tethering => "tethering" \in journal.steps \cup lost
    /\ machine.nat = "ours" => "nat" \in journal.steps \cup lost
    /\ \/ "address" \in lost
       \/ \A n \in machine.address : "address" \in journal.steps /\ n = journal.data.iface
    /\ \/ "forwarding" \in lost
       \/ \A n \in Names : IF "forwarding" \in journal.steps /\ n = journal.data.iface
                           THEN journal.data.prev = found[n]
                           ELSE machine.forwarding[n] = found[n]

\* A step that was performed is in force while the session lasts.
InForce(s) ==
    /\ s = "tethering" => machine.tethering
    /\ s = "address" => data.iface \in machine.address
    /\ s = "forwarding" => machine.forwarding[data.iface] = "Enabled"
    /\ s = "nat" => machine.nat = "ours"

Performed == phase \in {"starting", "running"} => \A s \in steps \ todo : InForce(s)

\* What the capabilities promised still holds.
Promised(c) ==
    /\ c.sharing = "platform" => elevated /\ outside.route # None
    /\ c.sharing = "managed" => elevated /\ machine.nat # "other" /\ "nat" \notin lost

Promise ==
    ~spoiled =>
        /\ phase = "reconciling" => \A c \in goal : Promised(c)
        /\ phase = "starting" => \A c \in cfg : Promised(c)

Inv ==
    /\ TypeOK /\ OneAtATime /\ Synced /\ Settled /\ Forwarding /\ Restorable
    /\ Performed /\ Promise /\ RefusedUpFront

-----------------------------------------------------------------------------
(* The operators. *)

\* No interface has the empty name.
LEMMA NoneIsNoName == None \notin Names
<1>1. \A i \in DOMAIN Ifaces : Ifaces[i] \in STRING \ {None}
  BY IfacesAssumption
<1> QED
  BY <1>1 DEF Names

\* What the machine is after a step, part by part.
LEMMA AppliedParts ==
    ASSUME TypeOK, NEW s \in Steps
    PROVE  /\ Applied(s) \in Machine \/ (s = "address" /\ data.iface = None)
           /\ Applied(s).tethering = IF s = "tethering" THEN TRUE ELSE machine.tethering
           /\ Applied(s).address = IF s = "address" THEN machine.address \cup {data.iface}
                                   ELSE machine.address
           /\ Applied(s).forwarding = IF s = "forwarding"
                                      THEN [machine.forwarding EXCEPT ![data.iface] = "Enabled"]
                                      ELSE machine.forwarding
           /\ Applied(s).nat = IF s = "nat" THEN "ours" ELSE machine.nat
<1>1. CASE s = "tethering"
  BY <1>1 DEF TypeOK, Applied, Machine
<1>2. CASE s = "address"
  BY <1>2 DEF TypeOK, Applied, Machine
<1>3. CASE s = "forwarding"
  BY <1>3 DEF TypeOK, Applied, Machine
<1>4. CASE s = "nat"
  BY <1>4 DEF TypeOK, Applied, Machine
<1> QED
  BY <1>1, <1>2, <1>3, <1>4 DEF Steps

\* And after an undo.
LEMMA UndoneParts ==
    ASSUME TypeOK, NEW s \in Steps
    PROVE  /\ Undone(s) \in Machine
           /\ Undone(s).tethering = IF s = "tethering" THEN FALSE ELSE machine.tethering
           /\ Undone(s).address = IF s = "address" THEN machine.address \ {data.iface}
                                  ELSE machine.address
           /\ Undone(s).forwarding = IF s = "forwarding"
                                     THEN [machine.forwarding EXCEPT ![data.iface] = data.prev]
                                     ELSE machine.forwarding
           /\ Undone(s).nat = IF s = "nat" /\ machine.nat = "ours" THEN None ELSE machine.nat
<1>1. CASE s = "tethering"
  BY <1>1 DEF TypeOK, Undone, Machine
<1>2. CASE s = "address"
  BY <1>2 DEF TypeOK, Undone, Machine
<1>3. CASE s = "forwarding"
  BY <1>3 DEF TypeOK, Undone, Machine
<1>4. CASE s = "nat"
  BY <1>4 DEF TypeOK, Undone, Machine
<1> QED
  BY <1>1, <1>2, <1>3, <1>4 DEF Steps

\* The uplink is one of the interfaces.
LEMMA UplinkIsListed ==
    ASSUME NEW p, NEW i \in SelectUplink(Interfaces, p)
    PROVE  i \in DOMAIN Ifaces /\ Ifaces[i] \in Names
<1>1. DOMAIN Interfaces = DOMAIN Ifaces
  BY DEF Interfaces
<1>2. i \in DOMAIN Ifaces
  BY <1>1 DEF SelectUplink, Earliest
<1> QED
  BY <1>2 DEF Names

\* A configuration asks for one of the models.
LEMMA ConfigModels == \A c \in Configs : c.sharing \in Models
BY DEF Configs, GatewayConfig

\* Windows meets what the platform's and managed sharing need only for an
\* administrator, with a hotspot to start or without another's translation.
LEMMA CapabilitiesPromise ==
    ASSUME TypeOK, NEW c \in Configs, Satisfied(WindowsCapabilities(Probed).have, c)
    PROVE  /\ c.sharing = "platform" => elevated /\ outside.route # None
           /\ c.sharing = "managed" => elevated /\ machine.nat # "other"
<1> DEFINE have == WindowsCapabilities(Probed).have
<1>1. Required(c) \subseteq have
  BY DEF Satisfied, Missing
<1>2. ~elevated => have = {}
  BY DEF WindowsCapabilities, Probed
<1>3. "access-point" \in have => outside.route # None
  BY DEF WindowsCapabilities, Probed
<1>4. "share-uplink" \in have => machine.nat # "other"
  BY DEF WindowsCapabilities, Probed
<1> HIDE DEF have
<1>5. c.sharing = "platform" => "access-point" \in have
  BY <1>1 DEF Required
<1>6. c.sharing = "managed" => "share-uplink" \in have
  BY <1>1 DEF Required
<1> QED
  BY <1>2, <1>3, <1>4, <1>5, <1>6

\* What the type invariant needs to know of the bounds and of small sets.
LEMMA Sizes ==
    /\ MaxFaults \in Nat /\ MaxCrashes \in Nat /\ MaxChanges \in Nat
    /\ Cardinality({}) <= 1
<1>1. Cardinality({}) = 0
  BY FS_EmptySet, Zenon
<1> QED
  BY <1>1, BoundsAssumption

\* Where the machine differs from how it was found, part by part.
LEMMA DiffersParts ==
    ASSUME NEW m \in Machine
    PROVE  /\ Differs(m, "tethering") <=> m.tethering = TRUE
           /\ Differs(m, "address") <=> m.address # {}
           /\ Differs(m, "forwarding") <=> m.forwarding # found
           /\ Differs(m, "nat") <=> m.nat = "ours"
BY DEF Differs, Machine

\* Nothing is different that is neither recorded nor lost.
LEMMA Unrecorded ==
    ASSUME TypeOK, Restorable, NEW t \in Steps \ (journal.steps \cup lost)
    PROVE  ~Differs(machine, t)
<1>types. machine \in Machine /\ found \in [Names -> {"Enabled", "Disabled"}]
  BY DEF TypeOK, Machine
<1>1. CASE t = "forwarding"
  <2>1. \A n \in Names : machine.forwarding[n] = found[n]
    BY <1>1 DEF Restorable
  <2>2. machine.forwarding = found
    BY <2>1, <1>types DEF Machine
  <2>. QED
    BY <1>1, <1>types, <2>2, DiffersParts
<1>2. CASE t = "tethering"
  BY <1>types, <1>2, DiffersParts DEF Restorable
<1>3. CASE t = "address"
  BY <1>types, <1>3, DiffersParts DEF Restorable
<1>4. CASE t = "nat"
  BY <1>types, <1>4, DiffersParts DEF Restorable
<1>. QED
  BY <1>1, <1>2, <1>3, <1>4 DEF Steps

\* What an undo was refused or failed to put back is lost; the rest is as found.
LEMMA UndoSettles ==
    ASSUME Inv, Undoing, NEW s \in todo, UndoStep(s)
    PROVE  /\ s \in Steps /\ data = journal.data /\ todo \subseteq journal.steps
           /\ machine' \in Machine /\ machine' \in {machine, Undone(s)}
           /\ \A t \in Steps \ {s} : Differs(machine', t) <=> Differs(machine, t)
           /\ \A t \in (lost \cup {s}) \ lost' : ~Differs(machine', t)
           /\ lost' \subseteq lost \cup {s}
<1>types. /\ TypeOK /\ machine \in Machine /\ todo \subseteq Steps /\ Restorable
          /\ found \in [Names -> {"Enabled", "Disabled"}] /\ None \notin Names
          /\ journal \in [steps : SUBSET Steps, data : Memo] /\ data \in Memo
  BY NoneIsNoName DEF Inv, TypeOK, Machine, Memo
<1>1. s \in Steps /\ data = journal.data /\ todo \subseteq journal.steps
  BY <1>types DEF Inv, Synced, InSession, Undoing
<1>2. /\ Undone(s) \in Machine
      /\ Undone(s).tethering = IF s = "tethering" THEN FALSE ELSE machine.tethering
      /\ Undone(s).address = IF s = "address" THEN machine.address \ {data.iface}
                             ELSE machine.address
      /\ Undone(s).forwarding = IF s = "forwarding"
                                THEN [machine.forwarding EXCEPT ![data.iface] = data.prev]
                                ELSE machine.forwarding
      /\ Undone(s).nat = IF s = "nat" /\ machine.nat = "ours" THEN None ELSE machine.nat
  BY <1>1, <1>types, UndoneParts
<1>3. machine' \in Machine /\ machine' \in {machine, Undone(s)}
  BY <1>types, <1>2 DEF UndoStep
<1>4. \A t \in Steps \ {s} : Differs(machine', t) <=> Differs(machine, t)
  <2>1. \A t \in Steps \ {s} : Differs(Undone(s), t) <=> Differs(machine, t)
    <3>1. /\ Differs(machine, "tethering") <=> machine.tethering = TRUE
          /\ Differs(machine, "address") <=> machine.address # {}
          /\ Differs(machine, "forwarding") <=> machine.forwarding # found
          /\ Differs(machine, "nat") <=> machine.nat = "ours"
      BY <1>types, DiffersParts
    <3>2. /\ Differs(Undone(s), "tethering") <=> Undone(s).tethering = TRUE
          /\ Differs(Undone(s), "address") <=> Undone(s).address # {}
          /\ Differs(Undone(s), "forwarding") <=> Undone(s).forwarding # found
          /\ Differs(Undone(s), "nat") <=> Undone(s).nat = "ours"
      BY <1>2, DiffersParts
    <3>. QED
      BY <1>2, <3>1, <3>2 DEF Steps
  <2>. QED
    BY <1>3, <2>1
<1>5. s \notin lost => ~Differs(Undone(s), s)
  <2>1. CASE s = "forwarding"
    <3>1. s \notin lost => \A n \in Names : Undone(s).forwarding[n] = found[n]
      BY <1>1, <1>2, <1>types, <2>1 DEF Restorable, Machine, Memo
    <3>2. s \notin lost => Undone(s).forwarding = found
      BY <1>2, <1>types, <3>1 DEF Machine
    <3>. QED
      BY <1>2, <2>1, <3>2, DiffersParts
  <2>2. CASE s = "address"
    <3>1. s \notin lost => Undone(s).address = {}
      BY <1>1, <1>2, <1>types, <2>2 DEF Restorable, Machine
    <3>. QED
      BY <1>2, <2>2, <3>1, DiffersParts
  <2>3. CASE s = "tethering"
    BY <1>2, <2>3, DiffersParts
  <2>4. CASE s = "nat"
    BY <1>2, <2>4, DiffersParts DEF None
  <2>. QED
    BY <1>1, <2>1, <2>2, <2>3, <2>4 DEF Steps
<1>6. \/ machine' = Undone(s) /\ lost' = {t \in lost : Differs(machine', t)}
      \/ lost' = {t \in lost \cup {s} : Differs(machine', t)}
  BY DEF UndoStep, Lose
<1>. QED
  BY <1>1, <1>3, <1>4, <1>5, <1>6

-----------------------------------------------------------------------------
(* The steps. *)

\* The types and the parts of the invariant, side by side.
LEMMA Known ==
    ASSUME Inv
    PROVE  /\ found \in [Names -> {"Enabled", "Disabled"}]
           /\ machine \in Machine
           /\ outside \in [answer : Answers, up : SUBSET Names, route : Names \cup {None}]
           /\ journal \in [steps : SUBSET Steps, data : Memo] /\ data \in Memo
           /\ phase \in Phases /\ elevated \in BOOLEAN /\ spoiled \in BOOLEAN
           /\ goal \subseteq Configs /\ cfg \subseteq Configs
           /\ steps \subseteq Steps /\ todo \subseteq Steps /\ lost \subseteq Steps
           /\ None \notin Names
           /\ TypeOK /\ OneAtATime /\ Synced /\ Settled /\ Forwarding /\ Restorable
           /\ Performed /\ Promise /\ RefusedUpFront
BY NoneIsNoName DEF Inv, TypeOK, Machine, Memo

\* A launch takes over what the file says, whatever the process before it left.
LEMMA LaunchInv == ASSUME Inv, Launch PROVE Inv'
<1>1. TypeOK'
  <2>1. /\ found' \in [Names -> {"Enabled", "Disabled"}]
        /\ outside' \in [answer : Answers, up : SUBSET Names, route : Names \cup {None}]
    BY Known DEF Launch, ReconcileBegin
  <2>2. machine' \in Machine
    BY Known DEF Launch, ReconcileBegin, Machine
  <2>3. journal' \in [steps : SUBSET Steps, data : Memo] /\ data' \in Memo
    BY Known DEF Launch, ReconcileBegin, Memo, Steps
  <2>4. phase' \in Phases /\ elevated' \in BOOLEAN /\ spoiled' \in BOOLEAN
    BY Known DEF Launch, ReconcileBegin, Phases
  <2>5. steps' \subseteq Steps /\ todo' \subseteq Steps /\ lost' \subseteq Steps
    BY Known DEF Launch, ReconcileBegin, Steps
  <2>6. /\ goal' \subseteq Configs /\ Cardinality(goal') <= 1
        /\ cfg' \subseteq Configs /\ Cardinality(cfg') <= 1
    BY Known, Sizes DEF Launch, ReconcileBegin, TypeOK
  <2>7. faults' \in 0..MaxFaults /\ crashes' \in 0..MaxCrashes /\ changes' \in 0..MaxChanges
    BY Known, Sizes DEF Launch, ReconcileBegin, TypeOK
  <2>. QED
    BY <2>1, <2>2, <2>3, <2>4, <2>5, <2>6, <2>7 DEF TypeOK, Machine, Memo
<1>2. OneAtATime'
  BY Known DEF OneAtATime, One, Launch, ReconcileBegin
<1>3. Synced'
  BY Known DEF Synced, InSession, Launch, ReconcileBegin
<1>4. Settled'
  <2>1. Pending' = todo' /\ UNCHANGED <<found, machine>>
    BY DEF Pending, Launch, ReconcileBegin
  <2>2. \A t \in Steps \ (journal.steps \cup lost) : ~Differs(machine, t)
    BY Known, Unrecorded
  <2>3. lost \subseteq lost' /\ \A t \in journal.steps \ (todo' \cup lost') : ~Differs(machine, t)
    BY Known DEF Launch, ReconcileBegin
  <2>. QED
    BY Known, <2>1, <2>2, <2>3 DEF Settled, Differs
<1>5. Forwarding'
  BY Known DEF Forwarding, Remembers, Launch, ReconcileBegin
<1>6. Restorable'
  BY Known DEF Restorable, Launch, ReconcileBegin
<1>7. Performed'
  BY Known DEF Performed, Launch, ReconcileBegin
<1>8. Promise'
  BY Known DEF Promise, Launch, ReconcileBegin
<1>9. RefusedUpFront'
  BY Known DEF RefusedUpFront, Launch, ReconcileBegin
<1>. QED
  BY <1>1, <1>2, <1>3, <1>4, <1>5, <1>6, <1>7, <1>8, <1>9 DEF Inv

\* A configuration that is accepted is one the capabilities promised.
LEMMA StartGatewayInv ==
  ASSUME Inv, NEW s \in Settings, StartGateway(s)
  PROVE  Inv'
<1>1. TypeOK'
  <2>1. /\ found' \in [Names -> {"Enabled", "Disabled"}]
        /\ outside' \in [answer : Answers, up : SUBSET Names, route : Names \cup {None}]
    BY Known DEF StartGateway, ReconcileBegin
  <2>2. machine' \in Machine
    BY Known DEF StartGateway, ReconcileBegin, Machine
  <2>3. journal' \in [steps : SUBSET Steps, data : Memo] /\ data' \in Memo
    BY Known DEF StartGateway, ReconcileBegin, Memo, Steps
  <2>4. phase' \in Phases /\ elevated' \in BOOLEAN /\ spoiled' \in BOOLEAN
    BY Known DEF StartGateway, ReconcileBegin, Phases
  <2>5. steps' \subseteq Steps /\ todo' \subseteq Steps /\ lost' \subseteq Steps
    BY Known DEF StartGateway, ReconcileBegin, Steps
  <2>6. /\ goal' \subseteq Configs /\ Cardinality(goal') <= 1
        /\ cfg' \subseteq Configs /\ Cardinality(cfg') <= 1
    <3>1. PICK c \in GatewayConfig(s, Port) : goal' = {c}
      BY DEF StartGateway
    <3>2. c \in Configs
      BY DEF Configs
    <3>3. Cardinality({c}) = 1
      BY FS_Singleton, Zenon
    <3>4. UNCHANGED cfg
      BY DEF StartGateway, ReconcileBegin
    <3>. QED
      BY Known, <3>1, <3>2, <3>3, <3>4 DEF TypeOK
  <2>7. faults' \in 0..MaxFaults /\ crashes' \in 0..MaxCrashes /\ changes' \in 0..MaxChanges
    BY Known, Sizes DEF StartGateway, ReconcileBegin, TypeOK
  <2>. QED
    BY <2>1, <2>2, <2>3, <2>4, <2>5, <2>6, <2>7 DEF TypeOK, Machine, Memo
<1>2. OneAtATime'
  BY Known DEF OneAtATime, One, StartGateway, ReconcileBegin
<1>3. Synced'
  BY Known DEF Synced, InSession, StartGateway, ReconcileBegin
<1>4. Settled'
  <2>1. Pending' = todo' /\ UNCHANGED <<found, machine>>
    BY DEF Pending, StartGateway, ReconcileBegin
  <2>2. \A t \in Steps \ (journal.steps \cup lost) : ~Differs(machine, t)
    BY Known, Unrecorded
  <2>3. lost \subseteq lost' /\ \A t \in journal.steps \ (todo' \cup lost') : ~Differs(machine, t)
    BY Known DEF StartGateway, ReconcileBegin
  <2>. QED
    BY Known, <2>1, <2>2, <2>3 DEF Settled, Differs
<1>5. Forwarding'
  BY Known DEF Forwarding, Remembers, StartGateway, ReconcileBegin
<1>6. Restorable'
  BY Known DEF Restorable, StartGateway, ReconcileBegin
<1>7. Performed'
  BY Known DEF Performed, StartGateway, ReconcileBegin
<1>8. Promise'
  BY Known, CapabilitiesPromise
  DEF Promise, Promised, Configs, StartGateway, ReconcileBegin
<1>9. RefusedUpFront'
  BY Known DEF RefusedUpFront, StartGateway, ReconcileBegin
<1>. QED
  BY <1>1, <1>2, <1>3, <1>4, <1>5, <1>6, <1>7, <1>8, <1>9 DEF Inv

\* An undo takes a step off the list, and the machine back, or it is lost.
LEMMA UndoStepInv ==
  ASSUME Inv, Undoing, NEW s \in todo, UndoStep(s)
  PROVE  Inv'
<1>undo. /\ s \in Steps /\ data = journal.data /\ todo \subseteq journal.steps
         /\ machine' \in Machine /\ machine' \in {machine, Undone(s)}
         /\ \A t \in Steps \ {s} : Differs(machine', t) <=> Differs(machine, t)
         /\ \A t \in (lost \cup {s}) \ lost' : ~Differs(machine', t)
         /\ lost' \subseteq lost \cup {s}
  BY UndoSettles, Zenon
<1>undone. /\ Undone(s).tethering = IF s = "tethering" THEN FALSE ELSE machine.tethering
           /\ Undone(s).address = IF s = "address" THEN machine.address \ {data.iface}
                                  ELSE machine.address
           /\ Undone(s).forwarding = IF s = "forwarding"
                                     THEN [machine.forwarding EXCEPT ![data.iface] = data.prev]
                                     ELSE machine.forwarding
           /\ Undone(s).nat = IF s = "nat" /\ machine.nat = "ours" THEN None ELSE machine.nat
  BY <1>undo, Known, UndoneParts
<1>differs. /\ Differs(machine', "tethering") <=> machine'.tethering = TRUE
            /\ Differs(machine', "address") <=> machine'.address # {}
            /\ Differs(machine', "forwarding") <=> machine'.forwarding # found
            /\ Differs(machine', "nat") <=> machine'.nat = "ours"
  BY <1>undo, DiffersParts
<1>1. TypeOK'
  <2>1. /\ found' \in [Names -> {"Enabled", "Disabled"}]
        /\ outside' \in [answer : Answers, up : SUBSET Names, route : Names \cup {None}]
    BY <1>undo, Known DEF UndoStep
  <2>2. machine' \in Machine
    BY <1>undo, Known DEF UndoStep, Machine
  <2>3. journal' \in [steps : SUBSET Steps, data : Memo] /\ data' \in Memo
    BY <1>undo, Known DEF UndoStep, Memo, Steps
  <2>4. phase' \in Phases /\ elevated' \in BOOLEAN /\ spoiled' \in BOOLEAN
    BY <1>undo, Known DEF Undoing, UndoStep, NoFault, Fault, Lose, bounds, Phases
  <2>5. steps' \subseteq Steps /\ todo' \subseteq Steps /\ lost' \subseteq Steps
    BY <1>undo, Known DEF UndoStep, Steps
  <2>6. /\ goal' \subseteq Configs /\ Cardinality(goal') <= 1
        /\ cfg' \subseteq Configs /\ Cardinality(cfg') <= 1
    BY <1>undo, Known, Sizes DEF UndoStep, TypeOK
  <2>7. faults' \in 0..MaxFaults /\ crashes' \in 0..MaxCrashes /\ changes' \in 0..MaxChanges
    BY <1>undo, Known, Sizes DEF UndoStep, NoFault, Fault, TypeOK
  <2>. QED
    BY <2>1, <2>2, <2>3, <2>4, <2>5, <2>6, <2>7 DEF TypeOK, Machine, Memo
<1>2. OneAtATime'
  BY Known, <1>undo DEF OneAtATime, One, UndoStep
<1>3. Synced'
  BY Known, <1>undo
  DEF Synced, InSession, Wanted, Platform, NoData, Undoing, One, UndoStep, NoFault,
      Fault, Lose, bounds, Steps, Phases, Machine, Memo
<1>4. Settled'
  <2>1. Pending = todo /\ Pending' = todo \ {s}
    BY DEF Undoing, UndoStep, Pending
  <2>2. UNCHANGED found
    BY DEF UndoStep
  <2>. QED
    BY Known, <1>undo, <2>1, <2>2 DEF Settled, Differs
<1>5. Forwarding'
  <2>1. UNCHANGED <<found, journal, data>>
    BY DEF UndoStep
  <2>2. ASSUME NEW n \in Names
        PROVE  machine'.forwarding[n] =
                   IF machine' # machine /\ s = "forwarding" /\ n = data.iface THEN data.prev
                   ELSE machine.forwarding[n]
    BY Known, <1>undo, <1>undone DEF Machine
  <2>. QED
    BY Known, <1>undo, <2>1, <2>2 DEF Forwarding, Remembers, Memo
<1>6. Restorable'
  <2>1. UNCHANGED <<found, journal>>
    BY DEF UndoStep
  <2>2. \A t \in Steps \ lost' : t \in lost \cup {s} => ~Differs(machine', t)
    BY <1>undo
  <2>3. machine'.tethering => "tethering" \in journal.steps \cup lost'
    BY Known, <1>undo, <1>undone, <1>differs, <2>2 DEF Restorable, Steps
  <2>4. machine'.nat = "ours" => "nat" \in journal.steps \cup lost'
    BY Known, <1>undo, <1>undone, <1>differs, <2>2 DEF Restorable, Steps
  <2>5. \/ "address" \in lost'
        \/ \A n \in machine'.address : "address" \in journal.steps /\ n = journal.data.iface
    BY Known, <1>undo, <1>undone, <1>differs, <2>2 DEF Restorable, Steps
  <2>6. ASSUME "forwarding" \notin lost', NEW n \in Names
        PROVE  IF "forwarding" \in journal.steps /\ n = journal.data.iface
               THEN journal.data.prev = found[n]
               ELSE machine'.forwarding[n] = found[n]
    <3>1. CASE "forwarding" \in lost \cup {s}
      <4>1. machine'.forwarding = found
        BY <1>differs, <2>2, <2>6, <3>1 DEF Steps
      <4>. QED
        BY Known, <4>1, <2>1, <1>5 DEF Forwarding, Remembers, Memo
    <3>2. CASE "forwarding" \notin lost \cup {s}
      BY Known, <1>undo, <1>undone, <3>2 DEF Restorable
    <3>. QED
      BY <3>1, <3>2
  <2>. QED
    BY <2>1, <2>3, <2>4, <2>5, <2>6 DEF Restorable
<1>7. Performed'
  BY Known, <1>undo DEF Performed, Undoing, UndoStep
<1>8. Promise'
  <2>. SUFFICES ASSUME ~spoiled', phase = "reconciling", NEW c \in goal
                PROVE  Promised(c)'
    BY DEF UndoStep, Undoing, Promise
  <2>1. Promised(c) /\ ~spoiled
    BY Known DEF Promise, UndoStep, NoFault, Fault
  <2>2. c.sharing = "managed" => ~(s = "nat" /\ Refused(s))
    BY <2>1 DEF Promised, Refused
  <2>3. UNCHANGED <<elevated, outside>> /\ ~Fault
    BY DEF UndoStep, Fault
  <2>4. c.sharing = "managed" => "nat" \notin lost'
    BY <2>1, <2>2, <2>3 DEF UndoStep, Lose, Promised
  <2>5. c.sharing = "managed" => machine'.nat # "other"
    BY <1>undo, <1>undone, <2>1 DEF Promised, None
  <2>. QED
    BY <2>1, <2>3, <2>4, <2>5 DEF Promised
<1>9. RefusedUpFront'
  BY Known, <1>undo DEF RefusedUpFront, UndoStep, NoFault, Fault
<1>. QED
  BY <1>1, <1>2, <1>3, <1>4, <1>5, <1>6, <1>7, <1>8, <1>9 DEF Inv

\* The journal goes when nothing recorded is pending any more.
LEMMA ReconcileEndInv == ASSUME Inv, ReconcileEnd PROVE Inv'
<1>1. TypeOK'
  <2>1. /\ found' \in [Names -> {"Enabled", "Disabled"}]
        /\ outside' \in [answer : Answers, up : SUBSET Names, route : Names \cup {None}]
    BY Known DEF ReconcileEnd
  <2>2. machine' \in Machine
    BY Known DEF ReconcileEnd, Machine
  <2>3. journal' \in [steps : SUBSET Steps, data : Memo] /\ data' \in Memo
    BY Known DEF ReconcileEnd, JournalCleared, NoData, Memo, Steps
  <2>4. phase' \in Phases /\ elevated' \in BOOLEAN /\ spoiled' \in BOOLEAN
    BY Known DEF ReconcileEnd, JournalCleared, NoFault, Fault, NoData, Phases
  <2>5. steps' \subseteq Steps /\ todo' \subseteq Steps /\ lost' \subseteq Steps
    BY Known DEF ReconcileEnd, Steps
  <2>6. /\ goal' \subseteq Configs /\ Cardinality(goal') <= 1
        /\ cfg' \subseteq Configs /\ Cardinality(cfg') <= 1
    BY Known, Sizes DEF ReconcileEnd, TypeOK
  <2>7. faults' \in 0..MaxFaults /\ crashes' \in 0..MaxCrashes /\ changes' \in 0..MaxChanges
    BY Known, Sizes DEF ReconcileEnd, JournalCleared, NoFault, Fault, TypeOK
  <2>. QED
    BY <2>1, <2>2, <2>3, <2>4, <2>5, <2>6, <2>7 DEF TypeOK, Machine, Memo
<1>2. OneAtATime'
  BY Known DEF OneAtATime, One, ReconcileEnd
<1>3. Synced'
  BY Known DEF Synced, InSession, One, ReconcileEnd
<1>4. Settled'
  BY Known
  DEF Settled, Pending, Differs, ReconcileEnd, JournalCleared, NoFault, Fault, NoData,
      Steps, Phases, Machine, Memo
<1>5. Forwarding'
  BY Known DEF Forwarding, Remembers, ReconcileEnd, JournalCleared, NoData
<1>6. Restorable'
  <2>1. \A t \in Steps \ lost : ~Differs(machine, t)
    BY Known DEF ReconcileEnd, Settled, Pending
  <2>2. UNCHANGED <<found, machine, lost>>
    BY DEF ReconcileEnd
  <2>3. CASE UNCHANGED journal
    BY Known, <2>2, <2>3 DEF Restorable
  <2>4. CASE journal' = [steps |-> {}, data |-> NoData]
    BY Known, <2>1, <2>2, <2>4, DiffersParts DEF Restorable, Steps
  <2>. QED
    BY <2>3, <2>4 DEF ReconcileEnd, JournalCleared
<1>7. Performed'
  BY Known DEF Performed, Synced, InSession, ReconcileEnd
<1>8. Promise'
  BY Known DEF Promise, Promised, ReconcileEnd, JournalCleared, NoFault, Fault
<1>9. RefusedUpFront'
  BY Known DEF RefusedUpFront, ReconcileEnd
<1>. QED
  BY <1>1, <1>2, <1>3, <1>4, <1>5, <1>6, <1>7, <1>8, <1>9 DEF Inv

\* A bring-up that ends before its first step has recorded nothing.
LEMMA NoHotspotInv == ASSUME Inv, NoHotspot PROVE Inv'
<1>1. TypeOK'
  <2>1. /\ found' \in [Names -> {"Enabled", "Disabled"}]
        /\ outside' \in [answer : Answers, up : SUBSET Names, route : Names \cup {None}]
    BY Known DEF NoHotspot, bounds, Platform
  <2>2. machine' \in Machine
    BY Known DEF NoHotspot, Machine
  <2>3. journal' \in [steps : SUBSET Steps, data : Memo] /\ data' \in Memo
    BY Known DEF NoHotspot, Memo, Steps
  <2>4. phase' \in Phases /\ elevated' \in BOOLEAN /\ spoiled' \in BOOLEAN
    BY Known DEF NoHotspot, Phases
  <2>5. steps' \subseteq Steps /\ todo' \subseteq Steps /\ lost' \subseteq Steps
    BY Known DEF NoHotspot, Steps
  <2>6. /\ goal' \subseteq Configs /\ Cardinality(goal') <= 1
        /\ cfg' \subseteq Configs /\ Cardinality(cfg') <= 1
    BY Known, Sizes DEF NoHotspot, TypeOK
  <2>7. faults' \in 0..MaxFaults /\ crashes' \in 0..MaxCrashes /\ changes' \in 0..MaxChanges
    BY Known, Sizes DEF NoHotspot, bounds, TypeOK
  <2>. QED
    BY <2>1, <2>2, <2>3, <2>4, <2>5, <2>6, <2>7 DEF TypeOK, Machine, Memo
<1>2. OneAtATime'
  BY Known DEF OneAtATime, One, NoHotspot
<1>3. Synced'
  BY Known DEF Synced, InSession, NoHotspot
<1>4. Settled'
  BY Known DEF Settled, Pending, NoHotspot
<1>5. Forwarding'
  BY Known DEF Forwarding, Remembers, NoHotspot
<1>6. Restorable'
  BY Known DEF Restorable, NoHotspot
<1>7. Performed'
  BY Known DEF Performed, NoHotspot
<1>8. Promise'
  BY Known DEF Promise, NoHotspot
<1>9. RefusedUpFront'
  BY Known DEF RefusedUpFront, NoHotspot
<1>. QED
  BY <1>1, <1>2, <1>3, <1>4, <1>5, <1>6, <1>7, <1>8, <1>9 DEF Inv

\* The interface and its forwarding are read before anything is changed.
LEMMA ChooseServedInv == ASSUME Inv, ChooseServed PROVE Inv'
<1>1. TypeOK'
  <2>1. /\ found' \in [Names -> {"Enabled", "Disabled"}]
        /\ outside' \in [answer : Answers, up : SUBSET Names, route : Names \cup {None}]
    BY Known, UplinkIsListed DEF ChooseServed
  <2>2. machine' \in Machine
    BY Known, UplinkIsListed DEF ChooseServed, Machine
  <2>3. journal' \in [steps : SUBSET Steps, data : Memo] /\ data' \in Memo
    <3>1. UNCHANGED journal
      BY DEF ChooseServed
    <3>2. CASE UNCHANGED data
      BY Known, <3>1, <3>2
    <3>3. ASSUME NEW c \in cfg, NEW i \in SelectUplink(Interfaces, c.uplink),
                 data' = [iface |-> Ifaces[i], prev |-> ForwardingState(Ifaces[i])]
          PROVE  data' \in Memo
      <4>1. Ifaces[i] \in Names
        BY UplinkIsListed
      <4>. QED
        BY Known, <3>3, <4>1 DEF ForwardingState, Memo, Machine
    <3>. QED
      BY Known, <3>1, <3>2, <3>3 DEF ChooseServed
  <2>4. phase' \in Phases /\ elevated' \in BOOLEAN /\ spoiled' \in BOOLEAN
    BY Known, UplinkIsListed
    DEF ChooseServed, NoFault, Fault, Platform, ForwardingState, Phases
  <2>5. steps' \subseteq Steps /\ todo' \subseteq Steps /\ lost' \subseteq Steps
    BY Known, UplinkIsListed DEF ChooseServed, Steps
  <2>6. /\ goal' \subseteq Configs /\ Cardinality(goal') <= 1
        /\ cfg' \subseteq Configs /\ Cardinality(cfg') <= 1
    BY Known, Sizes, UplinkIsListed DEF ChooseServed, TypeOK
  <2>7. faults' \in 0..MaxFaults /\ crashes' \in 0..MaxCrashes /\ changes' \in 0..MaxChanges
    BY Known, Sizes, UplinkIsListed DEF ChooseServed, NoFault, Fault, TypeOK
  <2>. QED
    BY <2>1, <2>2, <2>3, <2>4, <2>5, <2>6, <2>7 DEF TypeOK, Machine, Memo
<1>2. OneAtATime'
  BY Known DEF OneAtATime, One, ChooseServed
<1>3. Synced'
  BY Known, UplinkIsListed DEF Synced, InSession, Platform, ChooseServed
<1>4. Settled'
  <2>1. steps = {} /\ phase = "starting"
    BY Known DEF ChooseServed, Synced, InSession
  <2>2. Pending = {} /\ UNCHANGED <<found, machine, lost>>
    BY <2>1 DEF Pending, ChooseServed
  <2>. QED
    BY Known, <2>2 DEF Settled, Differs
<1>5. Forwarding'
  BY Known, UplinkIsListed DEF Forwarding, Remembers, ChooseServed, ForwardingState
<1>6. Restorable'
  BY Known DEF Restorable, ChooseServed
<1>7. Performed'
  BY Known DEF ChooseServed, Synced, Performed
<1>8. Promise'
  BY Known DEF Promise, Promised, ChooseServed, NoFault
<1>9. RefusedUpFront'
  BY Known DEF ChooseServed, Synced, RefusedUpFront
<1>. QED
  BY <1>1, <1>2, <1>3, <1>4, <1>5, <1>6, <1>7, <1>8, <1>9 DEF Inv

\* A step is recorded before it is taken, over whatever the file said.
LEMMA RecordInv == ASSUME Inv, Record PROVE Inv'
<1>1. TypeOK'
  <2>1. /\ found' \in [Names -> {"Enabled", "Disabled"}]
        /\ outside' \in [answer : Answers, up : SUBSET Names, route : Names \cup {None}]
    BY Known DEF Record
  <2>2. machine' \in Machine
    BY Known DEF Record, Machine
  <2>3. journal' \in [steps : SUBSET Steps, data : Memo] /\ data' \in Memo
    <3>0. NextStep \subseteq Steps
      BY DEF NextStep, Wanted, Steps
    <3>1. steps' \subseteq Steps
      BY Known, <3>0 DEF Record
    <3>2. UNCHANGED data /\ (journal' = journal \/ journal' = [steps |-> steps', data |-> data])
      BY DEF Record
    <3>. QED
      BY Known, <3>1, <3>2
  <2>4. phase' \in Phases /\ elevated' \in BOOLEAN /\ spoiled' \in BOOLEAN
    BY Known DEF Record, Ready, NoFault, Fault, NextStep, Phases
  <2>5. steps' \subseteq Steps /\ todo' \subseteq Steps /\ lost' \subseteq Steps
    <3>1. NextStep \subseteq Steps
      BY DEF NextStep, Wanted, Steps
    <3>. QED
      BY Known, <3>1 DEF Record
  <2>6. /\ goal' \subseteq Configs /\ Cardinality(goal') <= 1
        /\ cfg' \subseteq Configs /\ Cardinality(cfg') <= 1
    BY Known, Sizes DEF Record, TypeOK
  <2>7. faults' \in 0..MaxFaults /\ crashes' \in 0..MaxCrashes /\ changes' \in 0..MaxChanges
    BY Known, Sizes DEF Record, NoFault, Fault, TypeOK
  <2>. QED
    BY <2>1, <2>2, <2>3, <2>4, <2>5, <2>6, <2>7 DEF TypeOK, Machine, Memo
<1>2. OneAtATime'
  BY Known DEF OneAtATime, One, Record
<1>3. Synced'
  <2>1. PICK s \in NextStep :
           \/ /\ steps' = steps \cup {s} /\ todo' = {s}
              /\ journal' = [steps |-> steps', data |-> data] /\ UNCHANGED phase
           \/ phase' = "failing" /\ todo' = steps /\ UNCHANGED <<steps, journal>>
    BY DEF Record
  <2>2. /\ phase = "starting" /\ s \in Wanted /\ UNCHANGED <<cfg, data>>
        /\ Platform => \E c \in cfg : c.hotspot # {}
        /\ ~Platform => data.iface # None
    BY DEF Record, Ready, NextStep
  <2>3. Wanted' = Wanted /\ Platform' = Platform
    BY <2>2 DEF Wanted, Platform
  <2>. QED
    BY Known, <2>1, <2>2, <2>3 DEF Synced, InSession, One
<1>4. Settled'
  <2>1. Pending = steps /\ Pending' = steps /\ UNCHANGED <<found, machine, lost>>
    BY DEF Record, Ready, NextStep, Pending
  <2>. QED
    BY Known, <2>1 DEF Settled, Differs
<1>5. Forwarding'
  BY Known DEF Forwarding, Remembers, Record
<1>6. Restorable'
  <2>1. UNCHANGED <<found, machine, lost>> /\ Pending = steps /\ phase = "starting"
    BY DEF Record, Ready, Pending
  <2>2. CASE UNCHANGED journal
    BY Known, <2>1, <2>2 DEF Restorable
  <2>3. CASE journal' = [steps |-> steps', data |-> data] /\ steps \subseteq steps'
    <3>1. \A t \in Steps \ (steps \cup lost) : ~Differs(machine, t)
      BY Known, <2>1 DEF Settled
    <3>2. steps # {} => journal.steps = steps /\ journal.data = data
      BY Known, <2>1 DEF Synced, InSession
    <3>3. machine.tethering => "tethering" \in steps \cup lost
      BY Known, <3>1, DiffersParts DEF Steps
    <3>4. machine.nat = "ours" => "nat" \in steps \cup lost
      BY Known, <3>1, DiffersParts DEF Steps
    <3>5. \/ "address" \in lost
          \/ \A n \in machine.address : "address" \in steps /\ n = data.iface
      BY Known, <3>1, <3>2, DiffersParts DEF Restorable, Steps
    <3>6. ASSUME "forwarding" \notin lost, NEW n \in Names
          PROVE  IF "forwarding" \in steps' /\ n = data.iface
                 THEN data.prev = found[n] ELSE machine.forwarding[n] = found[n]
      <4>1. CASE "forwarding" \in steps
        BY Known, <2>3, <3>2, <3>6, <4>1 DEF Restorable
      <4>2. CASE "forwarding" \notin steps
        <5>1. machine.forwarding = found
          BY Known, <3>1, <3>6, <4>2, DiffersParts DEF Steps
        <5>. QED
          BY Known, <5>1 DEF Forwarding, Remembers, Memo
      <4>. QED
        BY <4>1, <4>2
    <3>. QED
      BY <2>1, <2>3, <3>3, <3>4, <3>5, <3>6 DEF Restorable
  <2>. QED
    BY <2>2, <2>3 DEF Record
<1>7. Performed'
  BY Known DEF Performed, InForce, Record, Ready
<1>8. Promise'
  BY Known DEF Promise, Promised, Record, NoFault
<1>9. RefusedUpFront'
  <2>. SUFFICES ASSUME phase' = "failing", ~spoiled', NEW c \in cfg
                PROVE  c.sharing = "none"
    BY DEF RefusedUpFront, Record
  <2>1. ~elevated /\ ~spoiled
    BY DEF Record, Ready, Fault, NoFault
  <2>2. Promised(c)
    BY Known, <2>1 DEF Promise, Record, Ready
  <2>. QED
    BY Known, <2>1, <2>2, ConfigModels DEF Promised, Models
<1>. QED
  BY <1>1, <1>2, <1>3, <1>4, <1>5, <1>6, <1>7, <1>8, <1>9 DEF Inv

\* A step that is taken, in part or not at all, is one that is recorded.
LEMMA PerformInv == ASSUME Inv, Perform PROVE Inv'
<1>step. PICK s \in todo :
         \/ /\ NoFault /\ ~Refused(s) /\ machine' = Applied(s)
            /\ todo' = {} /\ UNCHANGED phase
         \/ NoFault /\ Refused(s) /\ UNCHANGED machine /\ Failed(s)
         \/ /\ Fault /\ Failed(s)
            /\ machine' \in {machine, Applied(s)} \cup {Undone(t) : t \in {"address"} \cap {s}}
  BY DEF Perform
<1>synced. /\ phase = "starting" /\ s \in Steps /\ todo = {s} /\ s \in steps
           /\ s \in Wanted /\ steps \subseteq Wanted
           /\ journal = [steps |-> steps, data |-> data]
           /\ s # "tethering" => data.iface \in Names
  BY Known DEF Perform, Synced, InSession, One, Wanted, Memo
<1>applied. /\ Applied(s) \in Machine
            /\ Applied(s).tethering = IF s = "tethering" THEN TRUE ELSE machine.tethering
            /\ Applied(s).address = IF s = "address" THEN machine.address \cup {data.iface}
                                    ELSE machine.address
            /\ Applied(s).forwarding = IF s = "forwarding"
                                       THEN [machine.forwarding EXCEPT ![data.iface] = "Enabled"]
                                       ELSE machine.forwarding
            /\ Applied(s).nat = IF s = "nat" THEN "ours" ELSE machine.nat
  BY Known, <1>synced, AppliedParts
<1>undone. s = "address" =>
               /\ Undone(s) \in Machine
               /\ Undone(s).tethering = machine.tethering
               /\ Undone(s).address = machine.address \ {data.iface}
               /\ Undone(s).forwarding = machine.forwarding
               /\ Undone(s).nat = machine.nat
  BY Known, <1>synced, UndoneParts
<1>did. machine' = machine \/ machine' = Applied(s) \/ (s = "address" /\ machine' = Undone(s))
  BY <1>step
<1>done. /\ machine' \in Machine
         /\ s # "tethering" => machine'.tethering = machine.tethering
         /\ s # "address" => machine'.address = machine.address
         /\ machine'.address \subseteq machine.address \cup {data.iface}
         /\ s # "forwarding" => machine'.forwarding = machine.forwarding
         /\ \A n \in Names \ {data.iface} : machine'.forwarding[n] = machine.forwarding[n]
         /\ s # "nat" => machine'.nat = machine.nat
         /\ \A n \in Names : machine.forwarding[n] = "Enabled" => machine'.forwarding[n] = "Enabled"
  <2>1. CASE machine' = machine
    BY Known, <2>1
  <2>2. CASE machine' = Applied(s)
    <3>1. \A n \in Names : machine'.forwarding[n] =
              IF s = "forwarding" /\ n = data.iface THEN "Enabled" ELSE machine.forwarding[n]
      BY Known, <1>applied, <2>2 DEF Machine
    <3>. QED
      BY Known, <1>applied, <2>2, <3>1
  <2>3. CASE s = "address" /\ machine' = Undone(s)
    BY Known, <1>undone, <2>3
  <2>. QED
    BY <1>did, <2>1, <2>2, <2>3
<1>1. TypeOK'
  <2>1. /\ found' \in [Names -> {"Enabled", "Disabled"}]
        /\ outside' \in [answer : Answers, up : SUBSET Names, route : Names \cup {None}]
    BY <1>step, <1>synced, <1>done, Known DEF Perform
  <2>2. machine' \in Machine
    BY <1>step, <1>synced, <1>done, Known DEF Perform, Machine
  <2>3. journal' \in [steps : SUBSET Steps, data : Memo] /\ data' \in Memo
    BY <1>step, <1>synced, <1>done, Known DEF Perform, Memo, Steps
  <2>4. phase' \in Phases /\ elevated' \in BOOLEAN /\ spoiled' \in BOOLEAN
    BY <1>step, <1>synced, <1>done, Known DEF Perform, NoFault, Fault, Failed, Phases
  <2>5. steps' \subseteq Steps /\ todo' \subseteq Steps /\ lost' \subseteq Steps
    BY <1>step, <1>synced, <1>done, Known DEF Perform, Failed, Steps
  <2>6. /\ goal' \subseteq Configs /\ Cardinality(goal') <= 1
        /\ cfg' \subseteq Configs /\ Cardinality(cfg') <= 1
    BY <1>step, <1>synced, <1>done, Known, Sizes DEF Perform, TypeOK
  <2>7. faults' \in 0..MaxFaults /\ crashes' \in 0..MaxCrashes /\ changes' \in 0..MaxChanges
    BY <1>step, <1>synced, <1>done, Known, Sizes DEF Perform, NoFault, Fault, TypeOK
  <2>. QED
    BY <2>1, <2>2, <2>3, <2>4, <2>5, <2>6, <2>7 DEF TypeOK, Machine, Memo
<1>2. OneAtATime'
  BY Known, <1>step, <1>synced, <1>done DEF OneAtATime, One, Perform
<1>3. Synced'
  <2>1. UNCHANGED <<journal, cfg, steps, data>> /\ phase' \in {"starting", "failing"}
    BY <1>step, <1>synced DEF Perform, Failed
  <2>2. todo' \subseteq steps /\ (phase' = "starting" => todo' = {})
    BY <1>step, <1>synced DEF Failed
  <2>3. Wanted' = Wanted /\ Platform' = Platform
    BY <2>1 DEF Wanted, Platform
  <2>. QED
    BY Known, <1>synced, <2>1, <2>2, <2>3 DEF Synced, InSession, One
<1>4. Settled'
  <2>1. Pending = steps \ {s} /\ Pending' = steps
    BY <1>step, <1>synced DEF Pending, Perform, Failed
  <2>2. \A t \in Steps \ {s} : Differs(machine', t) <=> Differs(machine, t)
    <3>1. /\ Differs(machine, "tethering") <=> machine.tethering = TRUE
          /\ Differs(machine, "address") <=> machine.address # {}
          /\ Differs(machine, "forwarding") <=> machine.forwarding # found
          /\ Differs(machine, "nat") <=> machine.nat = "ours"
      BY Known, DiffersParts
    <3>2. /\ Differs(machine', "tethering") <=> machine'.tethering = TRUE
          /\ Differs(machine', "address") <=> machine'.address # {}
          /\ Differs(machine', "forwarding") <=> machine'.forwarding # found
          /\ Differs(machine', "nat") <=> machine'.nat = "ours"
      BY <1>done, DiffersParts
    <3>. QED
      BY <1>done, <3>1, <3>2 DEF Steps
  <2>3. UNCHANGED <<found, lost>>
    BY DEF Perform
  <2>4. \A t \in Steps : Differs(machine, t)' <=> Differs(machine', t)
    BY <2>3 DEF Differs
  <2>5. Settled /\ s \in steps
    BY Known, <1>synced
  <2>. QED
    BY <2>1, <2>2, <2>3, <2>4, <2>5 DEF Settled
<1>5. Forwarding'
  BY Known, <1>done DEF Forwarding, Remembers, Perform, Memo
<1>6. Restorable'
  <2>1. UNCHANGED <<found, journal, lost>>
    BY DEF Perform
  <2>. QED
    BY Known, <1>synced, <1>done, <2>1 DEF Restorable
<1>7. Performed'
  <2>. SUFFICES ASSUME phase' = "starting", NEW t \in steps
                PROVE  InForce(t)'
    BY <1>step DEF Performed, Perform, Failed
  <2>1. machine' = Applied(s) /\ UNCHANGED data
    BY <1>step DEF Perform, Failed
  <2>2. t # s => InForce(t)
    BY Known, <1>synced DEF Performed
  <2>3. t # "tethering" => data.iface \in Names
    BY Known, <1>synced DEF Wanted, Platform
  <2>4. DOMAIN machine.forwarding = Names
    BY Known DEF Machine
  <2>5. CASE t = s
    BY <1>applied, <2>1, <2>3, <2>4, <2>5 DEF InForce
  <2>6. CASE t # s
    BY <1>applied, <2>1, <2>2, <2>3, <2>4, <2>6 DEF InForce
  <2>. QED
    BY <2>5, <2>6
<1>8. Promise'
  <2>. SUFFICES ASSUME ~spoiled', phase' = "starting", NEW c \in cfg
                PROVE  Promised(c)'
    BY <1>step, <1>synced DEF Promise, Perform, Failed
  <2>1. Promised(c) /\ UNCHANGED <<elevated, outside, lost>>
    BY Known, <1>step, <1>synced DEF Promise, Perform, NoFault, Fault
  <2>2. machine'.nat \in {"ours", machine.nat}
    BY <1>step, <1>applied DEF Failed
  <2>. QED
    BY <2>1, <2>2 DEF Promised
<1>9. RefusedUpFront'
  <2>. SUFFICES ASSUME phase' = "failing", ~spoiled', NEW c \in cfg
                PROVE  c.sharing = "none"
    BY DEF RefusedUpFront, Perform
  <2>1. Refused(s) /\ ~spoiled
    BY <1>step, <1>synced DEF Fault, NoFault
  <2>2. Promised(c)
    BY Known, <1>synced, <2>1 DEF Promise
  <2>3. s = "tethering" => c.sharing = "platform"
    BY Known, <1>synced DEF OneAtATime, One, Wanted, Platform
  <2>4. s = "nat" => c.sharing # "platform"
    BY Known, <1>synced DEF Wanted, Platform
  <2>5. s = "nat" /\ "nat" \notin lost => machine.nat # "ours"
    <3>1. "nat" \notin Pending \/ s # "nat"
      BY <1>synced DEF Pending
    <3>. QED
      BY Known, <3>1, DiffersParts DEF Settled, Steps
  <2>6. machine.nat \in {None, "ours", "other"}
    BY Known DEF Machine
  <2>. QED
    BY Known, <2>1, <2>2, <2>3, <2>4, <2>5, <2>6, ConfigModels
    DEF Promised, Refused, Models
<1>. QED
  BY <1>1, <1>2, <1>3, <1>4, <1>5, <1>6, <1>7, <1>8, <1>9 DEF Inv

\* A session is up when every step it wants has been taken.
LEMMA UpInv == ASSUME Inv, Up PROVE Inv'
<1>1. TypeOK'
  <2>1. /\ found' \in [Names -> {"Enabled", "Disabled"}]
        /\ outside' \in [answer : Answers, up : SUBSET Names, route : Names \cup {None}]
    BY Known DEF Up, Ready, bounds
  <2>2. machine' \in Machine
    BY Known DEF Up, Machine
  <2>3. journal' \in [steps : SUBSET Steps, data : Memo] /\ data' \in Memo
    BY Known DEF Up, Memo, Steps
  <2>4. phase' \in Phases /\ elevated' \in BOOLEAN /\ spoiled' \in BOOLEAN
    BY Known DEF Up, Phases
  <2>5. steps' \subseteq Steps /\ todo' \subseteq Steps /\ lost' \subseteq Steps
    BY Known DEF Up, Steps
  <2>6. /\ goal' \subseteq Configs /\ Cardinality(goal') <= 1
        /\ cfg' \subseteq Configs /\ Cardinality(cfg') <= 1
    BY Known, Sizes DEF Up, TypeOK
  <2>7. faults' \in 0..MaxFaults /\ crashes' \in 0..MaxCrashes /\ changes' \in 0..MaxChanges
    BY Known, Sizes DEF Up, bounds, TypeOK
  <2>. QED
    BY <2>1, <2>2, <2>3, <2>4, <2>5, <2>6, <2>7 DEF TypeOK, Machine, Memo
<1>2. OneAtATime'
  BY Known DEF OneAtATime, One, Up
<1>3. Synced'
  BY Known DEF Synced, InSession, Wanted, Platform, Up, Ready
<1>4. Settled'
  BY Known
  DEF Settled, Pending, Differs, Up, Ready, bounds, Steps, Phases, Machine, Memo
<1>5. Forwarding'
  BY Known DEF Forwarding, Remembers, Up
<1>6. Restorable'
  BY Known DEF Restorable, Up
<1>7. Performed'
  BY Known DEF Performed, InForce, Up, Ready
<1>8. Promise'
  BY Known DEF Promise, Up
<1>9. RefusedUpFront'
  BY Known DEF RefusedUpFront, Up
<1>. QED
  BY <1>1, <1>2, <1>3, <1>4, <1>5, <1>6, <1>7, <1>8, <1>9 DEF Inv

\* Closing changes nothing yet.
LEMMA CloseInv == ASSUME Inv, Close PROVE Inv'
<1>1. TypeOK'
  <2>1. /\ found' \in [Names -> {"Enabled", "Disabled"}]
        /\ outside' \in [answer : Answers, up : SUBSET Names, route : Names \cup {None}]
    BY Known DEF Close, bounds
  <2>2. machine' \in Machine
    BY Known DEF Close, bounds, Machine
  <2>3. journal' \in [steps : SUBSET Steps, data : Memo] /\ data' \in Memo
    BY Known DEF Close, Memo, Steps
  <2>4. phase' \in Phases /\ elevated' \in BOOLEAN /\ spoiled' \in BOOLEAN
    BY Known DEF Close, bounds, Phases
  <2>5. steps' \subseteq Steps /\ todo' \subseteq Steps /\ lost' \subseteq Steps
    BY Known DEF Close, bounds, Steps
  <2>6. /\ goal' \subseteq Configs /\ Cardinality(goal') <= 1
        /\ cfg' \subseteq Configs /\ Cardinality(cfg') <= 1
    BY Known, Sizes DEF Close, bounds, TypeOK
  <2>7. faults' \in 0..MaxFaults /\ crashes' \in 0..MaxCrashes /\ changes' \in 0..MaxChanges
    BY Known, Sizes DEF Close, bounds, TypeOK
  <2>. QED
    BY <2>1, <2>2, <2>3, <2>4, <2>5, <2>6, <2>7 DEF TypeOK, Machine, Memo
<1>2. OneAtATime'
  BY Known DEF OneAtATime, One, Close
<1>3. Synced'
  BY Known DEF Synced, InSession, Wanted, Platform, Close
<1>4. Settled'
  BY Known DEF Settled, Pending, Differs, Close, bounds, Steps, Phases, Machine, Memo
<1>5. Forwarding'
  BY Known DEF Forwarding, Remembers, Close
<1>6. Restorable'
  BY Known DEF Restorable, Close
<1>7. Performed'
  BY Known DEF Performed, Close
<1>8. Promise'
  BY Known DEF Promise, Close
<1>9. RefusedUpFront'
  BY Known DEF RefusedUpFront, Close
<1>. QED
  BY <1>1, <1>2, <1>3, <1>4, <1>5, <1>6, <1>7, <1>8, <1>9 DEF Inv

\* The tear down has undone all it had recorded.
LEMMA TearDownEndInv == ASSUME Inv, TearDownEnd PROVE Inv'
<1>1. TypeOK'
  <2>1. /\ found' \in [Names -> {"Enabled", "Disabled"}]
        /\ outside' \in [answer : Answers, up : SUBSET Names, route : Names \cup {None}]
    BY Known DEF TearDownEnd
  <2>2. machine' \in Machine
    BY Known DEF TearDownEnd, Machine
  <2>3. journal' \in [steps : SUBSET Steps, data : Memo] /\ data' \in Memo
    BY Known DEF TearDownEnd, JournalCleared, NoData, Memo, Steps
  <2>4. phase' \in Phases /\ elevated' \in BOOLEAN /\ spoiled' \in BOOLEAN
    BY Known DEF TearDownEnd, JournalCleared, NoFault, Fault, NoData, Phases
  <2>5. steps' \subseteq Steps /\ todo' \subseteq Steps /\ lost' \subseteq Steps
    BY Known DEF TearDownEnd, Steps
  <2>6. /\ goal' \subseteq Configs /\ Cardinality(goal') <= 1
        /\ cfg' \subseteq Configs /\ Cardinality(cfg') <= 1
    BY Known, Sizes DEF TearDownEnd, TypeOK
  <2>7. faults' \in 0..MaxFaults /\ crashes' \in 0..MaxCrashes /\ changes' \in 0..MaxChanges
    BY Known, Sizes DEF TearDownEnd, JournalCleared, NoFault, Fault, TypeOK
  <2>. QED
    BY <2>1, <2>2, <2>3, <2>4, <2>5, <2>6, <2>7 DEF TypeOK, Machine, Memo
<1>2. OneAtATime'
  BY Known DEF OneAtATime, One, TearDownEnd
<1>3. Synced'
  BY Known DEF Synced, TearDownEnd
<1>4. Settled'
  BY Known DEF Settled, Pending, TearDownEnd
<1>5. Forwarding'
  BY Known DEF Forwarding, Remembers, TearDownEnd, JournalCleared, NoData
<1>6. Restorable'
  <2>1. \A t \in Steps \ lost : ~Differs(machine, t)
    BY Known DEF TearDownEnd, Settled, Pending
  <2>2. UNCHANGED <<found, machine, lost>>
    BY DEF TearDownEnd
  <2>3. CASE UNCHANGED journal
    BY Known, <2>2, <2>3 DEF Restorable
  <2>4. CASE journal' = [steps |-> {}, data |-> NoData]
    BY Known, <2>1, <2>2, <2>4, DiffersParts DEF Restorable, Steps
  <2>. QED
    BY <2>3, <2>4 DEF TearDownEnd, JournalCleared
<1>7. Performed'
  BY Known DEF Performed, TearDownEnd
<1>8. Promise'
  BY Known DEF Promise, TearDownEnd
<1>9. RefusedUpFront'
  BY Known DEF RefusedUpFront, TearDownEnd
<1>. QED
  BY <1>1, <1>2, <1>3, <1>4, <1>5, <1>6, <1>7, <1>8, <1>9 DEF Inv

\* The file outlives the process.
LEMMA CrashInv == ASSUME Inv, Crash PROVE Inv'
<1>1. TypeOK'
  <2>1. /\ found' \in [Names -> {"Enabled", "Disabled"}]
        /\ outside' \in [answer : Answers, up : SUBSET Names, route : Names \cup {None}]
    BY Known DEF Crash, Forget, NoData
  <2>2. machine' \in Machine
    BY Known DEF Crash, Machine
  <2>3. journal' \in [steps : SUBSET Steps, data : Memo] /\ data' \in Memo
    BY Known DEF Crash, Forget, NoData, Memo, Steps
  <2>4. phase' \in Phases /\ elevated' \in BOOLEAN /\ spoiled' \in BOOLEAN
    BY Known DEF Crash, Forget, NoData, Phases
  <2>5. steps' \subseteq Steps /\ todo' \subseteq Steps /\ lost' \subseteq Steps
    BY Known DEF Crash, Forget, Steps
  <2>6. /\ goal' \subseteq Configs /\ Cardinality(goal') <= 1
        /\ cfg' \subseteq Configs /\ Cardinality(cfg') <= 1
    BY Known, Sizes DEF Crash, Forget
  <2>7. faults' \in 0..MaxFaults /\ crashes' \in 0..MaxCrashes /\ changes' \in 0..MaxChanges
    BY Known, Sizes DEF Crash, TypeOK
  <2>. QED
    BY <2>1, <2>2, <2>3, <2>4, <2>5, <2>6, <2>7 DEF TypeOK, Machine, Memo
<1>2. OneAtATime'
  BY Known DEF OneAtATime, One, Crash, Forget
<1>3. Synced'
  BY Known DEF Synced, Crash, Forget
<1>4. Settled'
  BY Known DEF Settled, Pending, Crash, Forget
<1>5. Forwarding'
  BY Known DEF Forwarding, Remembers, Crash, Forget, NoData
<1>6. Restorable'
  BY Known DEF Restorable, Crash
<1>7. Performed'
  BY Known DEF Performed, Crash, Forget
<1>8. Promise'
  BY Known DEF Promise, Crash, Forget
<1>9. RefusedUpFront'
  BY Known DEF RefusedUpFront, Crash, Forget
<1>. QED
  BY <1>1, <1>2, <1>3, <1>4, <1>5, <1>6, <1>7, <1>8, <1>9 DEF Inv

\* And everything but the hotspot outlives the machine's restart.
LEMMA RebootInv == ASSUME Inv, Reboot PROVE Inv'
<1>1. TypeOK'
  <2>1. /\ found' \in [Names -> {"Enabled", "Disabled"}]
        /\ outside' \in [answer : Answers, up : SUBSET Names, route : Names \cup {None}]
    BY Known DEF Reboot, Forget, NoData
  <2>2. machine' \in Machine
    BY Known DEF Reboot, Forget, NoData, Machine
  <2>3. journal' \in [steps : SUBSET Steps, data : Memo] /\ data' \in Memo
    BY Known DEF Reboot, Forget, NoData, Memo, Steps
  <2>4. phase' \in Phases /\ elevated' \in BOOLEAN /\ spoiled' \in BOOLEAN
    BY Known DEF Reboot, Forget, NoData, Phases
  <2>5. steps' \subseteq Steps /\ todo' \subseteq Steps /\ lost' \subseteq Steps
    BY Known DEF Reboot, Forget, Steps
  <2>6. /\ goal' \subseteq Configs /\ Cardinality(goal') <= 1
        /\ cfg' \subseteq Configs /\ Cardinality(cfg') <= 1
    BY Known, Sizes DEF Reboot, Forget
  <2>7. faults' \in 0..MaxFaults /\ crashes' \in 0..MaxCrashes /\ changes' \in 0..MaxChanges
    BY Known, Sizes DEF Reboot, TypeOK
  <2>. QED
    BY <2>1, <2>2, <2>3, <2>4, <2>5, <2>6, <2>7 DEF TypeOK, Machine, Memo
<1>2. OneAtATime'
  BY Known DEF OneAtATime, One, Reboot, Forget
<1>3. Synced'
  BY Known DEF Synced, Reboot, Forget
<1>4. Settled'
  BY Known DEF Settled, Pending, Reboot, Forget
<1>5. Forwarding'
  BY Known DEF Forwarding, Remembers, Reboot, Forget, NoData
<1>6. Restorable'
  BY Known DEF Restorable, Reboot
<1>7. Performed'
  BY Known DEF Performed, Reboot, Forget
<1>8. Promise'
  BY Known DEF Promise, Reboot, Forget
<1>9. RefusedUpFront'
  BY Known DEF RefusedUpFront, Reboot, Forget
<1>. QED
  BY <1>1, <1>2, <1>3, <1>4, <1>5, <1>6, <1>7, <1>8, <1>9 DEF Inv

\* The steps name their interface: the default route may go elsewhere.
LEMMA NetworkMovesInv == ASSUME Inv, NetworkMoves PROVE Inv'
<1>1. TypeOK'
  <2>1. /\ found' \in [Names -> {"Enabled", "Disabled"}]
        /\ outside' \in [answer : Answers, up : SUBSET Names, route : Names \cup {None}]
    BY Known DEF NetworkMoves, Change, process
  <2>2. machine' \in Machine
    BY Known DEF NetworkMoves, Machine
  <2>3. journal' \in [steps : SUBSET Steps, data : Memo] /\ data' \in Memo
    BY Known DEF NetworkMoves, Change, process, Memo, Steps
  <2>4. phase' \in Phases /\ elevated' \in BOOLEAN /\ spoiled' \in BOOLEAN
    BY Known DEF NetworkMoves, Change, process, Phases
  <2>5. steps' \subseteq Steps /\ todo' \subseteq Steps /\ lost' \subseteq Steps
    BY Known DEF NetworkMoves, Change, process, Steps
  <2>6. /\ goal' \subseteq Configs /\ Cardinality(goal') <= 1
        /\ cfg' \subseteq Configs /\ Cardinality(cfg') <= 1
    BY Known, Sizes DEF NetworkMoves, Change, process, TypeOK
  <2>7. faults' \in 0..MaxFaults /\ crashes' \in 0..MaxCrashes /\ changes' \in 0..MaxChanges
    BY Known, Sizes DEF NetworkMoves, Change, TypeOK
  <2>. QED
    BY <2>1, <2>2, <2>3, <2>4, <2>5, <2>6, <2>7 DEF TypeOK, Machine, Memo
<1>2. OneAtATime'
  BY Known DEF OneAtATime, One, NetworkMoves, Change, process
<1>3. Synced'
  BY Known DEF Synced, InSession, Wanted, Platform, NetworkMoves, Change, process
<1>4. Settled'
  BY Known
  DEF Settled, Pending, Differs, NetworkMoves, Change, process, Steps, Phases, Machine,
      Memo
<1>5. Forwarding'
  BY Known DEF Forwarding, Remembers, NetworkMoves, Change, process
<1>6. Restorable'
  BY Known DEF Restorable, NetworkMoves, Change
<1>7. Performed'
  BY Known DEF Performed, InForce, NetworkMoves, Change, process
<1>8. Promise'
  BY Known DEF Promise, NetworkMoves, Change
<1>9. RefusedUpFront'
  BY Known DEF RefusedUpFront, NetworkMoves, Change
<1>. QED
  BY <1>1, <1>2, <1>3, <1>4, <1>5, <1>6, <1>7, <1>8, <1>9 DEF Inv

\* Another program's translation comes and goes where there is none of ours.
LEMMA OtherNatInv == ASSUME Inv, OtherNat PROVE Inv'
<1>1. TypeOK'
  <2>1. /\ found' \in [Names -> {"Enabled", "Disabled"}]
        /\ outside' \in [answer : Answers, up : SUBSET Names, route : Names \cup {None}]
    BY Known DEF OtherNat, Change, process
  <2>2. machine' \in Machine
    BY Known DEF OtherNat, Machine
  <2>3. journal' \in [steps : SUBSET Steps, data : Memo] /\ data' \in Memo
    BY Known DEF OtherNat, Change, process, Memo, Steps
  <2>4. phase' \in Phases /\ elevated' \in BOOLEAN /\ spoiled' \in BOOLEAN
    BY Known DEF OtherNat, Change, process, Phases
  <2>5. steps' \subseteq Steps /\ todo' \subseteq Steps /\ lost' \subseteq Steps
    BY Known DEF OtherNat, Change, process, Steps
  <2>6. /\ goal' \subseteq Configs /\ Cardinality(goal') <= 1
        /\ cfg' \subseteq Configs /\ Cardinality(cfg') <= 1
    BY Known, Sizes DEF OtherNat, Change, process, TypeOK
  <2>7. faults' \in 0..MaxFaults /\ crashes' \in 0..MaxCrashes /\ changes' \in 0..MaxChanges
    BY Known, Sizes DEF OtherNat, Change, TypeOK
  <2>. QED
    BY <2>1, <2>2, <2>3, <2>4, <2>5, <2>6, <2>7 DEF TypeOK, Machine, Memo
<1>2. OneAtATime'
  BY Known DEF OneAtATime, One, OtherNat, Change, process
<1>3. Synced'
  BY Known DEF Synced, InSession, Wanted, Platform, OtherNat, Change, process
<1>4. Settled'
  <2>1. UNCHANGED <<found, journal, lost, phase, steps, todo>>
    BY DEF OtherNat, Change, process
  <2>2. /\ machine' \in Machine /\ machine.nat # "ours" /\ machine'.nat # "ours"
        /\ machine'.tethering = machine.tethering /\ machine'.address = machine.address
        /\ machine'.forwarding = machine.forwarding
    BY Known DEF OtherNat, Machine, None
  <2>3. \A t \in Steps : Differs(machine', t) => Differs(machine, t)
    BY Known, <2>2, DiffersParts DEF Steps
  <2>4. Pending' = Pending
    BY <2>1 DEF Pending
  <2>. QED
    BY Known, <2>1, <2>3, <2>4 DEF Settled, Differs
<1>5. Forwarding'
  BY Known DEF Forwarding, Remembers, OtherNat, Change, process
<1>6. Restorable'
  <2>1. UNCHANGED <<found, journal, lost, phase, steps, todo>>
    BY DEF OtherNat, Change, process
  <2>2. /\ machine' \in Machine /\ machine.nat # "ours" /\ machine'.nat # "ours"
        /\ machine'.tethering = machine.tethering /\ machine'.address = machine.address
        /\ machine'.forwarding = machine.forwarding
    BY Known DEF OtherNat, Machine, None
  <2>. QED
    BY Known, <2>1, <2>2 DEF Restorable
<1>7. Performed'
  BY Known DEF Performed, InForce, OtherNat, Change, process
<1>8. Promise'
  BY Known DEF Promise, OtherNat, Change
<1>9. RefusedUpFront'
  BY Known DEF RefusedUpFront, OtherNat, Change
<1>. QED
  BY <1>1, <1>2, <1>3, <1>4, <1>5, <1>6, <1>7, <1>8, <1>9 DEF Inv

\* Nothing changes.
LEMMA StutterInv == ASSUME Inv, UNCHANGED vars PROVE Inv'
<1>1. TypeOK'
  <2>1. /\ found' \in [Names -> {"Enabled", "Disabled"}]
        /\ outside' \in [answer : Answers, up : SUBSET Names, route : Names \cup {None}]
    BY Known DEF vars, process, bounds
  <2>2. machine' \in Machine
    BY Known DEF vars, Machine
  <2>3. journal' \in [steps : SUBSET Steps, data : Memo] /\ data' \in Memo
    BY Known DEF vars, process, Memo, Steps
  <2>4. phase' \in Phases /\ elevated' \in BOOLEAN /\ spoiled' \in BOOLEAN
    BY Known DEF vars, process, Phases
  <2>5. steps' \subseteq Steps /\ todo' \subseteq Steps /\ lost' \subseteq Steps
    BY Known DEF vars, process, Steps
  <2>6. /\ goal' \subseteq Configs /\ Cardinality(goal') <= 1
        /\ cfg' \subseteq Configs /\ Cardinality(cfg') <= 1
    BY Known, Sizes DEF vars, process, TypeOK
  <2>7. faults' \in 0..MaxFaults /\ crashes' \in 0..MaxCrashes /\ changes' \in 0..MaxChanges
    BY Known, Sizes DEF vars, bounds, TypeOK
  <2>. QED
    BY <2>1, <2>2, <2>3, <2>4, <2>5, <2>6, <2>7 DEF TypeOK, Machine, Memo
<1>2. OneAtATime'
  BY Known DEF OneAtATime, One, vars, process
<1>3. Synced'
  BY Known DEF Synced, InSession, Wanted, Platform, vars, process
<1>4. Settled'
  BY Known
  DEF Settled, Pending, Differs, vars, process, bounds, Steps, Phases, Machine, Memo
<1>5. Forwarding'
  BY Known DEF Forwarding, Remembers, vars, process
<1>6. Restorable'
  BY Known DEF Restorable, vars
<1>7. Performed'
  BY Known DEF Performed, InForce, vars, process
<1>8. Promise'
  BY Known DEF Promise, Promised, vars, process
<1>9. RefusedUpFront'
  BY Known DEF RefusedUpFront, vars, process
<1>. QED
  BY <1>1, <1>2, <1>3, <1>4, <1>5, <1>6, <1>7, <1>8, <1>9 DEF Inv

-----------------------------------------------------------------------------
(* The theorems. *)

\* Before the program first runs, nothing is changed and nothing recorded.
LEMMA InitInv == Init => Inv
<1>. SUFFICES ASSUME Init PROVE Inv
  OBVIOUS
<1>1. TypeOK
  <2>1. /\ found \in [Names -> {"Enabled", "Disabled"}]
        /\ machine = [forwarding |-> found, address |-> {}, nat |-> None, tethering |-> FALSE]
        /\ outside \in [answer : Answers, up : {Names}, route : Names]
        /\ journal = [steps |-> {}, data |-> NoData]
        /\ phase = "dead" /\ elevated = FALSE
        /\ goal = {} /\ cfg = {} /\ steps = {} /\ data = NoData /\ todo = {}
        /\ lost = {} /\ spoiled = FALSE
        /\ faults = 0 /\ crashes = 0 /\ changes = 0
    BY DEF Init
  <2>2. NoData \in [iface : Names \cup {None}, prev : {"Enabled", "Disabled"}]
    BY DEF NoData
  <2>3. machine \in Machine
    BY <2>1 DEF Machine
  <2>4. outside \in [answer : Answers, up : SUBSET Names, route : Names \cup {None}]
    BY <2>1
  <2>5. faults \in 0..MaxFaults /\ crashes \in 0..MaxCrashes /\ changes \in 0..MaxChanges
    BY <2>1, Sizes
  <2>6. Cardinality(goal) <= 1 /\ Cardinality(cfg) <= 1
    BY <2>1, Sizes
  <2>. QED
    BY <2>1, <2>2, <2>3, <2>4, <2>5, <2>6 DEF TypeOK, Phases, Machine
<1>2. OneAtATime /\ Synced /\ Performed /\ Promise /\ RefusedUpFront
  BY DEF Init, OneAtATime, One, Synced, InSession, Performed, Promise, RefusedUpFront
<1>3. Settled /\ Restorable
  BY DEF Init, Settled, Pending, Restorable, None
<1>4. Forwarding
  BY DEF Init, Forwarding, Remembers, NoData
<1>. QED
  BY <1>1, <1>2, <1>3, <1>4 DEF Inv

\* Every step of the process, of the person and of the world keeps the invariant.
LEMMA NextInv == ASSUME Inv, [Next]_vars PROVE Inv'
<1>1. CASE Process
  <2>1. CASE Undo
    BY <2>1, UndoStepInv DEF Undo
  <2>. QED
    BY <1>1, <2>1, ReconcileEndInv, NoHotspotInv, ChooseServedInv, RecordInv, PerformInv,
       UpInv, TearDownEndInv
    DEF Process
<1>2. CASE User
  BY <1>2, LaunchInv, StartGatewayInv, CloseInv DEF User
<1>3. CASE Crash \/ Reboot \/ NetworkMoves \/ OtherNat
  BY <1>3, CrashInv, RebootInv, NetworkMovesInv, OtherNatInv
<1>4. CASE UNCHANGED vars
  BY <1>4, StutterInv
<1>. QED
  BY <1>1, <1>2, <1>3, <1>4 DEF Next

\* The invariant holds, whatever fails, dies or changes from outside.
THEOREM WindowsInvariant == Spec => []Inv
<1>1. Inv /\ [Next]_vars => Inv'
  BY NextInv
<1>. QED
  BY InitInv, <1>1, PTL DEF Spec

\* The variables have their types: in particular the interface that steps are
\* taken on is one of the machine's wherever a step is taken.
THEOREM WindowsTypes == Spec => []TypeOK
<1>1. Inv => TypeOK
  BY DEF Inv
<1>. QED
  BY WindowsInvariant, <1>1, PTL

\* At every moment the journal alone is enough to put the machine back as it was
\* found, but for undos that failed.
THEOREM AlwaysRecoverable == Spec => []Recoverable
<1>1. Inv => Recoverable
  <2>. SUFFICES ASSUME Inv PROVE Recoverable
    OBVIOUS
  <2>types. /\ machine \in Machine /\ found \in [Names -> {"Enabled", "Disabled"}]
            /\ journal \in [steps : SUBSET Steps, data : Memo] /\ None \notin Names
            /\ Restorable
    BY NoneIsNoName DEF Inv, TypeOK, Machine, Memo
  <2>1. /\ Recovered.tethering = (machine.tethering /\ "tethering" \notin journal.steps)
        /\ Recovered.address = IF "address" \in journal.steps
                               THEN machine.address \ {journal.data.iface} ELSE machine.address
        /\ Recovered.forwarding =
               [n \in Names |-> IF "forwarding" \in journal.steps /\ n = journal.data.iface
                                THEN journal.data.prev ELSE machine.forwarding[n]]
        /\ Recovered.nat = IF "nat" \in journal.steps /\ machine.nat = "ours" THEN None
                           ELSE machine.nat
    BY <2>types DEF Recovered, Machine
  <2>2. "tethering" \notin lost => ~Differs(Recovered, "tethering")
    BY <2>types, <2>1 DEF Restorable, Differs, Machine
  <2>3. "address" \notin lost => ~Differs(Recovered, "address")
    <3>1. "address" \notin lost => Recovered.address = {}
      BY <2>types, <2>1 DEF Restorable, Machine
    <3>. QED
      BY <3>1 DEF Differs
  <2>4. "forwarding" \notin lost => ~Differs(Recovered, "forwarding")
    <3>1. "forwarding" \notin lost => \A n \in Names : Recovered.forwarding[n] = found[n]
      BY <2>types, <2>1 DEF Restorable
    <3>2. "forwarding" \notin lost => Recovered.forwarding = found
      BY <2>types, <2>1, <3>1
    <3>. QED
      BY <3>2 DEF Differs
  <2>5. "nat" \notin lost => ~Differs(Recovered, "nat")
    BY <2>types, <2>1 DEF Restorable, Differs, None
  <2>. QED
    BY <2>2, <2>3, <2>4, <2>5 DEF Recoverable, Steps
<1>. QED
  BY WindowsInvariant, <1>1, PTL

\* A session that says it is running has everything it is made of.
THEOREM RunningIsWhole == Spec => []Whole
<1>1. Inv => Whole
  <2>. SUFFICES ASSUME Inv, phase = "running"
                PROVE  \/ Platform /\ machine.tethering
                       \/ /\ ~Platform /\ machine.nat = "ours"
                          /\ data.iface \in machine.address
                          /\ machine.forwarding[data.iface] = "Enabled"
    BY DEF Whole
  <2>1. todo = {} /\ steps = Wanted
    BY DEF Inv, Synced
  <2>2. \A s \in steps : InForce(s)
    BY <2>1 DEF Inv, Performed
  <2>. QED
    BY <2>1, <2>2 DEF Wanted, InForce
<1>. QED
  BY WindowsInvariant, <1>1, PTL

\* With nothing failing, nothing changing and nothing left over, a bring-up that
\* has taken a step does not fail at a later one.
THEOREM RefusedBeforeTouching == Spec => []RefusedUpFront
<1>1. Inv => RefusedUpFront
  BY DEF Inv
<1>. QED
  BY WindowsInvariant, <1>1, PTL

\* What a step may do to a clean-up: nothing, if it is the world's; take one undo off
\* the list; or, with none left, end it, with the machine as it was found but for
\* what was lost.  Only the end of the process cuts it short.
CleanUpStep ==
    \/ (NetworkMoves \/ OtherNat) /\ UNCHANGED <<phase, todo>>
    \/ phase' = phase /\ \E s \in todo : todo' = todo \ {s}
    \/ /\ todo = {} /\ phase' \in {"idle", "starting"}
       /\ \A s \in Steps : Differs(machine', s) => s \in lost'
    \/ phase' = "dead"

\* The order of the undos never leaves one that must wait for another for ever.
SomeUndo == Undoing /\ todo # {} => \E s \in todo : \A t \in todo : Rank[t] <= Rank[s]

\* The safety half of CleanUpEnds: a clean-up, of a reconcile, a bring-up that failed
\* or a tear down, can always go on, takes each recorded step once whether its undo
\* works or is refused, and ends clean (windows_session.go, Reconcile and tearDown).
THEOREM CleanUpAdvances == Spec => [](SomeUndo) /\ [][Undoing => CleanUpStep]_vars
<1>1. Inv => SomeUndo
  <2>. SUFFICES ASSUME Inv, todo # {} PROVE \E s \in todo : \A t \in todo : Rank[t] <= Rank[s]
    BY DEF SomeUndo
  <2>1. todo \subseteq Steps
    BY DEF Inv, TypeOK
  <2>2. CASE "nat" \in todo
    BY <2>1, <2>2 DEF Rank, Steps
  <2>3. CASE "nat" \notin todo /\ "forwarding" \in todo
    BY <2>1, <2>3 DEF Rank, Steps
  <2>4. CASE "nat" \notin todo /\ "forwarding" \notin todo /\ "address" \in todo
    BY <2>1, <2>4 DEF Rank, Steps
  <2>5. CASE todo = {"tethering"}
    BY <2>5 DEF Rank, Steps
  <2>. QED
    BY <2>1, <2>2, <2>3, <2>4, <2>5 DEF Steps
<1>2. Inv /\ [Next]_vars => [Undoing => CleanUpStep]_vars
  <2>. SUFFICES ASSUME Inv, Next, Undoing PROVE CleanUpStep
    OBVIOUS
  <2>1. CASE Undo
    BY <2>1 DEF Undo, UndoStep, CleanUpStep
  <2>2. CASE ReconcileEnd \/ TearDownEnd
    <3>1. todo = {} /\ phase' \in {"idle", "starting"} /\ UNCHANGED <<machine, found, lost>>
      BY <2>2 DEF ReconcileEnd, TearDownEnd
    <3>2. \A s \in Steps : Differs(machine, s) => s \in lost
      BY <3>1 DEF Inv, Settled, Pending, Undoing
    <3>3. \A s \in Steps : Differs(machine', s) => s \in lost'
      BY <3>1, <3>2 DEF Differs
    <3>. QED
      BY <3>1, <3>3 DEF CleanUpStep
  <2>3. CASE NoHotspot \/ ChooseServed \/ Record \/ Perform \/ Up \/ User
    BY <2>3 DEF Undoing, NoHotspot, ChooseServed, Record, Ready, Perform, Up, User, Launch,
                StartGateway, Close
  <2>4. CASE Crash \/ Reboot
    BY <2>4 DEF Crash, Reboot, Forget, CleanUpStep
  <2>5. CASE NetworkMoves \/ OtherNat
    BY <2>5 DEF NetworkMoves, OtherNat, Change, process, CleanUpStep
  <2>. QED
    BY <2>1, <2>2, <2>3, <2>4, <2>5 DEF Next, Process
<1>. QED
  BY <1>1, <1>2, WindowsInvariant, PTL DEF Spec

-----------------------------------------------------------------------------
(* The range. *)

\* A number that a word can count is itself.
LEMMA NoWrap ==
    ASSUME NEW w \in Nat, NEW x \in Nat, x < w
    PROVE  x % w = x
OBVIOUS

\* One below zero is counted down from the top.
LEMMA WrapsBelow ==
    ASSUME NEW w \in Nat, NEW x \in Nat, 0 < x, x < w
    PROVE  (-x) % w = w - x
OBVIOUS

\* Of a subnet of sixteen addresses or more the range lies inside, behind the
\* gateway's own address and the ones left for pins, ends before the broadcast
\* address, and is never longer than the bound: no subtraction wraps
\* (poolRange, app/gateway.go:365-370).
THEOREM RangeLiesInside ==
    ASSUME NEW word \in Nat, NEW base \in Nat, NEW size \in Nat,
           size >= 16, base + size <= word, NEW r \in PoolRange(word, base, size)
    PROVE  /\ base + 10 = r.first /\ r.first <= r.last /\ r.last <= base + size - 2
           /\ r.last - r.first < MaxPool
<1> DEFINE first == base + 10  last == base + size - 2
<1>1. first \in Nat /\ last \in Nat /\ first < word /\ last < word
  OBVIOUS
<1>2. first % word = first /\ last % word = last
  BY <1>1, NoWrap
<1>3. last - first + 1 \in Nat /\ last - first + 1 < word
  OBVIOUS
<1>4. (last - first + 1) % word = last - first + 1
  BY <1>3, NoWrap
<1> DEFINE end == IF last - first + 1 > MaxPool THEN (first + MaxPool - 1) % word ELSE last
<1>5. r.first = first /\ r.last = end
  BY <1>2, <1>4 DEF PoolRange
<1>6. CASE last - first + 1 > MaxPool
  <2>1. first + MaxPool - 1 \in Nat /\ first + MaxPool - 1 < word
    BY <1>1, <1>6 DEF MaxPool
  <2>2. end = first + MaxPool - 1
    BY <1>6, <2>1, NoWrap
  <2> QED
    BY <1>5, <1>6, <2>2 DEF MaxPool
<1>7. CASE ~(last - first + 1 > MaxPool)
  BY <1>5, <1>7 DEF MaxPool
<1> QED
  BY <1>6, <1>7

\* Of a subnet of eight, which poolRange takes for large enough, ten addresses
\* are set aside: the range ends before it begins, its length wraps, the bound
\* takes that for too long, and the range reaches thousands of addresses beyond
\* the subnet.  NewPool is what refuses it (dhcp/pool.go:244).
THEOREM RangeOfEightLiesOutside ==
    ASSUME NEW word \in Nat, NEW base \in Nat, base + 10 + MaxPool <= word,
           NEW r \in PoolRange(word, base, 8)
    PROVE  r.first >= base + 8 /\ r.last = base + 9 + MaxPool
<1> DEFINE first == base + 10  last == base + 6
<1>0. MaxPool = 4096
  BY DEF MaxPool
<1>1. first % word = first /\ last % word = last
  BY <1>0, NoWrap
<1>2. last - first + 1 = -3 /\ (-3) % word = word - 3
  BY <1>0, WrapsBelow
<1>3. word - 3 > MaxPool
  BY <1>0
<1>4. (first + MaxPool - 1) % word = first + MaxPool - 1
  BY <1>0, NoWrap
<1>5. base + 8 - 2 = last
  OBVIOUS
<1>6. r.first = first /\ r.last = (first + MaxPool - 1) % word
  <2> DEFINE f == (base + 10) % word  l == (base + 8 - 2) % word
  <2>1. f = first /\ l = last
    BY <1>1, <1>5
  <2>2. l - f + 1 = -3
    BY <1>2, <2>1
  <2>3. (l - f + 1) % word > MaxPool
    BY <1>2, <1>3, <2>2
  <2>4. r = [first |-> f, last |-> IF (l - f + 1) % word > MaxPool
                                   THEN (f + MaxPool - 1) % word ELSE l]
    BY DEF PoolRange
  <2> HIDE DEF f, l
  <2> QED
    BY <2>1, <2>3, <2>4
<1> QED
  BY <1>0, <1>4, <1>6

-----------------------------------------------------------------------------
(* The interfaces. *)

IfaceList == Seq([name : STRING, kind : STRING, ap : BOOLEAN, up : BOOLEAN, route : BOOLEAN])

\* At most one interface is the first of any.
LEMMA EarliestOne ==
    ASSUME NEW S \in SUBSET Nat, NEW i \in Earliest(S), NEW j \in Earliest(S)
    PROVE  i = j /\ i \in S
BY DEF Earliest

\* The choice of the uplink is a choice: of whatever list, at most one interface
\* is taken, and it is up.
THEOREM UplinkIsOne ==
    ASSUME NEW ifaces \in IfaceList, NEW preferred,
           NEW i \in SelectUplink(ifaces, preferred), NEW j \in SelectUplink(ifaces, preferred)
    PROVE  i = j /\ i \in DOMAIN ifaces /\ ifaces[i].up
<1>0. DOMAIN ifaces \subseteq Nat
  BY DEF IfaceList
<1>1. CASE preferred # None
  <2> DEFINE S == {k \in DOMAIN ifaces : ifaces[k].name = preferred}
  <2>1. S \subseteq Nat /\ i \in Earliest(S) /\ j \in Earliest(S) /\ ifaces[i].up
    BY <1>0, <1>1 DEF SelectUplink
  <2>2. i = j /\ i \in S
    BY <2>1, EarliestOne
  <2> QED
    BY <2>1, <2>2
<1>2. CASE preferred = None
  <2> DEFINE S == {k \in DOMAIN ifaces :
                     ifaces[k].route /\ ifaces[k].up /\ ifaces[k].kind # "loopback"}
  <2>1. S \subseteq Nat /\ i \in Earliest(S) /\ j \in Earliest(S)
    BY <1>0, <1>2 DEF SelectUplink
  <2>2. i = j /\ i \in S
    BY <2>1, EarliestOne
  <2> QED
    BY <2>1, <2>2
<1> QED
  BY <1>1, <1>2

\* A hotspot whose interface nobody has named is never put on the interface that
\* carries the internet connection, which it would cut: SelectAPInterface is
\* asked after the uplink is known (linux_session.go:245-265).
THEOREM UplinkIsSpared ==
    ASSUME NEW m, m.ifaces \in IfaceList, NEW c, \A h \in c.hotspot : h.iface = None,
           NEW p \in LinuxInterfaces(m, c)
    PROVE  /\ m.ifaces[p.ap].name # m.ifaces[p.uplink].name
           /\ m.ifaces[p.ap].ap /\ m.ifaces[p.uplink].up
<1>1. PICK h \in c.hotspot :
        p.ap \in SelectAPInterface(m.ifaces, None, m.ifaces[p.uplink].name)
  BY DEF LinuxInterfaces
<1> DEFINE S == {k \in DOMAIN m.ifaces :
                   m.ifaces[k].ap /\ m.ifaces[k].name # m.ifaces[p.uplink].name}
<1>2. p.ap \in S
  <2>1. p.ap \in Earliest(S) /\ S \subseteq Nat
    BY <1>1 DEF SelectAPInterface, IfaceList
  <2> QED
    BY <2>1, EarliestOne
<1>3. p.uplink \in SelectUplink(m.ifaces, c.uplink)
  BY DEF LinuxInterfaces
<1> QED
  BY <1>2, <1>3, UplinkIsOne

-----------------------------------------------------------------------------
(* What the capabilities promise. *)

Platforms(m) == {LinuxCapabilities(m), WindowsCapabilities(m), UnsupportedCapabilities}

\* Requirements of managed sharing.
LEMMA ManagedNeeds ==
    ASSUME NEW c, c.sharing = "managed"
    PROVE  /\ {"share-uplink", "own-dhcp"} \subseteq Required(c)
           /\ c.hotspot = {} /\ c.ipv6 = "allow" => Required(c) = {"share-uplink", "own-dhcp"}
BY DEF Required

\* What each platform has for it.
LEMMA SharingListed ==
    ASSUME NEW m
    PROVE  /\ "managed" \in LinuxCapabilities(m).sharing <=>
                 {"share-uplink", "own-dhcp"} \subseteq LinuxCapabilities(m).have
           /\ "managed" \in WindowsCapabilities(m).sharing <=>
                 {"share-uplink", "own-dhcp"} \subseteq WindowsCapabilities(m).have
           /\ "platform" \in WindowsCapabilities(m).sharing <=>
                 "access-point" \in WindowsCapabilities(m).have
           /\ "none" \in LinuxCapabilities(m).sharing
           /\ "none" \in WindowsCapabilities(m).sharing
           /\ UnsupportedCapabilities.sharing = {"none"} /\ UnsupportedCapabilities.have = {}
<1>1. /\ "managed" \in LinuxCapabilities(m).sharing <=>
           {"share-uplink", "own-dhcp"} \subseteq LinuxCapabilities(m).have
      /\ "none" \in LinuxCapabilities(m).sharing
  BY DEF LinuxCapabilities
<1>2. CASE m.elevated
  BY <1>1, <1>2 DEF WindowsCapabilities, UnsupportedCapabilities
<1>3. CASE ~m.elevated
  BY <1>1, <1>3 DEF WindowsCapabilities, UnsupportedCapabilities
<1> QED
  BY <1>2, <1>3

\* A model of sharing that a machine does not offer is never brought up: what is
\* accepted is in the list a person is given to choose from, on Linux after its
\* own refusals, elsewhere by the capabilities alone (Capabilities.Sharing).
THEOREM AcceptedIsOffered ==
    ASSUME NEW m, NEW c, c.sharing \in Models
    PROVE  /\ LinuxAccepts(m, c) => c.sharing \in LinuxCapabilities(m).sharing
           /\ Satisfied(WindowsCapabilities(m).have, c)
                 => c.sharing \in WindowsCapabilities(m).sharing
           /\ Satisfied(UnsupportedCapabilities.have, c)
                 => c.sharing \in UnsupportedCapabilities.sharing
<1>1. CASE c.sharing = "none"
  BY <1>1, SharingListed
<1>2. CASE c.sharing = "platform"
  <2>1. Required(c) = {"access-point"} /\ c.sharing # "managed"
    BY <1>2 DEF Required
  <2> QED
    BY <1>2, <2>1, SharingListed DEF Satisfied, Missing, LinuxAccepts
<1>3. CASE c.sharing = "managed"
  BY <1>3, ManagedNeeds, SharingListed DEF Satisfied, Missing, LinuxAccepts
<1> QED
  BY <1>1, <1>2, <1>3 DEF Models

\* And managed sharing that is offered is not refused for a lack of capabilities,
\* unless IPv6 is to be blocked or a hotspot of its own is asked for.
THEOREM OfferedIsPossible ==
    ASSUME NEW m, NEW caps \in Platforms(m), NEW c,
           c.sharing = "managed", c.sharing \in caps.sharing,
           c.ipv6 = "allow", c.hotspot = {}
    PROVE  Satisfied(caps.have, c)
BY ManagedNeeds, SharingListed DEF Platforms, Satisfied, Missing

\* Whatever is missing has a reason, on Linux and where nothing is implemented,
\* and only what is missing can be done something about.
THEOREM ReasonsComplete ==
    ASSUME NEW m, NEW caps \in {LinuxCapabilities(m), UnsupportedCapabilities}
    PROVE  caps.reasons = Caps \ caps.have /\ caps.fixable \subseteq caps.reasons
<1>1. CASE caps = UnsupportedCapabilities
  BY <1>1 DEF UnsupportedCapabilities
<1>2. CASE caps = LinuxCapabilities(m)
  <2> DEFINE hosts == m.hostapd /\ m.listed /\ SelectAPInterface(m.ifaces, None, None) # {}
             ruled == {"share-uplink", "dns-redirect", "dns-enforce", "block-device",
                       "ipv6-control"}
  <2>1. /\ caps.have = {"own-dhcp"} \cup (IF m.nft THEN ruled ELSE {})
                       \cup {x \in {"access-point"} : hosts}
        /\ caps.reasons = (IF m.nft THEN {} ELSE ruled) \cup {"client-list"}
                          \cup {x \in {"access-point"} : ~hosts}
        /\ caps.fixable = (IF m.nft THEN {} ELSE ruled)
                          \cup {x \in {"access-point"} : ~hosts /\ (m.hostapd => m.listed)}
    BY <1>2 DEF LinuxCapabilities
  <2> HIDE DEF hosts
  <2>2. caps.reasons = Caps \ caps.have
    <3>1. CASE m.nft
      BY <2>1, <3>1 DEF Caps
    <3>2. CASE ~m.nft
      BY <2>1, <3>2 DEF Caps
    <3> QED
      BY <3>1, <3>2
  <2> QED
    BY <2>1, <2>2
<1> QED
  BY <1>1, <1>2

=============================================================================
