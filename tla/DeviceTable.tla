---------------------------- MODULE DeviceTable ----------------------------
(***************************************************************************)
(* The device table (internal/device/device.go): which device has an       *)
(* address, and which rules apply to it; with the file the application     *)
(* keeps it in (internal/app/app.go, saveDevices and loadDevices).         *)
(*                                                                         *)
(* Every method holds the lock from its first read to its last write, so   *)
(* each is one action, but for Merge and Restore: what they do to their    *)
(* addresses they do in a loop, and each turn is an action here, with the  *)
(* lock held in between (job).  Identify takes no lock and reads index.    *)
(*                                                                         *)
(* What a person decides about a device (its name, a profile, a pause) is  *)
(* in its record's set of decisions.  LastSeen only settles which of the   *)
(* undecided records is evicted and how often a known device is reported   *)
(* as seen: here any may be, and at any time.  A record entered by hand is  *)
(* treated like one that DHCP has identified.  Host name and hardware      *)
(* address decide nothing.  Identifiers are random in the code and         *)
(* consecutive here.                                                       *)
(***************************************************************************)
EXTENDS Naturals, Sequences, FiniteSets

CONSTANTS
    Ids,          \* identifiers of records; a bound on those there is a trace of at once
    NoId,
    Addrs,        \* IP addresses
    NoAddr,       \* the zero netip.Addr
    Keys,         \* DHCP client keys
    TextKeys,     \* the keys whose octets are UTF-8
    NoKey,        \* no hardware address given
    Decisions,    \* what a person can decide: Name, a profile, a pause
    Name,
    MaxDevices, MaxAddrs, QueueLength,   \* MaxDevices, maxAddrs, ObserveQueue
    MaxUnsaved    \* bound on the changes that wait for one save

ASSUME TableAssumption ==
    /\ NoId \notin Ids /\ NoAddr \notin Addrs /\ NoKey \notin Keys /\ TextKeys \subseteq Keys
    /\ Name \in Decisions
    /\ {MaxDevices, MaxAddrs, QueueLength, MaxUnsaved} \subseteq Nat \ {0}

Slots == Addrs \cup {NoAddr}

VARIABLES
    table,     \* the maps devices, byAddr and byKey
    index,     \* the published index
    queue,     \* observations that wait for the learner
    job,       \* the loop that holds the lock, if any
    file,      \* what devices.json holds
    unsaved,   \* the changes since the last save
    holds,     \* auxiliary: the address each client has a lease on, as far as the table was told
    joint      \* auxiliary: the records others were merged into, or read from the file

auxiliary == <<holds, joint>>
vars == <<table, index, queue, job, file, unsaved, auxiliary>>

Sources == {"observed", "identified"}
Device == [decided : SUBSET Decisions, source : Sources, addrs : Seq(Slots)]
Free == [op |-> "free"]

\* A function from part of S to T.
IsPartial(f, S, T) == DOMAIN f \subseteq S /\ f \in [DOMAIN f -> T]

IsTable(t) ==
    /\ t = [devices |-> t.devices, byAddr |-> t.byAddr, byKey |-> t.byKey]
    /\ IsPartial(t.devices, Ids, Device)
    /\ IsPartial(t.byAddr, Slots, Ids)
    /\ IsPartial(t.byKey, Keys, Ids)

IsFile(f) ==
    /\ f = [devices |-> f.devices, byKey |-> f.byKey, holds |-> f.holds]
    /\ IsPartial(f.devices, Ids, Device)
    /\ IsPartial(f.byKey, Keys, Ids)
    /\ IsPartial(f.holds, Keys, Addrs)

TypeOK ==
    /\ IsTable(table) /\ IsFile(file)
    /\ IsPartial(index, Slots, Ids)
    /\ queue \in Seq(Addrs) /\ Len(queue) <= QueueLength
    /\ \/ job = Free
       \/ job \in [op : {"merge"}, into : Ids, from : Ids, i : Nat, n : Nat, had : SUBSET Slots]
       \/ job \in [op : {"restore"}, todo : SUBSET Ids, id : Ids \cup {NoId}, i : Nat]
    /\ unsaved \in 0..MaxUnsaved
    /\ IsPartial(holds, Keys, Addrs)
    /\ joint \subseteq Ids

Empty == [x \in {} |-> x]
NoTable == [devices |-> Empty, byAddr |-> Empty, byKey |-> Empty]

Init ==
    /\ table = NoTable /\ index = Empty /\ queue = <<>> /\ job = Free
    /\ file = [devices |-> Empty, byKey |-> Empty, holds |-> Empty]
    /\ unsaved = 0
    /\ holds = Empty /\ joint = {}

-----------------------------------------------------------------------------
(* Operations on the maps. *)

Only(f, S) == [x \in DOMAIN f \cap S |-> f[x]]
First(s, n) == SubSeq(s, 1, IF Len(s) < n THEN Len(s) ELSE n)
Set(f, x, y) == [z \in DOMAIN f \cup {x} |-> IF z = x THEN y ELSE f[z]]

Listed(s, a) == \E i \in 1..Len(s) : s[i] = a

\* A list of addresses, in which none is twice, without one of them.
Without(s, a) ==
    IF Listed(s, a)
    THEN LET i == CHOOSE i \in 1..Len(s) : s[i] = a
         IN  [j \in 1..(Len(s) - 1) |-> IF j < i THEN s[j] ELSE s[j + 1]]
    ELSE s

\* publishLocked; the rules are read from the record, by its identifier.
Published(t) == Only(t.byAddr, {a \in DOMAIN t.byAddr : t.byAddr[a] \in DOMAIN t.devices})

Removed(t, d) ==
    [devices |-> Only(t.devices, Ids \ {d}),
     byAddr |-> Only(t.byAddr, {a \in DOMAIN t.byAddr : t.byAddr[a] # d}),
     byKey |-> Only(t.byKey, {k \in DOMAIN t.byKey : t.byKey[k] # d})]

\* Faulty variant of Attached: the record that had the address keeps it.
NotTaken(t, d, a) ==
    LET list == <<a>> \o Without(t.devices[d].addrs, a)
        gone == {list[i] : i \in (MaxAddrs + 1)..Len(list)}
        pointed == Set(t.byAddr, a, d)
    IN  [devices |-> [t.devices EXCEPT ![d].addrs = First(list, MaxAddrs)],
         byAddr |-> Only(pointed, {x \in DOMAIN pointed : ~(x \in gone /\ pointed[x] = d)}),
         byKey |-> t.byKey]

\* attachAddrLocked: the address is taken from whoever had it and comes first
\* in the list; what no longer fits leaves list and map.
Attached(t, d, a) ==
    LET taken == [e \in DOMAIN t.devices |->
                    IF e # d /\ a \in DOMAIN t.byAddr /\ t.byAddr[a] = e
                    THEN [t.devices[e] EXCEPT !.addrs = Without(@, a)]
                    ELSE t.devices[e]]
        list == <<a>> \o Without(t.devices[d].addrs, a)
        gone == {list[i] : i \in (MaxAddrs + 1)..Len(list)}
        pointed == Set(t.byAddr, a, d)
    IN  [devices |-> [taken EXCEPT ![d].addrs = First(list, MaxAddrs)],
         byAddr |-> Only(pointed, {x \in DOMAIN pointed : ~(x \in gone /\ pointed[x] = d)}),
         byKey |-> t.byKey]

\* Faulty variant of Victims: anything may go.
AnyVictim == DOMAIN table.devices

\* evictLocked's choice: a record without a person's decision.
Victims == {d \in DOMAIN table.devices : table.devices[d].decided = {}}

\* The table with room for one more record; none if everything is customised.
Roomy ==
    IF Cardinality(DOMAIN table.devices) < MaxDevices THEN {table}
    ELSE {Removed(table, d) : d \in Victims}

\* An identifier that nothing refers to any more, or yet.
Unused == Ids \ (DOMAIN table.devices \cup DOMAIN file.devices
                   \cup {table.byAddr[a] : a \in DOMAIN table.byAddr})

New(d) == d \in Unused /\ joint' = joint \ {d}

Created(t, d, src) ==
    [t EXCEPT !.devices = Set(@, d, [decided |-> {}, source |-> src, addrs |-> <<>>])]

\* The end of every method that changes something: publish, unlock, notify.
Publish(t) ==
    /\ table' = t
    /\ index' = Published(t)
    /\ unsaved < MaxUnsaved /\ unsaved' = unsaved + 1

-----------------------------------------------------------------------------
(* Queries, and the learner. *)

\* Faulty variant of Identify: the send does not look whether there is room.
NoRoomAsked(a) ==
    /\ job.op # "restore"
    /\ queue' = Append(queue, a)
    /\ UNCHANGED <<table, index, job, file, unsaved, auxiliary>>

\* Identify, for an address the index does not have or has not seen lately; any
\* other query changes nothing, and neither does one that finds the queue full.
Identify(a) ==
    /\ job.op # "restore"
    /\ Len(queue) < QueueLength
    /\ queue' = Append(queue, a)
    /\ UNCHANGED <<table, index, job, file, unsaved, auxiliary>>

Known == Head(queue) \in DOMAIN table.byAddr

\* applyObservation of an address that has a record.
LearnSeen ==
    /\ job = Free /\ queue # <<>> /\ Known
    /\ queue' = Tail(queue)
    /\ \/ table.byAddr[Head(queue)] \in DOMAIN table.devices /\ Publish(table)
       \/ UNCHANGED <<table, index, unsaved>>
    /\ UNCHANGED <<job, file, auxiliary>>

\* ... of one that has none.
LearnStranger(d) ==
    /\ job = Free /\ queue # <<>> /\ ~Known
    /\ New(d)
    /\ queue' = Tail(queue)
    /\ \E t \in Roomy : Publish(Attached(Created(t, d, "observed"), d, Head(queue)))
    /\ UNCHANGED <<job, file, holds>>

LearnRefused ==
    /\ job = Free /\ queue # <<>> /\ ~Known
    /\ Roomy = {}
    /\ queue' = Tail(queue)
    /\ UNCHANGED <<table, index, job, file, unsaved, auxiliary>>

-----------------------------------------------------------------------------
(* Leases. *)

Has(k, d) == k \in DOMAIN table.byKey /\ table.byKey[k] = d

\* Whoever had the address, or shared the record, is no longer known to have a
\* lease; k is.
Holding(k, d, a) ==
    Set(Only(holds, {j \in DOMAIN holds : holds[j] # a /\ ~Has(j, d)}), k, a)

\* The last part of ObserveLease: record d is that of client k, at a.
Bound(t, k, d, a) ==
    Attached([t EXCEPT !.devices[d].source = "identified", !.byKey = Set(@, k, d)], d, a)

HasRecord(k) == k \in DOMAIN table.byKey /\ table.byKey[k] \in DOMAIN table.devices

\* Faulty variant of Adoptable: any record at the address will do.
AnyAdoptable(a) == a \in DOMAIN table.byAddr /\ table.byAddr[a] \in DOMAIN table.devices

\* Whether the record at an address may be adopted by a client that has none.
Adoptable(a) ==
    /\ a \in DOMAIN table.byAddr /\ table.byAddr[a] \in DOMAIN table.devices
    /\ table.devices[table.byAddr[a]].source = "observed"

\* The record of the client itself, or else one to adopt.
RecordFor(k, a) ==
    IF HasRecord(k) THEN table.byKey[k] ELSE IF Adoptable(a) THEN table.byAddr[a] ELSE NoId

ObserveLease(k, a) ==
    /\ job = Free
    /\ LET d == RecordFor(k, a)
       IN  \/ /\ d # NoId
              /\ Publish(Bound(table, k, d, a))
              /\ holds' = Holding(k, d, a)
              /\ UNCHANGED joint
           \/ /\ d = NoId
              /\ \E new \in Ids, t \in Roomy :
                    /\ New(new)
                    /\ Publish(Bound(Created(t, new, "identified"), k, new, a))
                    /\ holds' = Holding(k, new, a)
           \/ /\ d = NoId /\ Roomy = {}
              /\ holds' = Holding(k, NoId, a)
              /\ UNCHANGED <<table, index, unsaved, joint>>
    /\ UNCHANGED <<queue, job, file>>

-----------------------------------------------------------------------------
(* What a person does. *)

\* Rename, SetProfile and SetPaused; a decision can be taken back.
Decide(d, what, yes) ==
    /\ job = Free /\ d \in DOMAIN table.devices
    /\ Publish([table EXCEPT !.devices[d].decided = IF yes THEN @ \cup {what} ELSE @ \ {what}])
    /\ UNCHANGED <<queue, job, file, auxiliary>>

Forget(d) ==
    /\ job = Free /\ d \in DOMAIN table.devices
    /\ Publish(Removed(table, d))
    /\ UNCHANGED <<queue, job, file, auxiliary>>

\* Add, of a device with or without a hardware address and with one address.
Add(k, a, d, named) ==
    /\ job = Free /\ New(d)
    /\ \E t \in Roomy :
          LET made == Created(t, d, "identified")
              keyed == [made EXCEPT !.devices[d].decided = IF named THEN {Name} ELSE {},
                                    !.byKey = IF k = NoKey THEN @ ELSE Set(@, k, d)]
          IN  Publish(Attached(keyed, d, a))
    /\ holds' = Only(holds, {j \in DOMAIN holds : j # k /\ holds[j] # a})
    /\ UNCHANGED <<queue, job, file>>

\* Merge up to its loop over the addresses of the record that goes.
MergeBegins(into, from) ==
    /\ job = Free /\ {into, from} \subseteq DOMAIN table.devices /\ into # from
    /\ unsaved < MaxUnsaved
    /\ LET s == table.devices[from]
       IN  /\ table' = [table EXCEPT
                  !.byKey = [k \in DOMAIN @ |-> IF @[k] = from THEN into ELSE @[k]]]
           /\ job' = [op |-> "merge", into |-> into, from |-> from, i |-> 1, n |-> Len(s.addrs),
                      had |-> {s.addrs[i] : i \in 1..Len(s.addrs)}]
           /\ holds' = Only(holds, {k \in DOMAIN holds : ~Has(k, into) /\ ~Has(k, from)})
    /\ joint' = joint \cup {into}
    /\ UNCHANGED <<index, queue, file, unsaved>>

\* The loop runs over the slice as it was, and attachAddrLocked deletes from
\* the same array: what is left moves down and the end is filled with zeroes.
MergeMoves ==
    /\ job.op = "merge" /\ job.i <= job.n
    /\ LET s == table.devices[job.from].addrs
       IN  table' = Attached(table, job.into, IF job.i <= Len(s) THEN s[job.i] ELSE NoAddr)
    /\ job' = [job EXCEPT !.i = @ + 1]
    /\ UNCHANGED <<index, queue, file, unsaved, auxiliary>>

MergeEnds ==
    /\ job.op = "merge" /\ job.i > job.n
    /\ Publish([table EXCEPT !.devices = Only(@, Ids \ {job.from})])
    /\ job' = Free
    /\ UNCHANGED <<queue, file, auxiliary>>

-----------------------------------------------------------------------------
(* The file. *)

\* saveDevices.  Source is not written, and a key that is no text comes back
\* as another one, which no client has.
Save ==
    /\ job = Free /\ unsaved > 0
    /\ file' = [devices |-> [d \in DOMAIN table.devices |->
                                [table.devices[d] EXCEPT !.source = "observed"]],
                byKey |-> Only(table.byKey, TextKeys),
                holds |-> holds]
    /\ unsaved' = 0
    /\ UNCHANGED <<table, index, queue, job, auxiliary>>

\* The process ends, at any point, and the next one begins to load the file.
Restart ==
    /\ table' = NoTable /\ index' = Empty /\ queue' = <<>> /\ unsaved' = 0
    /\ holds' = Empty
    /\ job' = [op |-> "restore", todo |-> DOMAIN file.devices, id |-> NoId, i |-> 1]
    /\ UNCHANGED <<file, joint>>

\* Restore goes through the devices in the order of their identifiers, which
\* are random ...
Loaded == job.id # NoId => job.i > Len(file.devices[job.id].addrs)

RestoreDevice(d) ==
    /\ job.op = "restore" /\ Loaded /\ d \in job.todo
    /\ Cardinality(DOMAIN table.devices) < MaxDevices
    /\ table' = [table EXCEPT !.devices = Set(@, d, [file.devices[d] EXCEPT !.addrs = <<>>])]
    /\ job' = [job EXCEPT !.todo = @ \ {d}, !.id = d, !.i = 1]
    /\ UNCHANGED <<index, queue, file, unsaved, auxiliary>>

\* Faulty variant of RestoreAddr: the addresses are left to be learned again.
AddrForgotten ==
    /\ job.op = "restore" /\ ~Loaded
    /\ job' = [job EXCEPT !.i = @ + 1]
    /\ UNCHANGED <<table, index, queue, file, unsaved, auxiliary>>

\* ... and attaches the addresses of each in turn.
RestoreAddr ==
    /\ job.op = "restore" /\ ~Loaded
    /\ LET a == file.devices[job.id].addrs[job.i]
       IN  table' = IF a = NoAddr THEN table ELSE Attached(table, job.id, a)
    /\ job' = [job EXCEPT !.i = @ + 1]
    /\ UNCHANGED <<index, queue, file, unsaved, auxiliary>>

RestoreEnds ==
    /\ job.op = "restore" /\ Loaded
    /\ job.todo = {} \/ Cardinality(DOMAIN table.devices) >= MaxDevices
    /\ Publish([table EXCEPT !.byKey =
                  Only(file.byKey, {k \in DOMAIN file.byKey : file.byKey[k] \in DOMAIN table.devices})])
    /\ job' = Free
    /\ holds' = file.holds
    /\ joint' = joint \cup DOMAIN table.devices
    /\ UNCHANGED <<queue, file>>

-----------------------------------------------------------------------------
Next ==
    \/ \E a \in Addrs : Identify(a)
    \/ LearnSeen \/ LearnRefused
    \/ \E k \in Keys, a \in Addrs : ObserveLease(k, a)
    \/ \E d \in Ids :
          \/ \E what \in Decisions, yes \in BOOLEAN : Decide(d, what, yes)
          \/ LearnStranger(d) \/ Forget(d)
          \/ \E k \in Keys \cup {NoKey}, a \in Addrs, named \in BOOLEAN : Add(k, a, d, named)
          \/ \E e \in Ids : MergeBegins(d, e)
          \/ RestoreDevice(d)
    \/ MergeMoves \/ MergeEnds
    \/ Save \/ Restart \/ RestoreAddr \/ RestoreEnds

Spec == Init /\ [][Next]_vars

-----------------------------------------------------------------------------
(* Properties. *)

NoneTwice(s) == \A i, j \in 1..Len(s) : s[i] = s[j] => i = j

Mirrors(t) ==
    /\ \A d \in DOMAIN t.devices :
          Len(t.devices[d].addrs) <= MaxAddrs /\ NoneTwice(t.devices[d].addrs)
    /\ \A d \in DOMAIN t.devices, a \in Slots :
          Listed(t.devices[d].addrs, a) <=> a \in DOMAIN t.byAddr /\ t.byAddr[a] = d
    /\ \A k \in DOMAIN t.byKey : t.byKey[k] \in DOMAIN t.devices

\* The lists in the records and the map from addresses mirror each other: an
\* address is in the list of the record the map has for it and in no other,
\* once, and no key leads to a record that is gone.
Mirrored == Mirrors(table)

\* The rules of a client's record apply to the address it has a lease on: what
\* queries are identified by has the client's own record for that address,
\* whatever other clients, addresses and records there were in between.
RulesReachTheHolder ==
    job = Free =>
        \A k \in DOMAIN holds \cap DOMAIN table.byKey :
            /\ holds[k] \in DOMAIN index
            /\ index[holds[k]] = table.byKey[k]

\* Two clients have one record only where a person merged or the record is from
\* the file.
OwnRecord ==
    \A j, k \in DOMAIN table.byKey :
        j # k /\ table.byKey[j] = table.byKey[k] => table.byKey[k] \in joint

\* A record with a person's decision goes away only by that person's hand, or
\* with the process, and the decision changes only so.
DecisionsKept ==
    [][\A d \in DOMAIN table.devices :
          table.devices[d].decided # {} =>
              \/ /\ d \in DOMAIN table'.devices
                 /\ table'.devices[d].decided = table.devices[d].decided
              \/ Forget(d) \/ (MergeEnds /\ job.from = d) \/ Restart
              \/ \E what \in Decisions, yes \in BOOLEAN : Decide(d, what, yes)]_vars

-----------------------------------------------------------------------------
(* What the source says of the table and the table does not do. *)

\* device_test.go:342-346: after a merge the addresses of both records resolve
\* to the merged device; those that do not fit in the list are excused.
MergeMovesAddresses ==
    [][MergeEnds =>
          \A a \in job.had :
              \/ a \in DOMAIN index' /\ index'[a] = job.into
              \/ Len(table'.devices[job.into].addrs) = MaxAddrs]_vars

=============================================================================
