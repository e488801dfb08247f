# GatewayDNS Desktop: specifications

TLA+ modules of the parts of GatewayDNS Desktop whose mistakes a test hardly
reaches: the DHCP server with its pool, its messages and the clients it serves;
the changes a gateway session makes to a Linux or a Windows machine and undoes;
what is decided before a session starts; the application's starting and stopping
of it all; and the table of devices with its file. TLC checks the modules on
small instances, and the TLA+ proof system proves theorems about them for every
value of the constants. `PROJECT.json` lists the components, the runs, the
mutants that show each property can fail, the lines every definition translates,
the hazards and the theorems.

## The system

GatewayDNS Desktop turns a computer into a filtering gateway: it shares the
connection, hands out addresses, and answers DNS with rules for each device.

| Component | State | Operations | What makes it correct |
| --- | --- | --- | --- |
| Address pool (`dhcp/pool.go`) | entries by address, index from client key to entry, clock | Offer, Commit, Release, Decline, Free, Lookup, LookupAddr, Leases, Stats | one client to an address, reservations kept, terms end, declined addresses held back |
| DHCP server (`dhcp/server.go`) | pool, sockets, `closed`, read loops | Handle and its handlers, Serve, Close, Shutdown | what a client was told stands in the pool and in the device table, answers reach who waits for them, a running lease is not refused, the loop ends |
| Messages (`dhcp/message.go`, `option.go`) | none | Unpack, Pack, Reply, Options.Get and Set, RequestKind | every option that arrived whole is read as it was meant, an answer can be read again |
| Device table (`device/device.go`) | records, maps from address and key to record, published index, queue of observations | Identify, ObserveLease, Rename, SetProfile, SetPaused, Merge, Forget, Snapshot, Restore | an address has one device and its rules, nobody's rules go to another device |
| Linux session (`gateway/linux_session.go`, `nftables`) | kernel: forwarding, address, ruleset, hostapd; journal under `/run`; the process | Reconcile, Start (bringUp), SetDNSCapture, Block, Close (tearDown) | a machine is left as it was found, whatever fails or dies |
| Windows session (`gateway/windows_session.go`, `winnet`) | forwarding of each interface, address, translation, hotspot; journal under ProgramData; the process and its rights | Reconcile, Start (bringUp), Close (tearDown) | the file alone suffices to put the machine back, a session that runs is whole |
| Application (`app/gateway.go`, `app/app.go`) | running session, DHCP server and socket, stop channel, watcher goroutines | StartGateway, StopGateway, BlockDevice, watchResolver, Close | everything started is stopped once, nothing waits for ever, capture comes off when the resolver dies |
| Rules of a gateway (`gateway/gateway.go`, Capabilities of the platforms, `app/gateway.go`) | none | gatewayConfig, Validate, Required, CheckCapabilities, SelectUplink, SelectAPInterface, poolRange | what is refused is refused before the machine is touched, the range lies in the subnet |
| Device file (`app/app.go`) | `devices.json`, its temporary file, snapshots on their way | New, loadDevices, saveDevices, Close | the file is whole at every moment, and holds the table once nobody saves |
| Interface, command (`ui`, `cmd`) | none of their own | HTTP handlers, start-up | they only call the application |

How they interact. An HTTP handler of the interface calls StartGateway or
StopGateway on its own goroutine; nothing serialises them, and Close at the end
of the process may run beside them. StartGateway calls the platform's Start,
which reconciles, records each step in the journal and performs it; then it
starts a DHCP server whose one read loop calls the pool (one lock for every
method) and, on every ACK, the device table's ObserveLease; then it switches DNS
capture on if the resolver answers; then it starts the watcher. The DNS engine
asks the device table's published index about every query.

What is hard: calls that overlap; state read under a lock and used after it;
goroutines that are waited for; deaths between any two of the commands that
change the machine; commands that fail, or fail after taking effect; lazy
expiry; index entries that outlive what they point to; datagrams that are lost,
doubled, late and out of order; an interface that is not the one it was;
one temporary file for all who save.

## Modules

| Module | Models | Extended or instantiated by |
| --- | --- | --- |
| `AddressRegistry` | what a pool of addresses promises: bindings that end exactly when their term does | `DhcpPool` (refinement) |
| `DhcpPool` | every method of `Pool` | `DhcpServer`, `MCDhcpPool`, `DhcpPoolProofs` |
| `DhcpServer` | the server's handlers over the pool, the clients and the network | `MCDhcpServer`, `DhcpServerProofs` |
| `DhcpWire` | messages as octets: options, areas, fragments, replies | `MCDhcpWire`, `DhcpWireProofs` |
| `LinuxSession` | the machine, the journal and the process of a gateway session | `MCLinuxSession`, `LinuxSessionProofs` |
| `GatewayRules` | settings, configurations, capabilities, choice of interfaces, range: operators without state | `WindowsSession` |
| `WindowsSession` | the same as `LinuxSession` on Windows, with the configuration it is started with | `MCWindowsSession`, `WindowsSessionProofs` |
| `AppGateway` | StartGateway, StopGateway, the watcher, the server's read loop | `MCAppGateway`, `AppGatewayProofs` |
| `DeviceTable` | every method of `Table` that changes it, and what its file keeps | `MCDeviceTable`, `DeviceTableProofs` |
| `DeviceFile` | how the table reaches the file: announcements, snapshots, the temporary file, the rename | `MCDeviceFile`, `DeviceFileProofs` |
| `MC*` | values of the constants for TLC | |
| `*Proofs` | inductive invariants, lemmas, theorems | |

### DhcpPool and AddressRegistry

Every method of `Pool` holds the lock throughout, so each is one action. An entry
keeps state, key, end of term and the time it was last free; host name, hardware
address, first and last seen are left out because no decision of the pool reads
them. `byKey` is the index, and the model keeps its stale entries, because Offer
follows them. Offer, Commit and the looking methods sweep first, as the code
does; Release, Decline, Free and LookupAddr do not. `Tick` is the clock. The
client's message is any client with any address, so lost, repeated and reordered
messages need no network here: every order of calls is a behaviour.
`forgotten` is auxiliary: the clients whose index entry a DECLINE deleted, which
is the one event after which the code does not keep its promises.

`AddressRegistry` has no sweep: a binding ends at the tick its term ends. The
mapping in `DhcpPool` shows the registry the entries *as a sweep would leave
them*, so the refinement says that it makes no difference when, or whether,
somebody looks.

### DhcpServer

EXTENDS `DhcpPool`, and adds what reaches it. The read loop handles one datagram
after the other, and handling one makes one call of the pool, so `Handle` is one
action with a disjunct per handler; the one exception is a REQUEST for another
server, which looks up and releases in two calls (`HandleOther`, `DropOffer`),
between which the clock, the administrator and the clients run. `requests` is
what the network may still deliver: a datagram may be delivered at any later time,
at most `MaxDoubles` of them again, or never. `replies` holds the answers to
exchanges that are still going on, since a client ignores the others. `told` is
what OnBound last reported to the device table for an address, which is where
this module and `DeviceTable`'s ObserveLease meet.

The clients are not part of the program and follow RFC 2131 as far as it matters:
they count a lease from the moment they sent the REQUEST, believe in an address
until it has run out, hear broadcasts if they are not behind a relay, and hear
unicast only at an address they have. Where an answer goes is decided by the
datagram: a relay writes its address (`gi`) into what its clients broadcast, and
sees nothing of what they send to a server directly, which is every RELEASE, a
REQUEST that renews in time (RENEWING; REBINDING is broadcast) and an INFORM if
they like. They may give up, restart, refuse an
address, leave, renew, ask another server, or arrive with an address of one
(`Came`).

`crossed` is auxiliary: clients whose lease a stray message has undone. `Undone`
says exactly which messages can: the client's own RELEASE, DECLINE or DISCOVER
that arrives late or twice, and messages of others whose stale index entry points
at the address. The properties hold for everybody else, and `OneHolder`, which
leaves nobody out, is refuted.

### DhcpWire

The option areas of a request are composed octet by octet, by fragments, pads and
end marks in any order, with data that looks like pads and end marks; one area may
be cut at any octet; Unpack, Reply, Options.Set and Pack follow, and the answer is
read again. `meant` is auxiliary, what the sender composed, and `Meaning` the
reference definition that reading is checked against: RFC 3396's concatenation
over the areas that option 52 names. `Chunk` stands for 255. The fixed header is
left out but for the claimed length of the hardware address, which Unpack accepts
and Pack may refuse.

### LinuxSession

`kernel` is what the program changes on the machine (forwarding, the address,
the nftables table with its capture and blocked sets, hostapd), `journal` the
file under `/run`, `phase`, `steps`, `todo`, `prev`, `session` the process. Every
external command is a step of its own and may fail, with or without having
taken effect where that can be; the process may die between any two, the machine
may reboot, another program may flush the ruleset or clear `/run`. `lost` is
auxiliary: what a failed undo, or somebody who cleared the journal, took out of
the program's sight, and the address of an interface that had it before the
session, once the undo of the address step has taken it away (`TakenAway`: "addr
replace" succeeds on it and nothing records that it was there); the properties say
that nothing *else* is ever lost. The machine may be found with the address or
without it. The
rendering of the ruleset, hostapd's configuration and the choice of interfaces
are left out. Undo of a step in the tear down follows the order of bring-up
backwards (`Rank`).

### GatewayRules and WindowsSession

`GatewayRules` are the pure functions that decide before anything changes. A
function that may refuse is the set of its results, empty when it does; of errors
only the fact is kept. `WindowsSession` is built from them: StartGateway asks for
a configuration, judges it by the capabilities of the moment, and chooses the
uplink from the interfaces of the moment.

`WindowsSession` has the shape of `LinuxSession` and differs in what outlives
what: `journal`, `machine.address`, `machine.forwarding` and the translation
survive a reboot, only the hotspot does not. The steps name the interface they
were taken on (`data`), and the default route may move at any time
(`NetworkMoves`), so that the clean-up of one session may run when another
interface carries it. A process may be launched with or without administrator
rights, a hotspot can be neither started nor stopped without a route, and Windows
has one translation, which may be another program's (`OtherNat`). `lost` is as in
`LinuxSession`; `spoiled` records that something failed or changed since the
start, without which a bring-up that was accepted must succeed.

### AppGateway

A call is split where it takes or leaves the lock, starts or waits for a
goroutine, or calls the platform: StartGateway has eight places where another
goroutine may run, StopGateway six. `gw` is `gatewayState`; `took` is what a
call last read under the lock. The n-th session, its stop channel, its DHCP
server and the watcher that its StartGateway starts are all called n. A watcher
takes one step for the ticker and the reading of the session, one for the
question to the resolver and one for the withdrawal, because session and answer
may be stale by then. Serve's loop reads, handles and ends; Shutdown may run out
of time at any moment. Close of a session is two steps and succeeds: what may
fail in it is `LinuxSession`'s subject. The effect of one platform session on
another's kernel state, when two are up at once, is not modelled.

`overlapped` is auxiliary: a StartGateway has run beside another call. Nothing in
the code or the interface prevents that (the interface leaves both buttons
usable while a call is under way), and most of what one expects of the gateway is
false then, see *Divergences*. Properties that need it say `~overlapped`;
`WatcherTouchesLive` does not.

### DeviceTable

`table` is the three maps, `index` the published one, `queue` the observations on
their way to the learner. Every method is one action, except that Merge and
Restore attach addresses one by one with the lock held (`job`), because what
Merge does to the list it ranges over is the sum of those steps. A query
(`Identify`) may come at any time and find the index of the moment. `Save` and
`Restart` are saveDevices and loadDevices in the next process; what JSON leaves
out (the source of a record, keys that are not text) is left out there. The
process may die at any point, with the last change saved or not.

`holds` is auxiliary: the address each client was last given, forgotten where a
person merges or adds a record of that client. `joint` marks the records that
two clients may share. What a person decides is a set; LastSeen is left out, so
the evicted record is any without decisions.

### DeviceFile

A goroutine that changed the table announces it after the unlock and saves in
place: snapshot, open that truncates, write, rename, each an action of its own,
because other goroutines do the same through the same temporary name. Files are
inodes: a goroutine goes on writing to the inode it opened although somebody has
renamed it. A document is the number of the change it holds and a length; what a
shorter write leaves of a longer document is not whole. Writes and renames may
fail, the process may end anywhere, and New reads what is there and saves it
again. `clean`, `alone` and `failed` are auxiliary and say when saves overlapped
or failed: the properties hold otherwise, and what happens when saves overlap is
in *Divergences*. A crash does not lose what the operating system was given; that
there is no fsync is beyond the model.

## Runs

| Run | Instance | Shows |
| --- | --- | --- |
| `DhcpPool` | 3 clients, 1 address and 1 reservation, terms 2 and 1, clock to 3; 128 000 states | `ReservationHonoured`, `OneLiveAddress`, `TermsBounded`, `LiveBindingEnds`, `QuarantineHeld`, and `RefinesRegistry` |
| `DhcpServer` | 2 clients, one behind a relay with an address of another server and 2 exchanges, one with neither and 1 exchange; 2 addresses, terms 2 and 1, clock to 3, 1 datagram doubled; 3.8 million states | `BeliefBacked`, `BeliefReported`, `GoodStandingKept`, `AnswersArrive` |
| `DhcpWire` | up to 4 fragments, pads and end marks, fragments of at most 2 octets, a hardware address of 6 and of 17; 1.5 million states | `ReadAsMeant`, `AnswerRead` |
| `LinuxSession` | 1 device, 2 failures, 2 deaths or reboots, 1 interference, forwarding on or off and the address there or not beforehand; 125 000 states | `Accounted`, `CleanWhenQuiet`, `ForwardingRemembered`, `CaptureOnlyOnGateway`, `StatusNotBetter`, and `CleanUpEnds` |
| `WindowsSession` | 2 interfaces, 6 choices of a person, 2 answers about the hotspot, 2 failures, 2 deaths or reboots, 1 change from outside; 950 000 states | `Recoverable`, `Whole`, `RefusedUpFront`, and `CleanUpEnds` |
| `AppGateway` | 2 callers, 2 sessions, 1 failing switch; 3.5 million states | `WatcherTouchesLive`, `NothingLeft`, `CaptureWatched`, `SilentBeforeClosed` |
| `AppGatewayEnds` | 2 callers, 1 session, 1 failing switch; 40 000 states | `StopEndsAlone`, `CaptureWithdrawn` |
| `DeviceTable` | 2 clients, one with a key that is no text, 2 addresses, 2 records of 2 addresses, 3 identifiers, 1 observation waiting, 1 change unsaved; 590 000 states | `Mirrored`, `RulesReachTheHolder`, `OwnRecord`, `DecisionsKept` |
| `DeviceFile` | 3 goroutines, 4 changes, documents of alternating length, 2 deaths, 1 fault; 1.4 million states | `FileWhole`, `SavedWhenQuiet` |
| `DhcpServer_OneHolder`, `AppGateway_StopEnds`, `DeviceTable_MergeMovesAddresses` | as above or smaller | each a counterexample to a sentence of the source |

Why the bounds are enough. Pool: what can go wrong between clients needs one
who had an address, one who has it and one with a reservation; an address of the
range is enough for a binding to change hands and the reservation for a client to
move. Terms 2 and 1 and a clock of 3 let an offer lapse, a lease lapse, and a new
binding be made after either. Server: one client with two exchanges has an old and
a new one, so that every message of the first may arrive in the second; being the
relayed one, it gets its lease through the relay and renews it past the relay or
through it. The other client takes what the first one loses; that is what `OneHolder`'s counterexample
needs too. Wire: four items are an option in two fragments with a pad between
them and the overload option that sends the reader to a second area. Sessions: two
failures allow one in a clean-up after one in the session before, two deaths one
in the clean-up after the first; two interfaces are the one the session was on and
the one the route moved to. The Linux machine may have had the address beforehand;
the Windows one had neither the address nor the hotspot (`Init`). Application: two sessions are one to be stopped and
the next to be started over it, two callers every overlap of two calls; liveness
is checked with one session, since a temporal property needs the whole graph at
once. Device table: two clients and two addresses let an address change hands both
ways, two records fill the table, and a list of two overflows with the zero
address of a merge; identifiers are used again when nothing refers to them, so
histories, with any number of restarts, are not bounded. File: three savers are
one that writes, one that renames under it and one that changes the table
meanwhile. The clock, the exchanges, the doubled datagrams, the items of a
message, the failures, deaths, interference, sessions and (unsaved) changes are
the only things bounded, each by a constant named in its guard.

Deadlock is checked in every run but those of `DhcpServer` and `DeviceFile`, where
the clients have no exchange left and the savers no change: there the system
really stops. Symmetry is used in `AppGateway`, `DeviceTable` and `DeviceFile`,
which check no liveness property.

Fairness. `LinuxSession` and `WindowsSession`: weak fairness of the process, which
waits for nobody once a bring-up or a clean-up has begun, each of its commands
being run with a context that ends or killed at its time limit. Death, reboot, the
network and the user are not fair. `AppGateway`: weak fairness of every goroutine
that can go on (the scheduler; the platform's calls and the question to the
resolver have time limits), of the watcher's ticker, and of a read loop that was
told to stop or whose socket is closed. Nobody has to call or to send a message,
the resolver need not recover, and Shutdown need not run out of time.

## Proofs

TLAPS proves, for every value of the constants that satisfies the named
assumptions (`PoolAssumption`, `ServerAssumption`, `GatewayAssumption`,
`TableAssumption`, `SaversAssumption` and its neighbours, `WindowsAssumption` with
`IfacesAssumption` and `BoundsAssumption`, `WireAssumption`, and the Linux session's
bounds):

- `DhcpPoolProofs`: `TypeOK`, `ReservationHonoured`, `OneLiveAddress`,
  `TermsBounded`, and that the pool implements `AddressRegistry`. The
  properties are not inductive, since an index entry may point to an entry that
  is somebody else's. The invariant says what does hold between the two: an
  entry that is live or reserved for a client not forgotten is the one the index
  has for it, and an owner the pool has not forgotten is indexed at its
  reservation. The refinement has one lemma per kind of step; a step that sweeps
  is a stutter of the registry followed by its effect, because the sweep
  commutes with the mapping. The action properties `LiveBindingEnds` and
  `QuarantineHeld` follow from the same invariant: a method writes to the address
  it is for, to the one its client's index entry leads to, and to those whose
  term has run out, and the index leads no other client to an address that is
  live (`OthersLeaveAlone`, `NobodyTouches`).
- `DhcpServerProofs`: `ServerTypeOK`, `BeliefBacked`, `BeliefReported`,
  `GoodStandingKept`, `AnswersArrive`, and that the server implements the pool's
  specification (`ServerUsesPool`), so that every theorem about the pool holds of
  the pool in the server (`ServerKeepsRegistry`). `BeliefBacked` is not inductive:
  a client believes in an address because an ACK reached it, perhaps long after it
  was sent. The invariant therefore begins when the ACK is sent (`Relied`: an ACK
  on its way to a client that waits for it promises an address that stands in the
  pool until the client will stop believing), and follows it through everything
  that may be handled in between. `GoodStandingKept` needs that the messages of an
  exchange have the form the client's phase says (`Sent`), or a stray REQUEST
  could be taken for the renewal; `AnswersArrive` needs the same for the address
  and for the relay in them. It is exact: what is waited for is heard if and only if
  it is not the answer to a renewal past the relay that `PastRelay` names. That a release of an offer never meets a lease is `OnlyAnOffer`.
- `LinuxSessionProofs`: `TypeOK`, `Accounted`, `CleanWhenQuiet`,
  `ForwardingRemembered`, `CaptureOnlyOnGateway`, `StatusNotBetter`, for machines
  that had the session's address before and machines that did not.
  The invariant says that the undos still to do cover everything that differs
  from the machine as it was found and is not lost, phase by phase, that a wrong
  value for forwarding can only come from a restore that failed, and that an
  address that was there beforehand is gone only once an undo has taken it away
  (`AddressKept`). And the safety half of `CleanUpEnds` (`CleanUpAdvances`): some
  undo can always be taken next, each is taken once, whether it works or not, and
  with none left the machine is as it was found but for what was lost.
- `AppGatewayProofs`: `TypeOK` and `WatcherTouchesLive`, with overlapping calls.
  The invariant follows a session from hand to hand (the StartGateway that
  brought it up, the gateway, the StopGateway that took it): it has one owner at
  a time, an owned session is open, and one that a watcher holds is not with a
  StopGateway that has stopped waiting. And, as long as no StartGateway has run
  beside another call, `NothingLeft`, `CaptureWatched` and `SilentBeforeClosed`,
  for any number of callers and of sessions one after another. None of them is
  inductive. The invariant (`SerialInv`) is the order in which one session is
  passed on: one call at most has a session in hand, and only while the gateway
  has none (`OneHand`); its session, stop channel and server belong together
  (`Shapes`); just what somebody has is up (`UpInHand`); a published session has
  a watcher that hears a channel nobody has closed, any other watcher is one a
  StopGateway waits for (`Watching`); the socket is the gateway's or of the call
  that is about to hand it over or to close it (`PortHeld`); and a server is told
  to stop before the network goes (`Silence`). Calls that overlap really break
  this (see *Divergences*), so the theorems say `~overlapped`, as the runs do.
  From the same invariant, the safety half of `StopEndsAlone`
  (`StopsWaitForTheTold`): a StopGateway that waits for the watchers waits for ones
  whose channel is closed, or is another StopGateway's to close next, and none is
  added; one that waits for the read loop has told it to end.
- `WindowsSessionProofs`: `TypeOK`, `Recoverable`, `Whole` and `RefusedUpFront`, for
  any interfaces and settings, and any number of failures, deaths, reboots and
  changes from outside. `Recoverable` asks whether the journal would do, so the
  invariant says why it does, part by part: what differs from how it was found
  is recorded, on the interface it was done to, or lost (`Restorable`). To keep it
  when the journal goes or is overwritten takes `Settled` (a step that is not
  pending any more has left nothing different), and when forwarding is recorded
  anew, `Remembers`: the recorded setting is what was found, or what a clean-up
  that failed left on. `Whole` needs that what was performed is still in force
  (`Performed`), `RefusedUpFront` that what the capabilities promised when the
  configuration was judged holds until the last step (`Promise`), through the
  reconcile in between, which may lose a translation of its own. `TypeOK` depends
  on the same argument, since a step taken with no interface chosen would address
  one without a name (`Synced`). `CleanUpAdvances` says of a clean-up what it says
  on Linux.
  In the same module, theorems about the operators of `GatewayRules`: where the
  range of managed sharing lies, in arithmetic that wraps, for any word, base and
  size (`RangeLiesInside`; for a subnet of eight, `RangeOfEightLiesOutside`); that a
  hotspot is never put on the uplink unless a person names it (`UplinkIsSpared`);
  that what is accepted was offered, and what is offered is accepted but for a
  hotspot or for IPv6 (`AcceptedIsOffered`, `OfferedIsPossible`); that whatever is
  missing on Linux has a reason (`ReasonsComplete`).
- `DeviceTableProofs`: `TypeOK`, `Mirrored`, `OwnRecord`, `DecisionsKept`,
  `RulesReachTheHolder`. Every method changes the lists and the map through
  attachAddrLocked and removeLocked, so the lemmas are about one value of the table,
  whole (`Good`), and what these two make of it. The invariant adds where the loops
  of Merge and Restore stand (`JobOK`): the record they attach to is there, and is
  not the one they read from. `Mirrored` holds for the defective Merge too, since
  what it loses track of it leaves in the map, pointing at a record that is gone.
- `DeviceFileProofs`: `FileWhole` and `SavedWhenQuiet`, for any number of
  goroutines and any lengths of documents. A save that no other overlapped has the
  temporary file to itself (`OwnFile`) and the table in hand unless somebody has
  still to save (`Fresh`). That there is a free inode to open is the pigeonhole
  principle (`FreeInode`).
- `DhcpWireProofs`: `ReadAsMeant` and `AnswerRead`, for every length of a fragment
  (`Chunk`), all data, any number of fragments, pads and end marks, and every cut.
  The invariant (`WireInv`) speaks of octets wherever they stand: what is put
  behind an area that is being written is read next, or never if it has ended
  (`GoesOn`), and each of its cuts is read as the fragments that end before it
  (`Reads`), so that it holds of what is left after a cut too. Both quantify over
  all continuations, and TLC cannot check them; it checks the two properties. What
  reading means is in lemmas about the operators: what is read from a position
  does not depend on what is before it (`Shifted`); a pad is passed over, an end
  mark ends, a whole fragment is read and one cut off is not (`ItemsPad`,
  `ItemsEnd`, `ItemsOption`, `ItemsCut`); the list has the data of an option's
  fragments end to end (`FoldJoins`), over the areas that count (`UnpackIs`);
  fragments of an option are read as that option (`FragmentsAdd`), and a packed
  list as that list (`PackRead`). Each is an induction over the octets, over a list
  or over the fragments. The library's induction theorems take a predicate as an
  operator, which the provers cannot instantiate; a predicate is therefore a set
  here, and `Induction` and `SequenceInduction` follow from the well-foundedness
  of `<` on `Nat`. That the recursive functions of the model and of the community
  modules (`FlattenSeq`, `FoldLeft`) exist, so that their equations may be used, is
  proved in the same way (`FromExists`, `FlatExists`, `TakesExists`).

Checked by TLC only: liveness under fairness (`CleanUpEnds`, `StopEndsAlone`,
`CaptureWithdrawn`), which the prover does not treat. Of the first two, the theorems
give what has to hold in each state for the end to come (`CleanUpAdvances`,
`StopsWaitForTheTold`); that it comes is TLC's. Every other property of the passing
runs is a theorem.

## Divergences

Each of the first three has a run.

- `pool.go:352` A DISCOVER of a client with a lease makes it a short offer; a
  DISCOVER that arrives twice, or late, therefore ends the lease it led to, and
  two clients come to believe in one address, although `server.go:466-469` calls a
  duplicated DISCOVER idempotent (`OneHolder`).
- `gateway.go:166` A StopGateway in the middle of a StartGateway leaves the
  watcher with a nil channel, and the next StopGateway waits for ever
  (`StopEnds`).
- `device.go:629` Merge ranges over the list that attachAddrLocked deletes from:
  every second address stays behind, pointing at a record that is gone, and is
  never learned again; the target gets zero addresses instead
  (`MergeMovesAddresses`).

Others were met while modelling and have no run of their own.

Of the DHCP server:

- A client whose old address went to another client takes it back with a
  DISCOVER, though that client's lease is live (`pool.go:352` against 369-372), and
  a commit of another address frees it in the same way (397).
- A declined address is offered again to a client whose stale index entry points
  at it, and `Decline` deletes the index entry of its client even if that entry
  is the client's reservation, which then may be lost to another (`pool.go:445`
  against 27-34). `QuarantineHeld` and `ReservationHonoured` state what is left.
- After a DECLINE a client may hold two leases (`pool.go:445` against 392-394).
- A client without a host name shows the name of the address's former holder
  (`pool.go:587` against 67).
- A claimed hardware address of more than 16 octets is accepted
  (`message.go:155-161`), and the answer to it then cannot be packed (211-213,
  against 77-79).
- A SELECTING REQUEST that is cut off between options 50 and 54 reads as
  INIT-REBOOT.
- The refusal of a renewal that a relayed client sent to the server directly is
  broadcast on the server's own link (`server.go:404-409`), as RFC 2131 has it,
  and the client does not hear it; the same goes for any answer to it if the client
  asks for broadcasts (389-390). `AnswersArrive` names this as its exception, and
  `GoodStandingKept` says that no lease that is running is refused so.

Of the sessions:

- A restore of forwarding that failed is forgotten with the journal; the next
  session takes the gateway's own value for the original
  (`linux_session.go:638` against 402-404). `ForwardingRemembered` states what is
  left.
- hostapd is started as a daemon and survives the process; Reconcile takes it for
  gone (`linux_session.go:319`). `CleanWhenQuiet` counts it as lost.
- The undo of an address that was recorded and never added is an error and is
  reported as a failure (`linux_session.go:373` against 39-41).
- An address the interface had before the session is taken away with it (419
  against 218-221, while 261-264 invite to name an interface in use). The run and
  the theorems cover such machines, and count the address as lost from then until
  the next reboot: it is one of the exceptions of `Accounted` and `CleanWhenQuiet`.
- Withdrawing a capture that is off is an error and makes the session degraded
  (549); the watcher does so every two failures for as long as the resolver is
  dead (`gateway.go:243-255`).
- A ruleset is loaded over a table that is still there, although
  `nftables.go:132-135` says the table is deleted first. `CleanWhenQuiet` shows
  that Reconcile, run before, sees to it unless its deletion failed.
- On Linux, CheckCapabilities judges the access point with every interface, while
  Start excludes the uplink; platform sharing passes CheckCapabilities and is
  refused after it; managed sharing without a hotspot passes both and fails in
  bringUp (`linux_session.go:261-265` against `gateway.go:499-501`).
- On Windows, a failed or refused undo of the address, the translation or the
  hotspot is not reported: the scripts swallow it, and the journal is cleared.
- On Windows, platform sharing without a hotspot's name passes Validate and
  CheckCapabilities, and bringUp reads the hotspot that is not there
  (`windows_session.go:336-338`); no sharing at all is accepted without any
  capability and brought up as managed sharing is (against `gateway.go:280-288`).
- On Windows, own DHCP that is missing for another program's translation has no
  reason, nor has the list of clients when the hotspot could not be asked
  (`windows_session.go:92-109` against `gateway.go:199-206`: "Reasons explains
  every capability that is NOT in Have"). `ReasonsComplete` holds elsewhere.
- On Windows, the hotspot's own name and passphrase are overwritten and not
  restored, and the journal outlives a reboot while its description speaks of
  `/run` (`linux_session.go:44-46`).

Of the application and the devices:

- The source of a record is not persisted, so after a restart a new client adopts
  the record of whoever had its address before, with its rules (`device.go:391`
  against 149 and 378-385).
- Client keys are octets, and JSON replaces those that are not UTF-8: most
  hardware addresses do not survive the file (`device.go:728` against 436-447 of
  its test). The model drops such keys (`TextKeys`).
- Restore attaches the addresses of a record newest first, each in front of the
  one before, so that the list is oldest first afterwards (`device.go:771`
  against 146) and the newest address is the one a ninth pushes out.
- Two saves at once share the temporary file: one truncates what the other is
  about to rename, so that `devices.json` is empty until the first one writes
  through its handle, and a death in that time starts the next process with an
  empty table; an older snapshot may be renamed last and stay; a file that could
  not be read is saved over (`app.go:501-516`).
- Two StartGateways at once both pass the check (`gateway.go:123`); the second
  overwrites session and channel of the first, which nobody closes any more. A
  StopGateway beside a StartGateway may close the session before capture is
  switched on in it. Close beside a StopGateway returns before the session is
  closed.
- For a subnet of eight addresses `poolRange` computes an end before its start,
  takes the difference for a large one and sets the end 4095 addresses further
  (`gateway.go:364-370`).

## Not modelled, and the plan

Left out because they are pure text or only pass calls on: the rendering of
hostapd's configuration, of the nftables ruleset and of the PowerShell scripts
(what they do to the machine is in the session modules), the JSON of the
interface, the HTTP handlers (their concurrency is in `AppGateway`'s callers), the
shell and its start-up, an unsupported platform beyond what it reports. In an
answer the options that fill adds are configuration; typed options and the host
name are conversions of one value. The settings file is written like the device
file.

Left out although they have behaviour: BlockDevice as a composition of the device
table and a session, two platform sessions up at once on one kernel, and a start
of the engine.

What is left, in this order:

1. BlockDevice over `DeviceTable` and `LinuxSession`: which addresses stay open
   when a block fails or the device moves.
2. `DhcpServer` and `DeviceTable` composed through ObserveLease, in place of
   `told`.
