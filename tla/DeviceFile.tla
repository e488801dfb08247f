---------------------------- MODULE DeviceFile ----------------------------
(* How the device table reaches devices.json: internal/app/app.go (New,      *)
(* loadDevices, saveDevices, Close) and the announcement of a change by      *)
(* internal/device/device.go (notify).                                       *)
(*                                                                           *)
(* A change is made under the table's lock and announced after it.  Every    *)
(* announcement runs saveDevices in the goroutine that made the change, so   *)
(* the DHCP server, the learner, the interface and Close save side by side,  *)
(* through ONE temporary file: a snapshot, an open that truncates, a write,  *)
(* a rename.  Files are inodes, because a goroutine goes on writing to the   *)
(* inode it opened after another one has renamed it over devices.json.       *)
(*                                                                           *)
(* A document is the number of the change it holds; 0 is the empty table.    *)
EXTENDS Integers, FiniteSets

CONSTANTS Savers,      \* the goroutines that change the table or close
          Length,      \* how long the document of each version is
          MaxChanges,  \* bound: changes of the table
          MaxCrashes,  \* bound: ends of the process, planned or not
          MaxFaults    \* bound: failing reads, writes and renames

ASSUME SaversAssumption == IsFiniteSet(Savers) /\ Savers # {}
ASSUME BoundsAssumption == {MaxChanges, MaxCrashes, MaxFaults} \subseteq Nat

Versions == 0 .. MaxChanges

ASSUME LengthAssumption == Length \in [Versions -> Nat \ {0}]

None == 0                              \* no file of that name
Inodes == 1 .. Cardinality(Savers) + 2 \* the two names, and one open per saver

VARIABLES table,    \* the version the table in memory is at
          changes,  \* how many changes there have been
          data,     \* inode -> [text, length, whole]
          live,     \* the inode named devices.json
          tmp,      \* the inode named devices.json.tmp
          pc,       \* where each goroutine is
          snap,     \* the snapshot it saves
          fd,       \* the inode it has open
          up,       \* New has returned: operations may be called
          closed,   \* Close has been called
          crashes, faults,
          \* history
          alone,    \* the savers that no other save has overlapped
          clean,    \* no save has overlapped another since one ran alone
          failed    \* a read, write or rename has failed since one did not

vars == <<table, changes, data, live, tmp, pc, snap, fd, up, closed, crashes, faults,
          alone, clean, failed>>

\* What a read of an inode finds: whose document it begins with, how long it
\* is, and whether it is that document and nothing else, which is what
\* unmarshal accepts.
Contents == [text : Versions, length : Nat, whole : BOOLEAN]
Truncated == [text |-> 0, length |-> 0, whole |-> FALSE]

TypeOK ==
    /\ table \in Versions /\ changes \in Versions
    /\ data \in [Inodes -> Contents]
    /\ live \in Inodes \cup {None} /\ tmp \in Inodes \cup {None}
    /\ live = tmp => live = None
    /\ pc \in [Savers -> {"idle", "announcing", "snapped", "opened", "written"}]
    /\ snap \in [Savers -> Versions]
    /\ fd \in [Savers -> Inodes \cup {None}]
    /\ up \in BOOLEAN /\ closed \in BOOLEAN
    /\ crashes \in 0 .. MaxCrashes /\ faults \in 0 .. MaxFaults
    /\ alone \subseteq Savers
    /\ clean \in BOOLEAN /\ failed \in BOOLEAN

Init ==
    /\ table = 0 /\ changes = 0
    /\ data = [i \in Inodes |-> Truncated]
    /\ live = None /\ tmp = None
    /\ pc = [s \in Savers |-> "idle"]
    /\ snap = [s \in Savers |-> 0]
    /\ fd = [s \in Savers |-> None]
    /\ up = FALSE /\ closed = FALSE
    /\ crashes = 0 /\ faults = 0
    /\ alone = {} /\ clean = TRUE /\ failed = FALSE

Idle == \A s \in Savers : pc[s] = "idle"
Saving == {s \in Savers : pc[s] \in {"snapped", "opened", "written"}}
Quiet == up /\ Idle

-----------------------------------------------------------------------------
(* Starting: nothing else runs yet.                                          *)

\* New on a first run, or with a file that does not parse: the table is empty
\* and nothing is announced.
StartEmpty ==
    /\ ~up /\ Idle
    /\ live # None => ~data[live].whole
    /\ up' = TRUE /\ table' = 0
    /\ UNCHANGED <<changes, data, live, tmp, pc, snap, fd, closed, crashes, faults,
                   alone, clean, failed>>

\* A file that cannot be read: the same, over a document that is whole.
StartUnread ==
    /\ ~up /\ Idle /\ live # None
    /\ faults < MaxFaults
    /\ faults' = faults + 1 /\ failed' = TRUE
    /\ up' = TRUE /\ table' = 0
    /\ UNCHANGED <<changes, data, live, tmp, pc, snap, fd, closed, crashes, alone, clean>>

\* Restore replaces the table and announces it, which saves what was just read;
\* New returns after that save, whether it succeeded or not.
Start(s) ==
    /\ ~up /\ Idle /\ live # None /\ data[live].whole
    /\ table' = data[live].text
    /\ pc' = [pc EXCEPT ![s] = "announcing"]
    /\ UNCHANGED <<changes, data, live, tmp, snap, fd, up, closed, crashes, faults,
                   alone, clean, failed>>

\* The process ends: killed, or at the end of main with goroutines still busy.
Crash ==
    /\ Idle => up
    /\ crashes < MaxCrashes
    /\ crashes' = crashes + 1
    /\ up' = FALSE /\ closed' = FALSE
    /\ snap' = [s \in Savers |-> 0]
    /\ pc' = [s \in Savers |-> "idle"]
    /\ fd' = [s \in Savers |-> None]
    /\ alone' = {}
    /\ UNCHANGED <<table, changes, data, live, tmp, faults, clean, failed>>

-----------------------------------------------------------------------------
(* Changing and saving.                                                      *)

\* Faulty variant of Change: the operation does not announce what it did.
ChangeUnannounced(s) ==
    /\ up /\ pc[s] = "idle" /\ changes < MaxChanges
    /\ changes' = changes + 1 /\ table' = changes + 1
    /\ UNCHANGED <<data, live, tmp, pc, snap, fd, up, closed, crashes, faults,
                   alone, clean, failed>>

\* Any operation of the table, up to the unlock: the change is in memory.
Change(s) ==
    /\ up /\ pc[s] = "idle" /\ changes < MaxChanges
    /\ changes' = changes + 1 /\ table' = changes + 1
    /\ pc' = [pc EXCEPT ![s] = "announcing"]
    /\ UNCHANGED <<data, live, tmp, snap, fd, up, closed, crashes, faults,
                   alone, clean, failed>>

\* Close, of which only the first call does anything, saves without a change.
Close(s) ==
    /\ up /\ ~closed /\ pc[s] = "idle"
    /\ closed' = TRUE
    /\ pc' = [pc EXCEPT ![s] = "announcing"]
    /\ UNCHANGED <<table, changes, data, live, tmp, snap, fd, up, crashes, faults,
                   alone, clean, failed>>

\* saveDevices takes its snapshot under the table's lock.
Snapshot(s) ==
    /\ pc[s] = "announcing"
    /\ pc' = [pc EXCEPT ![s] = "snapped"]
    /\ snap' = [snap EXCEPT ![s] = table]
    /\ alone' = IF Saving = {} THEN {s} ELSE {}
    /\ clean' = (clean /\ Saving = {})
    /\ UNCHANGED <<table, changes, data, live, tmp, fd, up, closed, crashes, faults, failed>>

Free == CHOOSE i \in Inodes :
            i \notin {live, tmp} \cup {fd[s] : s \in Savers}

\* Faulty variant of Open: the document is written over devices.json itself.
OpenInPlace(s) ==
    /\ pc[s] = "snapped"
    /\ pc' = [pc EXCEPT ![s] = "opened"]
    /\ LET i == IF live = None THEN Free ELSE live
       IN  /\ live' = i
           /\ fd' = [fd EXCEPT ![s] = i]
           /\ data' = [data EXCEPT ![i] = Truncated]
    /\ UNCHANGED <<table, changes, tmp, snap, up, closed, crashes, faults,
                   alone, clean, failed>>

\* WriteFile opens the temporary file: the one there is, truncated, or a new one.
Open(s) ==
    /\ pc[s] = "snapped"
    /\ pc' = [pc EXCEPT ![s] = "opened"]
    /\ LET i == IF tmp = None THEN Free ELSE tmp
       IN  /\ tmp' = i
           /\ fd' = [fd EXCEPT ![s] = i]
           /\ data' = [data EXCEPT ![i] = Truncated]
    /\ UNCHANGED <<table, changes, live, snap, up, closed, crashes, faults,
                   alone, clean, failed>>

\* The first n octets of version v written from the start of contents c: what
\* was longer keeps its end.
Overwritten(c, v, n) ==
    [text   |-> v,
     length |-> IF c.length > n THEN c.length ELSE n,
     whole  |-> n = Length[v] /\ c.length <= n]

\* The write, to the inode that was opened, whatever its name is by now.
Write(s) ==
    /\ pc[s] = "opened"
    /\ data' = [data EXCEPT ![fd[s]] = Overwritten(@, snap[s], Length[snap[s]])]
    /\ pc' = [pc EXCEPT ![s] = "written"]
    /\ fd' = [fd EXCEPT ![s] = None]
    /\ UNCHANGED <<table, changes, live, tmp, snap, up, closed, crashes, faults,
                   alone, clean, failed>>

\* Faulty variant of WriteFails: the rename follows a write that failed.
WriteUnheard(s) ==
    /\ pc[s] = "opened" /\ faults < MaxFaults
    /\ \E n \in 0 .. Length[snap[s]] - 1 :
          data' = [data EXCEPT ![fd[s]] = Overwritten(@, snap[s], n)]
    /\ pc' = [pc EXCEPT ![s] = "written"]
    /\ fd' = [fd EXCEPT ![s] = None]
    /\ faults' = faults + 1 /\ failed' = TRUE
    /\ UNCHANGED <<table, changes, live, tmp, snap, up, closed, crashes, alone, clean>>

\* The disk fills: part is written, the error is logged, and the temporary
\* file stays.
WriteFails(s) ==
    /\ pc[s] = "opened" /\ faults < MaxFaults
    /\ \E n \in 0 .. Length[snap[s]] - 1 :
          data' = [data EXCEPT ![fd[s]] = Overwritten(@, snap[s], n)]
    /\ pc' = [pc EXCEPT ![s] = "idle"] /\ snap' = [snap EXCEPT ![s] = 0] /\ up' = TRUE
    /\ fd' = [fd EXCEPT ![s] = None]
    /\ faults' = faults + 1 /\ failed' = TRUE
    /\ alone' = alone \ {s}
    /\ UNCHANGED <<table, changes, live, tmp, closed, crashes, clean>>

\* The rename moves whatever has the temporary name now, and replaces.
Rename(s) ==
    /\ pc[s] = "written" /\ tmp # None
    /\ live' = tmp /\ tmp' = None
    /\ pc' = [pc EXCEPT ![s] = "idle"] /\ snap' = [snap EXCEPT ![s] = 0] /\ up' = TRUE
    /\ alone' = alone \ {s}
    /\ clean' = (clean \/ s \in alone)
    /\ failed' = (failed /\ s \notin alone)
    /\ UNCHANGED <<table, changes, data, fd, closed, crashes, faults>>

\* There is nothing of that name any more, or the rename fails: the error is
\* logged and whatever has the temporary name is removed.
RenameFails(s) ==
    /\ pc[s] = "written"
    /\ \/ tmp = None /\ UNCHANGED faults
       \/ tmp # None /\ faults < MaxFaults /\ faults' = faults + 1
    /\ failed' = TRUE
    /\ tmp' = None
    /\ pc' = [pc EXCEPT ![s] = "idle"] /\ snap' = [snap EXCEPT ![s] = 0] /\ up' = TRUE
    /\ alone' = alone \ {s}
    /\ UNCHANGED <<table, changes, data, live, fd, closed, crashes, clean>>

-----------------------------------------------------------------------------

Next ==
    \/ StartEmpty \/ StartUnread \/ Crash
    \/ \E s \in Savers :
          \/ Start(s) \/ Change(s) \/ Close(s) \/ Snapshot(s) \/ Open(s)
          \/ Write(s) \/ WriteFails(s) \/ Rename(s) \/ RenameFails(s)

Spec == Init /\ [][Next]_vars

-----------------------------------------------------------------------------
(* What the file promises.                                                   *)

\* As long as saves did not overlap, or one has since run alone, devices.json
\* is absent or one whole document, at every moment a crash could come: a
\* truncated or half-written document is never under that name, whatever was
\* left in the temporary file by a save that failed or was killed
\* (saveDevices, app.go:501-505).
FileWhole == clean /\ live # None => data[live].whole

\* A change that is announced after the unlock is not lost by it: once nothing
\* is being saved, and unless saves overlapped or one failed, the file holds
\* exactly the table in memory, whichever goroutine saved last and even after
\* restarts (notify, device.go:522-526; loadDevices, Restore).
SavedWhenQuiet ==
    Quiet /\ clean /\ ~failed
        => table = IF live = None THEN 0 ELSE data[live].text

=============================================================================
