--------------------------- MODULE DeviceFileProofs ---------------------------
(***************************************************************************)
(* Theorems about devices.json, for any number of goroutines that save, any*)
(* lengths of the documents and any number of changes, crashes and faults. *)
(*                                                                         *)
(* The argument: a save that no other has overlapped has the temporary     *)
(* file to itself, from the open to the rename, so what it renames is its  *)
(* document and nothing else; and the table it has in hand is the one in   *)
(* memory, unless a change has come after, whose goroutine has still to    *)
(* save.                                                                   *)
(***************************************************************************)
EXTENDS DeviceFile, FiniteSetTheorems, TLAPS

\* A goroutine has a file open between the open and the write.
Handles == \A s \in Savers : fd[s] = None <=> pc[s] # "opened"

\* A save that is alone is the only one there is, and while no save has
\* overlapped another the one there is is alone.
Loneliness ==
    /\ \A s \in alone : Saving = {s}
    /\ clean /\ Saving # {} => alone # {}

\* The temporary file belongs to it.
OwnFile ==
    \A s \in alone :
        /\ pc[s] = "opened" => /\ fd[s] = tmp /\ data[tmp] = Truncated
        /\ pc[s] = "written" => /\ tmp # None
                                /\ data[tmp].text = snap[s] /\ data[tmp].whole

\* A save that is alone has the table in hand, unless somebody is still to save.
Fresh ==
    (\A t \in Savers : pc[t] # "announcing") => \A s \in alone : snap[s] = table

FInv ==
    /\ TypeOK /\ Handles /\ Loneliness /\ OwnFile /\ Fresh
    /\ FileWhole /\ SavedWhenQuiet

-----------------------------------------------------------------------------
(* What the steps are made of. *)

\* There is an inode to open: a saver that opens holds none.
LEMMA FreeInode ==
    ASSUME TypeOK, Handles, NEW s \in Savers, pc[s] = "snapped", tmp = None
    PROVE  Free \in Inodes /\ Free # live /\ Free # None /\ \A t \in Savers : fd[t] # Free
<1> DEFINE X == {fd[t] : t \in Savers}
           N == Cardinality(Savers)
<1>1. IsFiniteSet(Savers) /\ N \in Nat
  BY SaversAssumption, FS_CardinalityType
<1>2. IsFiniteSet(X) /\ Cardinality(X) <= N /\ Cardinality(X) \in Nat
  <2>1. fd \in Surjection(Savers, X)
    BY DEF Surjection, TypeOK
  <2> QED
    BY <1>1, <2>1, FS_Surjection, FS_CardinalityType
<1>3. IsFiniteSet(X \cup {live}) /\ Cardinality(X \cup {live}) <= N + 1
  <2> DEFINE n == Cardinality(X)
  <2> HIDE DEF X
  <2>1. /\ IsFiniteSet(X \cup {live})
        /\ Cardinality(X \cup {live}) = IF live \in X THEN n ELSE n + 1
    BY <1>2, FS_AddElement
  <2>2. n <= N /\ n \in Nat
    BY <1>2
  <2> QED
    BY <1>1, <2>1, <2>2
<1>4. /\ IsFiniteSet(Inodes) /\ Cardinality(Inodes) = N + 2
  BY <1>1, FS_Interval DEF Inodes
<1>5. PICK i \in Inodes : i \notin X \cup {live}
  <2>1. CASE Inodes \subseteq X \cup {live}
    <3>1. Cardinality(Inodes) <= Cardinality(X \cup {live})
      BY <1>3, <2>1, FS_Subset
    <3>2. Cardinality(X \cup {live}) \in Nat
      BY <1>3, FS_CardinalityType
    <3> QED
      BY <1>1, <1>3, <1>4, <3>1, <3>2
  <2> QED
    BY <2>1
<1>6. i # None
  BY <1>1, <1>5 DEF Inodes, None
<1>7. i \notin {live, tmp} \cup {fd[t] : t \in Savers}
  BY <1>5, <1>6
<1> QED
  BY <1>1, <1>5, <1>7 DEF Free, Inodes, None

\* What a write leaves is contents again; on a truncated file a whole document
\* is that document.
LEMMA WriteType ==
    ASSUME NEW c \in Contents, NEW v \in Versions, NEW n \in Nat
    PROVE  /\ Overwritten(c, v, n) \in Contents
           /\ Overwritten(c, v, n).text = v
           /\ c = Truncated /\ n = Length[v] => Overwritten(c, v, n).whole
<1>1. c.length \in Nat /\ (c = Truncated => c.length = 0)
  BY DEF Contents, Truncated
<1>2. Overwritten(c, v, n).text = v
  BY DEF Overwritten
<1>3. c = Truncated /\ n = Length[v] => Overwritten(c, v, n).whole
  <2> SUFFICES ASSUME c = Truncated, n = Length[v] PROVE Overwritten(c, v, n).whole
    OBVIOUS
  <2>1. (n = Length[v] /\ c.length <= n) = TRUE
    BY <1>1
  <2>2. Overwritten(c, v, n).whole = (n = Length[v] /\ c.length <= n)
    BY Zenon DEF Overwritten
  <2> QED
    BY <2>1, <2>2, Zenon
<1>4. Overwritten(c, v, n) \in Contents
  BY <1>1 DEF Overwritten, Contents
<1> QED
  BY <1>1, <1>2, <1>3, <1>4

\* Bounds are numbers, an empty table is a version, an empty file is contents.
LEMMA Zeros ==
    /\ MaxChanges \in Nat /\ MaxCrashes \in Nat /\ MaxFaults \in Nat
    /\ 0 \in Versions /\ Truncated \in Contents
BY BoundsAssumption DEF Versions, Contents, Truncated

-----------------------------------------------------------------------------
(* Every step preserves the invariant. *)

\* An announcement, of whatever made it, is a save to come.
LEMMA AnnounceInv ==
    ASSUME FInv, NEW s \in Savers, pc[s] = "idle", pc' = [pc EXCEPT ![s] = "announcing"],
           UNCHANGED <<data, live, tmp, snap, fd, alone, clean, failed>>, TypeOK'
    PROVE  FInv'
<1>1. pc \in [Savers -> {"idle", "announcing", "snapped", "opened", "written"}]
  BY DEF FInv, TypeOK
<1>2. pc'[s] = "announcing" /\ \A t \in Savers : t # s => pc'[t] = pc[t]
  BY <1>1
<1>3. Saving' = Saving
  BY <1>2 DEF Saving
<1>4. Handles' /\ OwnFile'
  BY <1>2 DEF FInv, Handles, OwnFile, TypeOK
<1>5. Loneliness'
  BY <1>3 DEF FInv, Loneliness
<1>6. Fresh' /\ SavedWhenQuiet'
  BY <1>2 DEF Fresh, SavedWhenQuiet, Quiet, Idle
<1>7. FileWhole'
  BY DEF FInv, FileWhole
<1> QED
  BY <1>4, <1>5, <1>6, <1>7 DEF FInv

\* A start with no document to read: what there is of a file is not whole, or
\* could not be read.
LEMMA StartEmptyInv ==
    ASSUME FInv, StartEmpty \/ StartUnread
    PROVE  FInv'
<1>1. TypeOK'
  <2>1. table' \in Versions /\ faults' \in 0 .. MaxFaults /\ failed' \in BOOLEAN /\ up' \in BOOLEAN
    <3>1. CASE StartEmpty
      BY <3>1, Zeros DEF FInv, TypeOK, StartEmpty
    <3>2. CASE StartUnread
      BY <3>2, Zeros DEF FInv, TypeOK, StartUnread
    <3> QED
      BY <3>1, <3>2
  <2>2. UNCHANGED <<changes, data, live, tmp, pc, snap, fd, closed, crashes, alone, clean>>
    BY DEF StartEmpty, StartUnread
  <2> QED
    BY <2>1, <2>2 DEF FInv, TypeOK
<1>2. /\ UNCHANGED <<data, live, tmp, pc, snap, fd, alone, clean>>
      /\ table' = 0 /\ \A s \in Savers : pc[s] = "idle"
  BY DEF StartEmpty, StartUnread, Idle
<1>3. Saving = {} /\ alone = {}
  BY <1>2 DEF Saving, FInv, Loneliness
<1>4. Handles' /\ OwnFile' /\ Fresh' /\ Loneliness' /\ FileWhole'
  BY <1>2, <1>3 DEF FInv, Handles, OwnFile, Fresh, Loneliness, FileWhole, Saving
<1>5. SavedWhenQuiet'
  <2>1. CASE StartEmpty
    BY <1>2, <2>1 DEF StartEmpty, FInv, FileWhole, SavedWhenQuiet
  <2>2. CASE StartUnread
    BY <2>2 DEF StartUnread, SavedWhenQuiet
  <2> QED
    BY <2>1, <2>2
<1> QED
  BY <1>1, <1>4, <1>5 DEF FInv

\* The end of the process leaves the files as they are at that moment.
LEMMA CrashInv ==
    ASSUME FInv, Crash
    PROVE  FInv'
<1>1. TypeOK'
  <2>1. crashes' \in 0 .. MaxCrashes
    BY Zeros DEF FInv, TypeOK, Crash
  <2>2. /\ pc' \in [Savers -> {"idle", "announcing", "snapped", "opened", "written"}]
        /\ snap' \in [Savers -> Versions] /\ fd' \in [Savers -> Inodes \cup {None}]
    BY Zeros DEF Crash
  <2>3. UNCHANGED <<table, changes, data, live, tmp, faults, clean, failed>>
    BY DEF Crash
  <2> QED
    BY <2>1, <2>2, <2>3 DEF FInv, TypeOK, Crash
<1>2. /\ alone' = {} /\ up' = FALSE /\ Saving' = {}
      /\ \A s \in Savers : pc'[s] = "idle" /\ fd'[s] = None
      /\ UNCHANGED <<data, live, clean>>
  BY DEF Crash, Saving
<1> QED
  BY <1>1, <1>2 DEF FInv, Handles, OwnFile, Fresh, Loneliness, FileWhole, SavedWhenQuiet, Quiet

\* A snapshot is alone when nobody else is saving.
LEMMA SnapshotInv ==
    ASSUME FInv, NEW s \in Savers, Snapshot(s)
    PROVE  FInv'
<1>1. /\ pc \in [Savers -> {"idle", "announcing", "snapped", "opened", "written"}]
      /\ snap \in [Savers -> Versions]
  BY DEF FInv, TypeOK
<1>2. /\ pc'[s] = "snapped" /\ \A t \in Savers : t # s => pc'[t] = pc[t]
      /\ snap'[s] = table /\ pc[s] = "announcing"
  BY <1>1 DEF Snapshot
<1>3. TypeOK'
  BY DEF FInv, TypeOK, Snapshot
<1>4. Saving' = Saving \cup {s}
  BY <1>2 DEF Saving
<1>5. /\ alone' = IF Saving = {} THEN {s} ELSE {}
      /\ clean' = (clean /\ Saving = {})
      /\ UNCHANGED <<table, data, live, tmp, fd>>
  BY DEF Snapshot
<1>6. Handles'
  BY <1>2, <1>5 DEF FInv, Handles
<1>7. Loneliness'
  BY <1>4, <1>5 DEF Loneliness
<1>8. OwnFile' /\ Fresh'
  BY <1>2, <1>5 DEF OwnFile, Fresh
<1>9. FileWhole'
  BY <1>5 DEF FInv, FileWhole
<1>10. SavedWhenQuiet'
  BY <1>2 DEF SavedWhenQuiet, Quiet, Idle
<1> QED
  BY <1>3, <1>6, <1>7, <1>8, <1>9, <1>10 DEF FInv

\* The temporary file is opened, and is never devices.json.
LEMMA OpenInv ==
    ASSUME FInv, NEW s \in Savers, Open(s)
    PROVE  FInv'
<1> DEFINE i == IF tmp = None THEN Free ELSE tmp
<1>1. /\ pc \in [Savers -> {"idle", "announcing", "snapped", "opened", "written"}]
      /\ fd \in [Savers -> Inodes \cup {None}] /\ data \in [Inodes -> Contents]
      /\ tmp \in Inodes \cup {None} /\ live \in Inodes \cup {None}
      /\ pc[s] = "snapped" /\ (live = tmp => live = None) /\ None \notin Inodes
  BY DEF FInv, TypeOK, Open, Inodes, None
<1>2. i \in Inodes /\ i # live /\ i # None
  BY <1>1, FreeInode DEF FInv
<1> HIDE DEF i
<1>3. /\ tmp' = i /\ fd' = [fd EXCEPT ![s] = i] /\ data' = [data EXCEPT ![i] = Truncated]
      /\ pc' = [pc EXCEPT ![s] = "opened"]
      /\ UNCHANGED <<table, changes, live, snap, up, closed, crashes, faults, alone, clean, failed>>
  BY DEF Open, i
<1>4. /\ pc'[s] = "opened" /\ fd'[s] = i /\ data'[i] = Truncated
      /\ \A t \in Savers : t # s => pc'[t] = pc[t] /\ fd'[t] = fd[t]
      /\ \A j \in Inodes : j # i => data'[j] = data[j]
  BY <1>1, <1>2, <1>3
<1>5. TypeOK'
  <2>1. data' \in [Inodes -> Contents]
    BY <1>1, <1>3, Zeros
  <2> QED
    BY <1>1, <1>2, <1>3, <2>1 DEF FInv, TypeOK
<1>6. Saving' = Saving /\ s \in Saving
  BY <1>1, <1>4 DEF Saving
<1>7. Loneliness'
  BY <1>3, <1>6 DEF FInv, Loneliness
<1>8. Handles'
  BY <1>2, <1>3, <1>4 DEF FInv, Handles
<1>9. OwnFile'
  <2>1. \A t \in alone : t = s
    BY <1>6 DEF FInv, Loneliness
  <2> QED
    BY <1>3, <1>4, <2>1 DEF OwnFile
<1>10. Fresh' /\ SavedWhenQuiet'
  BY <1>1, <1>3, <1>4 DEF FInv, Fresh, SavedWhenQuiet, Quiet, Idle
<1>11. FileWhole'
  BY <1>1, <1>2, <1>3, <1>4 DEF FInv, FileWhole
<1> QED
  BY <1>5, <1>7, <1>8, <1>9, <1>10, <1>11 DEF FInv

\* A write goes to the inode that was opened; that of a save which is alone has
\* the temporary name still.
LEMMA WriteInv ==
    ASSUME FInv, NEW s \in Savers, Write(s)
    PROVE  FInv'
<1> DEFINE v == snap[s]
           d == Overwritten(data[fd[s]], v, Length[v])
<1>1. /\ pc \in [Savers -> {"idle", "announcing", "snapped", "opened", "written"}]
      /\ fd \in [Savers -> Inodes \cup {None}] /\ data \in [Inodes -> Contents]
      /\ pc[s] = "opened" /\ v \in Versions /\ Length[v] \in Nat /\ None \notin Inodes
      /\ fd[s] \in Inodes /\ live \in Inodes \cup {None} /\ (live = tmp => live = None)
  BY LengthAssumption DEF FInv, TypeOK, Write, Inodes, None, Handles
<1>2. /\ d \in Contents /\ d.text = v
      /\ data[fd[s]] = Truncated => d.whole
  BY <1>1, WriteType
<1>3. /\ data' = [data EXCEPT ![fd[s]] = d] /\ pc' = [pc EXCEPT ![s] = "written"]
      /\ fd' = [fd EXCEPT ![s] = None]
      /\ UNCHANGED <<table, changes, live, tmp, snap, up, closed, crashes, faults,
                     alone, clean, failed>>
  BY DEF Write
<1> HIDE DEF d, v
<1>4. /\ pc'[s] = "written" /\ fd'[s] = None /\ data'[fd[s]] = d
      /\ \A t \in Savers : t # s => pc'[t] = pc[t] /\ fd'[t] = fd[t]
      /\ \A j \in Inodes : j # fd[s] => data'[j] = data[j]
  BY <1>1, <1>3
<1>5. TypeOK'
  <2>1. data' \in [Inodes -> Contents]
    BY <1>1, <1>2, <1>3
  <2> QED
    BY <1>1, <1>3, <2>1 DEF FInv, TypeOK
<1>6. Saving' = Saving /\ s \in Saving
  BY <1>1, <1>4 DEF Saving
<1>7. Loneliness'
  BY <1>3, <1>6 DEF FInv, Loneliness
<1>8. Handles'
  BY <1>3, <1>4 DEF FInv, Handles
<1>9. s \in alone => fd[s] = tmp /\ data[tmp] = Truncated
  BY <1>1 DEF FInv, OwnFile
<1>10. OwnFile'
  <2>1. \A t \in alone : t = s
    BY <1>6 DEF FInv, Loneliness
  <2>2. s \in alone => tmp # None /\ data'[tmp].text = snap[s] /\ data'[tmp].whole
    BY <1>1, <1>2, <1>4, <1>9 DEF v
  <2> QED
    BY <1>3, <1>4, <2>1, <2>2 DEF OwnFile
<1>11. Fresh' /\ SavedWhenQuiet'
  BY <1>1, <1>3, <1>4 DEF FInv, Fresh, SavedWhenQuiet, Quiet, Idle
<1>12. FileWhole'
  <2>1. clean /\ live # None => live # fd[s]
    BY <1>1, <1>6, <1>9 DEF FInv, Loneliness
  <2> QED
    BY <1>1, <1>3, <1>4, <2>1 DEF FInv, FileWhole
<1> QED
  BY <1>5, <1>7, <1>8, <1>10, <1>11, <1>12 DEF FInv

\* A save ends, one way or another: nothing is left to protect of it, and what
\* it leaves of devices.json is its own business.
LEMMA EndsInv ==
    ASSUME FInv, NEW s \in Savers, s \in Saving, TypeOK',
           pc' = [pc EXCEPT ![s] = "idle"], snap' = [snap EXCEPT ![s] = 0],
           fd' = [fd EXCEPT ![s] = None], table' = table, alone' = alone \ {s},
           \A t \in alone : t # s => FALSE,
           clean' => clean \/ s \in alone,
           FileWhole', SavedWhenQuiet'
    PROVE  FInv'
<1>1. /\ pc \in [Savers -> {"idle", "announcing", "snapped", "opened", "written"}]
      /\ fd \in [Savers -> Inodes \cup {None}] /\ snap \in [Savers -> Versions]
  BY DEF FInv, TypeOK
<1>2. /\ pc'[s] = "idle" /\ fd'[s] = None
      /\ \A t \in Savers : t # s => pc'[t] = pc[t] /\ fd'[t] = fd[t]
  BY <1>1
<1>3. alone' = {} /\ Saving' = Saving \ {s}
  BY <1>2 DEF Saving
<1>4. Handles'
  BY <1>2 DEF FInv, Handles
<1>5. Loneliness'
  <2>1. clean' => Saving = {s}
    <3>1. clean => alone # {}
      BY DEF FInv, Loneliness
    <3>2. clean' => s \in alone
      BY <3>1
    <3> QED
      BY <3>2 DEF FInv, Loneliness
  <2> QED
    BY <1>3, <2>1 DEF Loneliness
<1>6. OwnFile' /\ Fresh'
  BY <1>3 DEF OwnFile, Fresh
<1> QED
  BY <1>4, <1>5, <1>6 DEF FInv

\* A save that is alone renames its own document.
LEMMA RenameInv ==
    ASSUME FInv, NEW s \in Savers, Rename(s)
    PROVE  FInv'
<1>1. /\ pc[s] = "written" /\ tmp # None /\ live' = tmp /\ tmp' = None
      /\ pc' = [pc EXCEPT ![s] = "idle"] /\ snap' = [snap EXCEPT ![s] = 0]
      /\ alone' = alone \ {s} /\ clean' = (clean \/ s \in alone)
      /\ failed' = (failed /\ s \notin alone) /\ up' = TRUE
      /\ UNCHANGED <<table, changes, data, fd, closed, crashes, faults>>
  BY DEF Rename
<1>2. /\ pc \in [Savers -> {"idle", "announcing", "snapped", "opened", "written"}]
      /\ fd \in [Savers -> Inodes \cup {None}] /\ clean \in BOOLEAN
  BY DEF FInv, TypeOK
<1>3. s \in Saving /\ fd' = [fd EXCEPT ![s] = None]
  BY <1>1, <1>2 DEF FInv, Handles, Saving
<1>4. TypeOK'
  <2>1. snap' \in [Savers -> Versions]
    BY <1>1, Zeros DEF FInv, TypeOK
  <2>2. /\ live' \in Inodes \cup {None} /\ tmp' \in Inodes \cup {None}
        /\ (live' = tmp' => live' = None)
        /\ pc' \in [Savers -> {"idle", "announcing", "snapped", "opened", "written"}]
    BY <1>1 DEF FInv, TypeOK
  <2>3. alone' \subseteq Savers /\ clean' \in BOOLEAN /\ failed' \in BOOLEAN /\ up' \in BOOLEAN
    BY <1>1 DEF FInv, TypeOK
  <2>4. UNCHANGED <<table, changes, data, fd, closed, crashes, faults>>
    BY <1>1
  <2> QED
    BY <2>1, <2>2, <2>3, <2>4 DEF FInv, TypeOK
<1>5. clean \/ s \in alone => s \in alone /\ Saving = {s}
  BY <1>3 DEF FInv, Loneliness
<1>6. \A t \in alone : t # s => FALSE
  BY <1>3 DEF FInv, Loneliness
<1>7. s \in alone => data[tmp].text = snap[s] /\ data[tmp].whole
  BY <1>1 DEF FInv, OwnFile
<1>8. FileWhole'
  BY <1>1, <1>5, <1>7 DEF FileWhole
<1>9. SavedWhenQuiet'
  <2>1. ASSUME Idle', clean' PROVE table = data[tmp].text
    <3>1. s \in alone
      BY <1>1, <1>5, <2>1
    <3>2. \A t \in Savers : pc[t] # "announcing"
      BY <1>1, <1>2, <2>1 DEF Idle
    <3> QED
      BY <1>7, <3>1, <3>2 DEF FInv, Fresh
  <2> QED
    BY <1>1, <2>1 DEF SavedWhenQuiet, Quiet
<1> QED
  BY <1>1, <1>3, <1>4, <1>6, <1>8, <1>9, EndsInv

\* A save that fails leaves devices.json alone.
LEMMA FailureInv ==
    ASSUME FInv, NEW s \in Savers, WriteFails(s) \/ RenameFails(s)
    PROVE  FInv'
<1>1. /\ pc[s] \in {"opened", "written"}
      /\ pc' = [pc EXCEPT ![s] = "idle"] /\ snap' = [snap EXCEPT ![s] = 0]
      /\ alone' = alone \ {s} /\ failed' = TRUE /\ up' = TRUE
      /\ tmp' \in {tmp, None} /\ faults' \in {faults, faults + 1}
      /\ (faults' = faults + 1 => faults < MaxFaults)
      /\ UNCHANGED <<table, changes, live, closed, crashes, clean>>
  <2>1. faults \in Nat
    BY Zeros DEF FInv, TypeOK
  <2>2. CASE WriteFails(s)
    BY <2>1, <2>2 DEF WriteFails
  <2>3. CASE RenameFails(s)
    BY <2>1, <2>3 DEF RenameFails
  <2> QED
    BY <2>2, <2>3
<1>2. /\ pc \in [Savers -> {"idle", "announcing", "snapped", "opened", "written"}]
      /\ fd \in [Savers -> Inodes \cup {None}] /\ clean \in BOOLEAN
      /\ snap \in [Savers -> Versions] /\ data \in [Inodes -> Contents] /\ None \notin Inodes
      /\ live \in Inodes \cup {None} /\ (live = tmp => live = None)
  BY DEF FInv, TypeOK, None, Inodes
<1>3. s \in Saving /\ fd' = [fd EXCEPT ![s] = None]
  <2>1. s \in Saving
    BY <1>1 DEF Saving
  <2>2. CASE WriteFails(s)
    BY <2>1, <2>2 DEF WriteFails
  <2>3. CASE RenameFails(s)
    BY <1>2, <2>1, <2>3 DEF RenameFails, FInv, Handles
  <2> QED
    BY <2>2, <2>3
<1>4. \A t \in alone : t # s => FALSE
  BY <1>3 DEF FInv, Loneliness
<1>5. clean => s \in alone
  BY <1>3, <1>4 DEF FInv, Loneliness
<1>6. /\ data' \in [Inodes -> Contents]
      /\ clean /\ live # None => data'[live] = data[live]
  <2>1. CASE WriteFails(s)
    <3>1. PICK n \in 0 .. Length[snap[s]] - 1 :
            data' = [data EXCEPT ![fd[s]] = Overwritten(@, snap[s], n)]
      BY <2>1 DEF WriteFails
    <3>2. fd[s] \in Inodes /\ n \in Nat
      BY <1>2, <2>1, LengthAssumption DEF FInv, Handles, WriteFails
    <3>3. Overwritten(data[fd[s]], snap[s], n) \in Contents
      BY <1>2, <3>2, WriteType
    <3>4. s \in alone => fd[s] = tmp
      BY <2>1 DEF WriteFails, FInv, OwnFile
    <3> QED
      BY <1>2, <1>5, <3>1, <3>2, <3>3, <3>4
  <2>2. CASE RenameFails(s)
    BY <1>2, <2>2 DEF RenameFails
  <2> QED
    BY <2>1, <2>2
<1>7. TypeOK'
  <2>1. snap' \in [Savers -> Versions] /\ faults' \in 0 .. MaxFaults
    BY <1>1, <1>2, Zeros DEF FInv, TypeOK
  <2>2. /\ live' \in Inodes \cup {None} /\ tmp' \in Inodes \cup {None}
        /\ (live' = tmp' => live' = None)
        /\ pc' \in [Savers -> {"idle", "announcing", "snapped", "opened", "written"}]
        /\ fd' \in [Savers -> Inodes \cup {None}]
    BY <1>1, <1>2, <1>3 DEF FInv, TypeOK
  <2>3. alone' \subseteq Savers /\ failed' \in BOOLEAN /\ up' \in BOOLEAN
    BY <1>1 DEF FInv, TypeOK
  <2>4. UNCHANGED <<table, changes, closed, crashes, clean>>
    BY <1>1
  <2> QED
    BY <1>6, <2>1, <2>2, <2>3, <2>4 DEF FInv, TypeOK
<1>8. FileWhole'
  BY <1>1, <1>2, <1>6 DEF FInv, FileWhole
<1>9. SavedWhenQuiet'
  BY <1>1 DEF SavedWhenQuiet
<1> QED
  BY <1>1, <1>3, <1>4, <1>7, <1>8, <1>9, EndsInv

-----------------------------------------------------------------------------
(* The theorems. *)

\* There is no file at first, and nothing is running.
LEMMA FirstInv ==
    ASSUME Init
    PROVE  FInv
<1>1. /\ Saving = {} /\ alone = {} /\ up = FALSE /\ live = None
      /\ \A s \in Savers : pc[s] = "idle" /\ fd[s] = None
  BY DEF Init, Saving
<1>2. TypeOK
  <2>1. /\ data \in [Inodes -> Contents] /\ snap \in [Savers -> Versions]
        /\ table \in Versions /\ changes \in Versions
    BY Zeros DEF Init
  <2>2. crashes \in 0 .. MaxCrashes /\ faults \in 0 .. MaxFaults
    BY Zeros DEF Init
  <2> QED
    BY <2>1, <2>2 DEF Init, TypeOK
<1> QED
  BY <1>1, <1>2 DEF FInv, Handles, Loneliness, OwnFile, Fresh, FileWhole, SavedWhenQuiet, Quiet

\* The invariant holds, however saves overlap and whatever fails.
THEOREM FileInvariant == Spec => []FInv
<1>1. Init => FInv
  BY FirstInv
<1>2. FInv /\ [Next]_vars => FInv'
  <2> SUFFICES ASSUME FInv, [Next]_vars PROVE FInv'
    OBVIOUS
  <2>1. CASE StartEmpty \/ StartUnread
    BY <2>1, StartEmptyInv
  <2>2. CASE Crash
    BY <2>2, CrashInv
  <2>3. ASSUME NEW s \in Savers, Start(s) \/ Change(s) \/ Close(s) PROVE FInv'
    <3>1. /\ pc[s] = "idle" /\ pc' = [pc EXCEPT ![s] = "announcing"]
          /\ UNCHANGED <<data, live, tmp, snap, fd, alone, clean, failed>>
      BY <2>3 DEF Start, Change, Close, Idle
    <3>2. table' \in Versions /\ changes' \in Versions /\ closed' \in BOOLEAN
      <4>1. CASE Start(s)
        BY <4>1 DEF FInv, TypeOK, Start, Contents
      <4>2. CASE Change(s)
        BY <4>2, Zeros DEF FInv, TypeOK, Change, Versions
      <4>3. CASE Close(s)
        BY <4>3 DEF FInv, TypeOK, Close
      <4> QED
        BY <2>3, <4>1, <4>2, <4>3
    <3>3. UNCHANGED <<up, crashes, faults>>
      BY <2>3 DEF Start, Change, Close
    <3>4. TypeOK'
      BY <3>1, <3>2, <3>3 DEF FInv, TypeOK
    <3> QED
      BY <3>1, <3>4, AnnounceInv
  <2>4. ASSUME NEW s \in Savers, Snapshot(s) \/ Open(s) \/ Write(s) PROVE FInv'
    BY <2>4, SnapshotInv, OpenInv, WriteInv
  <2>5. ASSUME NEW s \in Savers, WriteFails(s) \/ Rename(s) \/ RenameFails(s) PROVE FInv'
    BY <2>5, RenameInv, FailureInv
  <2>6. CASE UNCHANGED vars
    BY <2>6 DEF vars, FInv, TypeOK, Handles, Loneliness, Saving, OwnFile, Fresh, FileWhole,
                SavedWhenQuiet, Quiet, Idle
  <2> QED
    BY <2>1, <2>2, <2>3, <2>4, <2>5, <2>6 DEF Next
<1> QED
  BY <1>1, <1>2, PTL DEF Spec

\* As long as saves do not overlap devices.json is absent or whole, at every
\* moment a crash can come.
THEOREM NeverHalfWritten == Spec => []FileWhole
<1>1. FInv => FileWhole
  BY DEF FInv
<1> QED
  BY <1>1, FileInvariant, PTL

\* Announcing after the unlock loses no change.
THEOREM NothingUnsaved == Spec => []SavedWhenQuiet
<1>1. FInv => SavedWhenQuiet
  BY DEF FInv
<1> QED
  BY <1>1, FileInvariant, PTL

=============================================================================
