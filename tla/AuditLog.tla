------------------------------- MODULE AuditLog -------------------------------
(***************************************************************************)
(* The broker's audit log: class AuditLogger of apps/broker/src/audit.ts.  *)
(*                                                                         *)
(* Records are appended to an active segment; segments that are full move  *)
(* one place up, and a signed manifest describes every segment.  Segments  *)
(* and manifest are different files, so an action here is one operation on *)
(* the file system: it may fail, and the process or the machine may stop   *)
(* before the next one.  A start verifies all files against the manifest   *)
(* and refuses what it does not describe.                                  *)
(*                                                                         *)
(* writeQueue runs one record() at a time; the order in which callers      *)
(* queue is the order of RecordBegins.  Signatures and digests are taken   *)
(* to be perfect: a hash is known by the record it is the hash of, a       *)
(* digest by the contents.                                                 *)
(***************************************************************************)
EXTENDS Integers, Sequences, SequencesExt

CONSTANTS
  MaxRecords,     \* bound on the calls of record()
  Sizes,          \* lengths a serialized record may have
  SegmentMax,     \* segmentMaxBytes
  MaxSegments,    \* maxSegments
  Retention,      \* RETENTION_MS
  MaxTime,        \* bound on the clock
  None            \* a model value: no such file, undefined

\* The byte limits allow two segments at least, and no record is longer than a segment:
\* the schema caps a record at a few kilobytes.
ASSUME AuditAssumption ==
  /\ MaxRecords \in Nat /\ Retention \in Nat \ {0} /\ MaxTime \in Nat
  /\ SegmentMax \in Nat \ {0} /\ Sizes \subseteq 1..SegmentMax
  /\ MaxSegments \in Nat /\ MaxSegments >= 2

VARIABLES
  disk,       \* what the file system shows
  images,     \* what it may show after a power failure: all of it since the last fsync
              \* of the directory
  pc,         \* the file operation the logger is at
  op,         \* the initialize() or record() that is running
  segments,   \* the Map of descriptors, published as the manifest
  active,     \* segmentCreatedAt, segmentBytes and previousHash
  poisoned,
  now,        \* Date.now()
  calls,      \* how often record() was called
  acked,      \* the records whose record() has resolved
  retired,    \* the records in segments removed by expiry or rotation
  damaged     \* an append has failed half way since the last start

memory == <<op, segments, active, poisoned, damaged>>
history == <<calls, acked, retired>>
vars == <<disk, images, pc, memory, now, history>>

-----------------------------------------------------------------------------
(* Files *)

\* A record is known by the number of its call.
Records == 1..MaxRecords

Indices == 0..(MaxSegments - 1)

\* previousHash of the first record of a segment, and the hash of a line cut short
INITIAL_HASH == 0
TORN == 0

Line == [rec: Records \cup {TORN}, prev: Records \cup {INITIAL_HASH}, at: Nat]
File == [lines: Seq(Line), bytes: Nat]
EmptyFile == [lines |-> <<>>, bytes |-> 0]

\* A manifest entry; recordCount and firstHash are part of what sha256 stands for.
Descriptor == [createdAt: Nat, bytes: Nat, lastHash: Records, sha256: Seq(Line)]

NoSegments == [i \in Indices |-> None]

Manifest == [Indices -> Descriptor \cup {None}]

Disk == [file: [Indices -> File \cup {None}], manifest: Manifest \cup {None}]

\* What is missing is none of the things that can be there.
ASSUME NoneAssumption ==
  None \notin File /\ None \notin Descriptor /\ None \notin Manifest /\ None \notin Nat

EmptyDisk == [file |-> NoSegments, manifest |-> None]

\* The disk with file f at index i, and with the file below index i moved there.
Put(d, i, f) == [d EXCEPT !.file[i] = f]
MovedUp(d, i) == Put(Put(d, i, d.file[i - 1]), i - 1, None)

RecordsIn(f) == {line.rec : line \in ToSet(f.lines)} \ {TORN}

NoActive == [createdAt |-> None, bytes |-> 0, previousHash |-> INITIAL_HASH]

\* verifySegment: whole records, each naming the hash of the one before.
VerifiesSegment(f) ==
  /\ f.lines # <<>>
  /\ \A j \in DOMAIN f.lines :
       /\ f.lines[j].rec # TORN
       /\ f.lines[j].prev = IF j = 1 THEN INITIAL_HASH ELSE f.lines[j - 1].rec

\* manifestSegment
Describe(f) ==
  [createdAt |-> f.lines[1].at, bytes |-> f.bytes, lastHash |-> Last(f.lines).rec,
   sha256 |-> f.lines]

\* initialize() finds neither a manifest nor a segment.
Fresh(d) == d = EmptyDisk

\* initialize() verifies the files: the segments are exactly those of the manifest, and
\* each is what its entry describes.
Verifies(d) ==
  /\ d.manifest # None
  /\ \A i \in Indices :
       /\ d.file[i] # None <=> d.manifest[i] # None
       /\ d.file[i] # None => /\ d.file[i].bytes <= SegmentMax
                              /\ VerifiesSegment(d.file[i])
                              /\ d.manifest[i] = Describe(d.file[i])

Accepts(d) == Fresh(d) \/ Verifies(d)

-----------------------------------------------------------------------------
(* Steps of the logger *)

\* `then': where the operation goes on once the manifest is published.
Operation ==
  [kind: {"initialize", "record"}, rec: Records \cup {None}, size: Nat, at: Nat,
   changed: BOOLEAN, index: Nat, then: {"serve", "size", "open", "resolve"}]

NoOperation ==
  [kind |-> "initialize", rec |-> None, size |-> 0, at |-> 0, changed |-> FALSE,
   index |-> 0, then |-> "serve"]

Starting == [NoOperation EXCEPT !.at = now]

Recording(r, size) ==
  [kind |-> "record", rec |-> r, size |-> size, at |-> now, changed |-> FALSE,
   index |-> 0, then |-> "size"]

TypeOK ==
  /\ disk \in Disk /\ images \subseteq Disk /\ disk \in images
  /\ pc \in {"down", "refused", "idle", "expiring", "unlinking", "renaming", "opening",
             "appending", "describing", "publishing", "syncing"}
  /\ op \in Operation
  /\ segments \in Manifest
  /\ active \in [createdAt: Nat \cup {None}, bytes: Nat,
                 previousHash: Records \cup {INITIAL_HASH}]
  /\ poisoned \in BOOLEAN /\ damaged \in BOOLEAN
  /\ now \in Nat
  /\ calls \in 0..MaxRecords /\ acked \subseteq Records /\ retired \subseteq Records

Init ==
  /\ disk = EmptyDisk /\ images = {EmptyDisk}
  /\ pc = "down" /\ op = NoOperation
  /\ segments = NoSegments /\ active = NoActive
  /\ poisoned = FALSE /\ damaged = FALSE
  /\ now = 0
  /\ calls = 0 /\ acked = {} /\ retired = {}

\* An operation on the files that leaves the disk as d.
Write(d) == disk' = d /\ images' = images \cup {d}

\* The process is gone, and with it all it knew.
Stops ==
  /\ pc' = "down" /\ op' = NoOperation /\ segments' = NoSegments /\ active' = NoActive
  /\ poisoned' = FALSE /\ damaged' = FALSE

\* The operation throws: record() rejects, and an initialize() that throws ends the start.
\* `poison' says that failAfterMutation was called, `damage' that bytes were left behind.
Throw(poison, damage) ==
  /\ IF op.kind = "initialize" THEN Stops
     ELSE /\ pc' = "idle" /\ op' = NoOperation
          /\ poisoned' = poison /\ damaged' = (damaged \/ damage)
          /\ UNCHANGED <<segments, active>>
  /\ UNCHANGED <<now, history>>

Publish(next) ==
  /\ pc' = "publishing"
  /\ op' = [op EXCEPT !.then = next]

\* initialize()
StartFresh ==
  /\ pc = "down" /\ Fresh(disk)
  /\ pc' = "publishing"
  /\ op' = Starting
  /\ segments' = NoSegments /\ active' = NoActive /\ poisoned' = FALSE /\ damaged' = FALSE
  /\ UNCHANGED <<disk, images, now, history>>

StartVerified ==
  /\ pc = "down" /\ Verifies(disk)
  /\ pc' = "expiring"
  /\ op' = Starting
  /\ segments' = disk.manifest
  /\ active' = IF disk.manifest[0] = None THEN NoActive
               ELSE [createdAt |-> disk.manifest[0].createdAt,
                     bytes |-> disk.manifest[0].bytes,
                     previousHash |-> disk.manifest[0].lastHash]
  /\ poisoned' = FALSE /\ damaged' = FALSE
  /\ UNCHANGED <<disk, images, now, history>>

\* The next start finds the same files: they wait for manual recovery.
StartRefused ==
  /\ pc = "down" /\ ~Accepts(disk)
  /\ pc' = "refused"
  /\ UNCHANGED <<disk, images, memory, now, history>>

\* record(); a poisoned logger rejects at once.
RecordBegins(size) ==
  /\ pc = "idle" /\ ~poisoned /\ calls < MaxRecords
  /\ pc' = "expiring"
  /\ calls' = calls + 1
  /\ op' = Recording(calls + 1, size)
  /\ UNCHANGED <<disk, images, segments, active, poisoned, damaged, now, acked, retired>>

\* Mutant of Expired: the active segment is left alone.
ExpiredRetained(i) ==
  i > 0 /\ segments[i] # None /\ op.at - segments[i].createdAt >= Retention

\* segmentExpired
Expired(i) == segments[i] # None /\ op.at - segments[i].createdAt >= Retention

\* removeExpiredSegments: unlink the oldest expired segment.
ExpireSegment(i) ==
  /\ pc = "expiring" /\ Expired(i) /\ \A j \in Indices : j > i => ~Expired(j)
  /\ Write(Put(disk, i, None))
  /\ segments' = [segments EXCEPT ![i] = None]
  /\ op' = [op EXCEPT !.changed = TRUE]
  /\ active' = IF i = 0 THEN NoActive ELSE active
  /\ retired' = retired \cup RecordsIn(disk.file[i])
  /\ UNCHANGED <<pc, poisoned, damaged, now, calls, acked>>

ExpireFails ==
  /\ pc = "expiring" /\ \E i \in Indices : Expired(i)
  /\ Throw(op.changed, FALSE)
  /\ UNCHANGED <<disk, images>>

NoneExpired == \A i \in Indices : ~Expired(i)

\* Segments were removed: publish the manifest without them.
ExpireEnds ==
  /\ pc = "expiring" /\ NoneExpired /\ op.changed
  /\ Publish(op.then)
  /\ UNCHANGED <<disk, images, segments, active, poisoned, damaged, now, history>>

\* Where record() goes once nothing is expired: the active segment is full, or is not.
AfterExpiry ==
  IF active.bytes > 0 /\ active.bytes + op.size > SegmentMax THEN "unlinking" ELSE "opening"

Proceed ==
  /\ pc = "expiring" /\ NoneExpired /\ ~op.changed
  /\ pc' = IF op.then = "serve" THEN "idle" ELSE AfterExpiry
  /\ op' = IF op.then = "serve" THEN NoOperation ELSE op
  /\ UNCHANGED <<disk, images, segments, active, poisoned, damaged, now, history>>

\* rotateCurrentSegment: the oldest segment goes, every other moves up one place.
RotateUnlinks ==
  LET oldest == MaxSegments - 1 IN
  /\ pc = "unlinking"
  /\ Write(Put(disk, oldest, None))
  /\ segments' = [segments EXCEPT ![oldest] = None]
  /\ op' = [op EXCEPT !.index = oldest]
  /\ pc' = "renaming"
  /\ retired' = retired \cup IF disk.file[oldest] = None THEN {} ELSE RecordsIn(disk.file[oldest])
  /\ UNCHANGED <<active, poisoned, damaged, now, calls, acked>>

RotateRenames ==
  LET i == op.index IN
  /\ pc = "renaming" /\ i > 0
  /\ segments[i - 1] # None <=> disk.file[i - 1] # None
  /\ IF disk.file[i - 1] = None THEN i # 1 /\ UNCHANGED <<disk, images, segments>>
     ELSE /\ Write(MovedUp(disk, i))
          /\ segments' = [segments EXCEPT ![i] = segments[i - 1], ![i - 1] = None]
  /\ op' = [op EXCEPT !.index = i - 1]
  /\ UNCHANGED <<pc, active, poisoned, damaged, now, history>>

\* A rename or unlink fails, or a file is not where it should be.
RotateFails ==
  /\ pc \in {"unlinking", "renaming"} /\ (pc = "renaming" => op.index > 0)
  /\ Throw(pc = "renaming", FALSE)
  /\ UNCHANGED <<disk, images>>

\* Mutant of RotateEnds: the chain goes on from the old segment.
RotateEndsWithoutReset ==
  /\ pc = "renaming" /\ op.index = 0
  /\ active' = [active EXCEPT !.createdAt = None, !.bytes = 0]
  /\ Publish("open")
  /\ UNCHANGED <<disk, images, segments, poisoned, damaged, now, history>>

RotateEnds ==
  /\ pc = "renaming" /\ op.index = 0
  /\ active' = NoActive
  /\ Publish("open")
  /\ UNCHANGED <<disk, images, segments, poisoned, damaged, now, history>>

\* open(path, O_APPEND | O_CREAT), and the check of its size.
Opens ==
  LET f == IF disk.file[0] = None THEN EmptyFile ELSE disk.file[0] IN
  /\ pc = "opening"
  /\ Write(Put(disk, 0, f))
  /\ IF f.bytes = active.bytes /\ f.bytes + op.size <= SegmentMax
     THEN pc' = "appending" /\ UNCHANGED <<memory, now, history>>
     ELSE Throw(FALSE, FALSE)

OpenFails ==
  /\ pc = "opening"
  /\ Throw(FALSE, FALSE)
  /\ UNCHANGED <<disk, images>>

\* serializeRecord
NewLine == [rec |-> op.rec, prev |-> active.previousHash, at |-> op.at]
TornLine == [NewLine EXCEPT !.rec = TORN]

Extended(f, line, n) == [lines |-> Append(f.lines, line), bytes |-> f.bytes + n]

\* appendFile, fsync
Appends ==
  /\ pc = "appending"
  /\ Write(Put(disk, 0, Extended(disk.file[0], NewLine, op.size)))
  /\ pc' = "describing"
  /\ UNCHANGED <<memory, now, history>>

\* What an append that does not return leaves in the file: nothing new, a part of the
\* line, or all of it (only the fsync or the chmod fails).
Remains(f) ==
  {f, Extended(f, NewLine, op.size)} \cup {Extended(f, TornLine, n) : n \in 1..(op.size - 1)}

\* The error is not one of those that poison the logger.
AppendFails ==
  /\ pc = "appending"
  /\ \E f \in Remains(disk.file[0]) : Write(Put(disk, 0, f))
  /\ Throw(FALSE, TRUE)

\* Mutant of Describes: the time of the first record is not noted.
DescribesUndated ==
  LET bytes == active.bytes + op.size IN
  /\ pc = "describing"
  /\ active' = [createdAt |-> active.createdAt, bytes |-> bytes, previousHash |-> op.rec]
  /\ segments' = [segments EXCEPT ![0] =
       [createdAt |-> active.createdAt, bytes |-> bytes, lastHash |-> op.rec,
        sha256 |-> disk.file[0].lines]]
  /\ Publish("resolve")
  /\ UNCHANGED <<disk, images, poisoned, damaged, now, history>>

\* The descriptor of the active segment after the append.
Describes ==
  LET created == IF active.createdAt = None THEN op.at ELSE active.createdAt
      bytes == active.bytes + op.size IN
  /\ pc = "describing"
  /\ active' = [createdAt |-> created, bytes |-> bytes, previousHash |-> op.rec]
  /\ segments' = [segments EXCEPT ![0] =
       [createdAt |-> created, bytes |-> bytes, lastHash |-> op.rec,
        sha256 |-> disk.file[0].lines]]
  /\ Publish("resolve")
  /\ UNCHANGED <<disk, images, poisoned, damaged, now, history>>

\* atomicWritePrivateFile: the rename of the temporary file is what publishes it.
Publishes ==
  /\ pc = "publishing"
  /\ Write([disk EXCEPT !.manifest = segments])
  /\ pc' = "syncing"
  /\ UNCHANGED <<memory, now, history>>

\* The digest cannot be taken, or publication fails, before the rename or at the fsync of
\* the directory behind it: record() and expiry have changed segments by now.
PublishFails ==
  /\ pc \in {"describing", "publishing", "syncing"}
  /\ Throw(TRUE, FALSE)
  /\ UNCHANGED <<disk, images>>

\* Mutant of Syncs: the directory is not synced.
SyncsNothing ==
  /\ pc = "syncing"
  /\ pc' = CASE op.then = "size" -> AfterExpiry
             [] op.then = "open" -> "opening"
             [] OTHER -> "idle"
  /\ acked' = IF op.then = "resolve" THEN acked \cup {op.rec} ELSE acked
  /\ op' = IF op.then \in {"serve", "resolve"} THEN NoOperation ELSE op
  /\ UNCHANGED <<disk, images, segments, active, poisoned, damaged, now, calls, retired>>

\* Mutant of Syncs: record() looks for expired segments again.
SyncsAndExpires ==
  /\ pc = "syncing"
  /\ images' = {disk}
  /\ pc' = CASE op.then = "size" -> "expiring"
             [] op.then = "open" -> "opening"
             [] OTHER -> "idle"
  /\ acked' = IF op.then = "resolve" THEN acked \cup {op.rec} ELSE acked
  /\ op' = IF op.then \in {"serve", "resolve"} THEN NoOperation ELSE op
  /\ UNCHANGED <<disk, segments, active, poisoned, damaged, now, calls, retired>>

\* The directory is synced; the operation goes on or resolves.
Syncs ==
  /\ pc = "syncing"
  /\ images' = {disk}
  /\ pc' = CASE op.then = "size" -> AfterExpiry
             [] op.then = "open" -> "opening"
             [] OTHER -> "idle"
  /\ acked' = IF op.then = "resolve" THEN acked \cup {op.rec} ELSE acked
  /\ op' = IF op.then \in {"serve", "resolve"} THEN NoOperation ELSE op
  /\ UNCHANGED <<disk, segments, active, poisoned, damaged, now, calls, retired>>

-----------------------------------------------------------------------------
(* Failures, and time *)

\* The process ends; what it did to the files stays, part of an append included.
Crash ==
  /\ pc \notin {"down", "refused"}
  /\ IF pc = "appending" THEN \E f \in Remains(disk.file[0]) : Write(Put(disk, 0, f))
     ELSE UNCHANGED <<disk, images>>
  /\ Stops
  /\ UNCHANGED <<now, history>>

\* The machine loses power: changes since the last fsync of the directory may be lost, the
\* later ones first.
PowerFails(d) ==
  /\ d \in images
  /\ disk' = d /\ images' = {d}
  /\ Stops
  /\ UNCHANGED <<now, history>>

Tick ==
  /\ now < MaxTime
  /\ now' = now + 1
  /\ UNCHANGED <<disk, images, pc, memory, history>>

-----------------------------------------------------------------------------
\* The file operations of initialize() and record(): each succeeds or fails.
LoggerStep ==
  \/ \E i \in Indices : ExpireSegment(i)
  \/ ExpireFails \/ ExpireEnds \/ Proceed
  \/ RotateUnlinks \/ RotateRenames \/ RotateFails \/ RotateEnds
  \/ Opens \/ OpenFails \/ Appends \/ AppendFails
  \/ Describes \/ Publishes \/ PublishFails \/ Syncs

Next ==
  \/ StartFresh \/ StartVerified \/ StartRefused
  \/ \E size \in Sizes : RecordBegins(size)
  \/ LoggerStep
  \/ Crash
  \/ \E d \in images : PowerFails(d)
  \/ Tick

Spec == Init /\ [][Next]_vars

\* A file operation that was started returns, with or without an error.
FairSpec == Spec /\ WF_vars(LoggerStep)

-----------------------------------------------------------------------------
(* Properties *)

RecordsOn(d) == UNION {RecordsIn(d.file[i]) : i \in {i \in Indices : d.file[i] # None}}

\* A record that was acknowledged stays in the files until retention removes its segment:
\* no crash or loss of power between two file operations, and no failure of one, loses
\* it, in the middle of a rotation as little as anywhere else.
NothingAcknowledgedLost ==
  \A d \in images : acked \ retired \subseteq RecordsOn(d)

\* A logger that serves can be stopped and started again at any time, whatever it expired
\* and rotated, however often it was started: its files verify against its manifest and
\* its memory agrees with them.  (Not after an append failed half way: see
\* ManifestBindsFiles.)
CleanRestart ==
  pc = "idle" /\ ~poisoned /\ ~damaged =>
    /\ Verifies(disk) /\ segments = disk.manifest
    /\ active = IF segments[0] = None THEN NoActive
                ELSE [createdAt |-> segments[0].createdAt, bytes |-> segments[0].bytes,
                      previousHash |-> segments[0].lastHash]

\* When a record is acknowledged, no segment that began a retention time before it was
\* called is left, the active one included.
RetentionKept ==
  [][acked' # acked =>
       \A i \in Indices : disk'.file[i] # None =>
         op.at < disk'.file[i].lines[1].at + Retention]_vars

\* The manifest "binds each file's byte length, record count, SHA-256 digest"
\* (docs/ARCHITECTURE.md:233): whenever one is published, each entry describes its file.
ManifestBindsFiles ==
  [][pc = "publishing" /\ pc' = "syncing" =>
       \A i \in Indices : disk'.manifest[i] # None =>
         disk'.manifest[i] = Describe(disk'.file[i])]_vars

\* Every start and every record() comes to an end, so the queue of writes, and every
\* decision of the broker that waits in it, always moves on.
OperationsEnd == pc \notin {"idle", "down", "refused"} ~> pc \in {"idle", "down"}

=============================================================================
