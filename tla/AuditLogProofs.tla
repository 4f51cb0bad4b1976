---------------------------- MODULE AuditLogProofs ----------------------------
(***************************************************************************)
(* Theorems about AuditLog, for every number of records, segments and      *)
(* sizes: the types, that no acknowledged record is lost, that a logger    *)
(* which serves can always be started again, and that old segments go.     *)
(***************************************************************************)
EXTENDS AuditLog, TLAPS

-----------------------------------------------------------------------------
(* The inductive invariant, in three layers. *)

Running == pc \notin {"down", "refused"}
Busy == Running /\ pc # "idle"
OfRecord == pc \in {"unlinking", "renaming", "opening", "appending", "describing"}

\* A logger that runs knows only segments that exist, and works on a record with a
\* number and a size whenever it is past the expiry of old segments.
Present ==
  /\ Running => \A i \in Indices : segments[i] # None => disk.file[i] # None
  /\ pc \in {"appending", "describing"} => disk.file[0] # None
  /\ OfRecord \/ (Busy /\ op.then # "serve") =>
       op.kind = "record" /\ op.rec \in Records /\ op.size \in Sizes
  /\ pc = "renaming" => op.index \in Indices
  /\ pc = "expiring" => op.then \in {"serve", "size"}
  /\ Busy => ~poisoned

TypeInv == TypeOK /\ Present

\* A rename finds its destination free, and the record that is about to be acknowledged
\* is in the active segment.
KeptInv ==
  /\ NothingAcknowledgedLost
  /\ pc = "renaming" => disk.file[op.index] = None
  /\ pc = "describing" \/ (pc \in {"publishing", "syncing"} /\ op.then = "resolve") =>
       disk.file[0] # None /\ op.rec \in RecordsIn(disk.file[0])

\* Segment i is what the logger has a descriptor of.
Whole(f) == f.bytes <= SegmentMax /\ VerifiesSegment(f)
Agrees(i) ==
  /\ segments[i] # None <=> disk.file[i] # None
  /\ segments[i] # None => Whole(disk.file[i]) /\ segments[i] = Describe(disk.file[i])

ActiveAs(x) ==
  IF x = None THEN NoActive
  ELSE [createdAt |-> x.createdAt, bytes |-> x.bytes, previousHash |-> x.lastHash]

\* How far segments, descriptors and manifest agree at each step of an operation.
Coherent ==
  /\ \A i \in Indices : i > 0 \/ pc \notin {"appending", "describing"} => Agrees(i)
  /\ pc # "renaming" => active = ActiveAs(segments[0])
  /\ pc \in {"idle", "unlinking", "opening", "appending", "syncing"}
       \/ (pc = "expiring" /\ ~op.changed) => disk.manifest = segments
  /\ pc = "renaming" /\ op.index = 0 => segments[0] = None
  /\ pc \in {"opening", "appending"} => active.bytes + op.size <= SegmentMax
  /\ pc \in {"publishing", "syncing"} /\ op.then = "open" => active = NoActive
  /\ pc = "appending" =>
       IF segments[0] = None THEN disk.file[0] = EmptyFile
       ELSE Whole(disk.file[0]) /\ segments[0] = Describe(disk.file[0])
  /\ pc = "describing" =>
       LET f == disk.file[0] IN
       /\ Whole(f) /\ f.bytes = active.bytes + op.size
       /\ f.lines[1].at = IF active.createdAt = None THEN op.at ELSE active.createdAt
       /\ Last(f.lines).rec = op.rec

CleanInv == Running /\ ~poisoned /\ ~damaged => Coherent

-----------------------------------------------------------------------------
(* Files *)

LEMMA IndicesAre == Indices \subseteq Nat /\ 0 \in Indices /\ MaxSegments - 1 \in Indices
                    /\ \A i \in Indices : i > 0 => i - 1 \in Indices
BY AuditAssumption DEF Indices

\* What putting a file on the disk changes.
LEMMA PutFile ==
  ASSUME NEW d \in Disk, NEW i \in Indices, NEW f \in File \cup {None}
  PROVE  /\ Put(d, i, f) \in Disk
         /\ Put(d, i, f).manifest = d.manifest
         /\ \A j \in Indices : Put(d, i, f).file[j] = IF j = i THEN f ELSE d.file[j]
BY DEF Put, Disk

\* What a rename changes.
LEMMA MoveFile ==
  ASSUME NEW d \in Disk, NEW i \in Indices, i > 0
  PROVE  /\ MovedUp(d, i) \in Disk
         /\ MovedUp(d, i).manifest = d.manifest
         /\ \A j \in Indices : MovedUp(d, i).file[j] =
              IF j = i THEN d.file[i - 1] ELSE IF j = i - 1 THEN None ELSE d.file[j]
<1>1. i - 1 \in Indices /\ i # i - 1
  BY IndicesAre
<1>2. d.file[i - 1] \in File \cup {None}
  BY <1>1 DEF Disk
<1>3. Put(d, i, d.file[i - 1]) \in Disk
  BY <1>2, PutFile
<1> QED
  BY <1>1, <1>2, <1>3, PutFile DEF MovedUp

LEMMA FileTypes ==
  /\ EmptyFile \in File
  /\ \A f \in File, line \in Line, n \in Nat : Extended(f, line, n) \in File
  /\ \A f \in File : RecordsIn(f) \subseteq Records
<1>1. EmptyFile \in File
  BY DEF EmptyFile, File
<1>2. ASSUME NEW f \in File, NEW line \in Line, NEW n \in Nat
      PROVE  Extended(f, line, n) \in File
  BY DEF File, Extended
<1>3. ASSUME NEW f \in File PROVE RecordsIn(f) \subseteq Records
  <2>1. f.lines \in Seq(Line)
    BY DEF File
  <2>2. \A j \in DOMAIN f.lines : f.lines[j] \in Line
    BY <2>1
  <2> QED
    BY <2>2 DEF RecordsIn, ToSet, Line
<1> QED
  BY <1>1, <1>2, <1>3

LEMMA ExtendedRecords ==
  ASSUME NEW f \in File, NEW line \in Line, NEW n \in Nat
  PROVE  /\ RecordsIn(f) \subseteq RecordsIn(Extended(f, line, n))
         /\ line.rec # TORN => line.rec \in RecordsIn(Extended(f, line, n))
<1> DEFINE g == Append(f.lines, line)
<1>1. Extended(f, line, n).lines = g
  BY DEF Extended
<1>2. /\ DOMAIN g = 1..(Len(f.lines) + 1) /\ DOMAIN f.lines = 1..Len(f.lines)
      /\ Len(f.lines) \in Nat
      /\ \A j \in DOMAIN f.lines : g[j] = f.lines[j]
      /\ g[Len(f.lines) + 1] = line
  BY DEF File
<1> HIDE DEF g
<1> QED
  BY <1>1, <1>2 DEF RecordsIn, ToSet

LEMMA DescriptorType ==
  ASSUME NEW f \in File, VerifiesSegment(f)
  PROVE  Describe(f) \in Descriptor
<1>1. f.lines \in Seq(Line) /\ f.lines # <<>> /\ f.bytes \in Nat
  BY DEF File, VerifiesSegment
<1>2. 1 \in DOMAIN f.lines /\ Len(f.lines) \in DOMAIN f.lines
  BY <1>1
<1>3. f.lines[1] \in Line /\ f.lines[Len(f.lines)] \in Line
  BY <1>1, <1>2
<1>4. f.lines[1].at \in Nat /\ f.lines[Len(f.lines)].rec \in Records
  BY <1>2, <1>3 DEF VerifiesSegment, Line
<1> QED
  BY <1>1, <1>4 DEF Describe, Descriptor, Last

-----------------------------------------------------------------------------
(* Types *)

LEMMA OperationTypes ==
  ASSUME TypeOK
  PROVE  /\ NoOperation \in Operation /\ Starting \in Operation
         /\ NoSegments \in Manifest
         /\ NoActive \in [createdAt: Nat \cup {None}, bytes: Nat,
                          previousHash: Records \cup {INITIAL_HASH}]
<1>1. NoOperation \in Operation
  BY DEF NoOperation, Operation
<1>2. Starting \in Operation
  BY <1>1 DEF Starting, TypeOK, NoOperation, Operation
<1> QED
  BY <1>1, <1>2 DEF NoSegments, Manifest, NoActive

LEMMA TypeInit == Init => TypeInv
<1> SUFFICES ASSUME Init PROVE TypeInv
  OBVIOUS
<1>1. EmptyDisk \in Disk
  BY DEF EmptyDisk, Disk, NoSegments
<1>2. NoOperation \in Operation
  BY DEF NoOperation, Operation
<1>3. NoSegments \in Manifest
  BY DEF NoSegments, Manifest
<1>4. NoActive \in [createdAt: Nat \cup {None}, bytes: Nat,
                     previousHash: Records \cup {INITIAL_HASH}]
  BY DEF NoActive
<1>5. disk \in Disk /\ images \subseteq Disk /\ disk \in images
  BY <1>1 DEF Init
<1>6. calls \in 0..MaxRecords /\ acked \subseteq Records /\ retired \subseteq Records
  BY AuditAssumption DEF Init
<1>7. TypeOK
  BY <1>2, <1>3, <1>4, <1>5, <1>6 DEF Init, TypeOK
<1>8. Present
  BY DEF Init, Present, Running, Busy, OfRecord
<1> QED
  BY <1>7, <1>8 DEF TypeInv

\* An operation on the files keeps the disk well formed.
LEMMA WriteType ==
  ASSUME TypeOK, NEW d \in Disk, Write(d)
  PROVE  disk' = d /\ disk' \in Disk /\ images' \subseteq Disk /\ disk' \in images'
BY DEF TypeOK, Write

LEMMA StopsType ==
  ASSUME TypeOK, Stops, UNCHANGED <<now, history>>,
         disk' \in Disk, images' \subseteq Disk, disk' \in images'
  PROVE  TypeInv'
<1>1. TypeOK'
  BY OperationTypes DEF Stops, TypeOK, history
<1>2. Present'
  BY DEF Stops, Present, Running, Busy, OfRecord
<1> QED
  BY <1>1, <1>2 DEF TypeInv

LEMMA ThrowType ==
  ASSUME TypeInv, NEW poison \in BOOLEAN, NEW damage \in BOOLEAN, Throw(poison, damage),
         disk' \in Disk, images' \subseteq Disk, disk' \in images',
         \A i \in Indices : disk.file[i] # None => disk'.file[i] # None, Running
  PROVE  TypeInv'
<1>1. CASE op.kind = "initialize"
  BY <1>1, StopsType DEF Throw, TypeInv
<1>2. CASE op.kind # "initialize"
  <2>1. TypeOK'
    BY <1>2, OperationTypes DEF Throw, TypeOK, TypeInv, history
  <2>2. Present'
    BY <1>2 DEF Throw, TypeInv, Present, Running, Busy, OfRecord
  <2> QED
    BY <2>1, <2>2 DEF TypeInv
<1> QED
  BY <1>1, <1>2

LEMMA TypeOfStart ==
  ASSUME TypeInv, StartFresh \/ StartVerified \/ StartRefused
  PROVE  TypeInv'
<1>1. CASE StartFresh
  <2>1. TypeOK'
    BY <1>1, OperationTypes DEF StartFresh, TypeInv, TypeOK, history
  <2>2. Present'
    BY <1>1 DEF StartFresh, Present, Running, Busy, OfRecord, NoSegments, Starting, NoOperation
  <2> QED
    BY <2>1, <2>2 DEF TypeInv
<1>2. CASE StartVerified
  <2>1. disk.manifest \in Manifest
    BY <1>2 DEF StartVerified, Verifies, TypeInv, TypeOK, Disk
  <2>2. active' \in [createdAt: Nat \cup {None}, bytes: Nat,
                     previousHash: Records \cup {INITIAL_HASH}]
    BY <1>2, <2>1, OperationTypes, IndicesAre
      DEF StartVerified, TypeInv, Manifest, Descriptor
  <2>3. TypeOK'
    BY <1>2, <2>1, <2>2, OperationTypes DEF StartVerified, TypeInv, TypeOK, history
  <2>4. Present'
    BY <1>2 DEF StartVerified, Verifies, Present, Running, Busy, OfRecord, Starting,
                NoOperation
  <2> QED
    BY <2>3, <2>4 DEF TypeInv
<1>3. CASE StartRefused
  BY <1>3 DEF StartRefused, TypeInv, TypeOK, Present, Running, Busy, OfRecord, memory, history
<1> QED
  BY <1>1, <1>2, <1>3

LEMMA TypeOfRecordBegins ==
  ASSUME TypeInv, NEW size \in Sizes, RecordBegins(size)
  PROVE  TypeInv'
<1>1. calls + 1 \in Records /\ calls' \in 0..MaxRecords /\ size \in Nat
  BY AuditAssumption DEF RecordBegins, TypeInv, TypeOK, Records
<1>2. op' \in Operation /\ op'.kind = "record" /\ op'.rec \in Records /\ op'.size = size
      /\ op'.then = "size"
  BY <1>1 DEF RecordBegins, Recording, Operation, TypeInv, TypeOK
<1>3. TypeOK'
  BY <1>1, <1>2 DEF RecordBegins, TypeInv, TypeOK
<1>4. Present'
  BY <1>2 DEF RecordBegins, TypeInv, Present, Running, Busy, OfRecord
<1> QED
  BY <1>3, <1>4 DEF TypeInv

LEMMA TypeOfExpiry ==
  ASSUME TypeInv,
         (\E i \in Indices : ExpireSegment(i)) \/ ExpireFails \/ ExpireEnds \/ Proceed
  PROVE  TypeInv'
<1>1. ASSUME NEW i \in Indices, ExpireSegment(i) PROVE TypeInv'
  <2>1. disk.file[i] \in File
    BY <1>1 DEF ExpireSegment, Expired, TypeInv, TypeOK, Present, Running, Disk
  <2>2. /\ Put(disk, i, None) \in Disk
        /\ \A j \in Indices : Put(disk, i, None).file[j] = IF j = i THEN None ELSE disk.file[j]
    BY PutFile DEF TypeInv, TypeOK
  <2>3. disk' = Put(disk, i, None) /\ disk' \in Disk /\ images' \subseteq Disk
        /\ disk' \in images'
    BY <1>1, <2>2, WriteType DEF ExpireSegment, TypeInv
  <2>4. op' \in Operation /\ op'.then = op.then /\ op'.kind = op.kind /\ op'.rec = op.rec
        /\ op'.size = op.size
    BY <1>1 DEF ExpireSegment, TypeInv, TypeOK, Operation
  <2>5. segments' \in Manifest /\ retired' \subseteq Records
    BY <1>1, <2>1, FileTypes DEF ExpireSegment, TypeInv, TypeOK, Manifest
  <2>6. TypeOK'
    BY <1>1, <2>3, <2>4, <2>5, OperationTypes DEF ExpireSegment, TypeInv, TypeOK
  <2>7. Present'
    BY <1>1, <2>2, <2>3, <2>4
      DEF ExpireSegment, TypeInv, TypeOK, Present, Running, Busy, OfRecord, Manifest
  <2> QED
    BY <2>6, <2>7 DEF TypeInv
<1>2. CASE ExpireFails
  <2>1. op.changed \in BOOLEAN
    BY DEF TypeInv, TypeOK, Operation
  <2> QED
    BY <1>2, <2>1, ThrowType DEF ExpireFails, TypeInv, TypeOK, Running
<1>3. CASE ExpireEnds
  <2>1. op' = op
    BY <1>3 DEF ExpireEnds, Publish, TypeInv, TypeOK, Operation
  <2> QED
    BY <1>3, <2>1 DEF ExpireEnds, Publish, TypeInv, TypeOK, Present, Running, Busy, OfRecord,
                      history
<1>4. CASE Proceed
  <2>1. TypeOK'
    BY <1>4, OperationTypes DEF Proceed, AfterExpiry, TypeInv, TypeOK, history
  <2>2. Present'
    BY <1>4 DEF Proceed, AfterExpiry, TypeInv, Present, Running, Busy, OfRecord
  <2> QED
    BY <2>1, <2>2 DEF TypeInv
<1> QED
  BY <1>1, <1>2, <1>3, <1>4

LEMMA TypeOfRotation ==
  ASSUME TypeInv, RotateUnlinks \/ RotateRenames \/ RotateFails \/ RotateEnds
  PROVE  TypeInv'
<1>1. CASE RotateUnlinks
  <2> DEFINE k == MaxSegments - 1
  <2>1. k \in Indices
    BY IndicesAre
  <2>2. /\ Put(disk, k, None) \in Disk
        /\ \A j \in Indices : Put(disk, k, None).file[j] = IF j = k THEN None ELSE disk.file[j]
    BY <2>1, PutFile DEF TypeInv, TypeOK
  <2>3. disk' = Put(disk, k, None) /\ disk' \in Disk /\ images' \subseteq Disk
        /\ disk' \in images'
    BY <1>1, <2>2, WriteType DEF RotateUnlinks, TypeInv
  <2>4. op' \in Operation /\ op'.kind = op.kind /\ op'.rec = op.rec /\ op'.size = op.size
        /\ op'.index = k
    BY <1>1, <2>1, IndicesAre DEF RotateUnlinks, TypeInv, TypeOK, Operation
  <2>5. segments' \in Manifest /\ (\A j \in Indices : segments'[j] = IF j = k THEN None ELSE segments[j])
    BY <1>1, <2>1 DEF RotateUnlinks, TypeInv, TypeOK, Manifest
  <2>6. retired' \subseteq Records
    BY <1>1, <2>1, FileTypes DEF RotateUnlinks, TypeInv, TypeOK, Disk
  <2>7. TypeOK'
    BY <1>1, <2>3, <2>4, <2>5, <2>6 DEF RotateUnlinks, TypeInv, TypeOK
  <2>8. Present'
    BY <1>1, <2>1, <2>2, <2>3, <2>4, <2>5
      DEF RotateUnlinks, TypeInv, Present, Running, Busy, OfRecord
  <2> QED
    BY <2>7, <2>8 DEF TypeInv
<1>2. CASE RotateRenames
  <2> DEFINE i == op.index
  <2>1. i \in Indices /\ i > 0 /\ i - 1 \in Indices
    BY <1>2, IndicesAre DEF RotateRenames, TypeInv, Present
  <2>2. op' \in Operation /\ op'.kind = op.kind /\ op'.rec = op.rec /\ op'.size = op.size
        /\ op'.index = i - 1
    BY <1>2, <2>1, IndicesAre DEF RotateRenames, TypeInv, TypeOK, Operation
  <2>3. CASE disk.file[i - 1] = None
    <3>1. TypeOK'
      BY <1>2, <2>2, <2>3 DEF RotateRenames, TypeInv, TypeOK, history
    <3>2. Present'
      BY <1>2, <2>1, <2>2, <2>3 DEF RotateRenames, TypeInv, Present, Running, Busy, OfRecord
    <3> QED
      BY <3>1, <3>2 DEF TypeInv
  <2>4. CASE disk.file[i - 1] # None
    <3>1. /\ MovedUp(disk, i) \in Disk
          /\ \A j \in Indices : MovedUp(disk, i).file[j] =
               IF j = i THEN disk.file[i - 1] ELSE IF j = i - 1 THEN None ELSE disk.file[j]
      BY <2>1, MoveFile DEF TypeInv, TypeOK
    <3>2. disk' = MovedUp(disk, i) /\ disk' \in Disk /\ images' \subseteq Disk
          /\ disk' \in images'
      BY <1>2, <2>4, <3>1, WriteType DEF RotateRenames, TypeInv
    <3>3. /\ segments' \in Manifest
          /\ \A j \in Indices : segments'[j] =
               IF j = i - 1 THEN None ELSE IF j = i THEN segments[i - 1] ELSE segments[j]
      BY <1>2, <2>1, <2>4 DEF RotateRenames, TypeInv, TypeOK, Manifest
    <3>4. TypeOK'
      BY <1>2, <2>2, <3>2, <3>3 DEF RotateRenames, TypeInv, TypeOK, history
    <3>5. Present'
      BY <1>2, <2>1, <2>2, <2>4, <3>1, <3>2, <3>3
        DEF RotateRenames, TypeInv, Present, Running, Busy, OfRecord
    <3> QED
      BY <3>4, <3>5 DEF TypeInv
  <2> QED
    BY <2>3, <2>4
<1>3. CASE RotateFails
  BY <1>3, ThrowType DEF RotateFails, TypeInv, TypeOK, Running
<1>4. CASE RotateEnds
  <2>1. op' \in Operation /\ op'.kind = op.kind /\ op'.rec = op.rec /\ op'.size = op.size
    BY <1>4 DEF RotateEnds, Publish, TypeInv, TypeOK, Operation
  <2>2. TypeOK'
    BY <1>4, <2>1, OperationTypes DEF RotateEnds, Publish, TypeInv, TypeOK, history
  <2>3. Present'
    BY <1>4, <2>1 DEF RotateEnds, Publish, TypeInv, Present, Running, Busy, OfRecord
  <2> QED
    BY <2>2, <2>3 DEF TypeInv
<1> QED
  BY <1>1, <1>2, <1>3, <1>4

LEMMA LineTypes ==
  ASSUME TypeInv, pc = "appending"
  PROVE  /\ NewLine \in Line /\ TornLine \in Line /\ NewLine.rec = op.rec /\ op.rec # TORN
         /\ disk.file[0] \in File
         /\ \A f \in Remains(disk.file[0]) : f \in File
         /\ Extended(disk.file[0], NewLine, op.size) \in File
<1>1. op.rec \in Records /\ op.size \in Nat /\ op.at \in Nat
      /\ active.previousHash \in Records \cup {INITIAL_HASH}
  BY DEF TypeInv, TypeOK, Present, OfRecord, Operation
<1>2. NewLine \in Line /\ TornLine \in Line /\ NewLine.rec = op.rec /\ op.rec # TORN
  BY <1>1 DEF NewLine, TornLine, Line, TORN, Records
<1>3. disk.file[0] \in File
  BY IndicesAre DEF TypeInv, TypeOK, Present, Disk
<1> QED
  BY <1>1, <1>2, <1>3, FileTypes DEF Remains

LEMMA TypeOfAppend ==
  ASSUME TypeInv, Opens \/ OpenFails \/ Appends \/ AppendFails
  PROVE  TypeInv'
<1>0. 0 \in Indices
  BY IndicesAre
<1>1. ASSUME NEW f \in File, Write(Put(disk, 0, f))
      PROVE  /\ disk' \in Disk /\ images' \subseteq Disk /\ disk' \in images'
             /\ disk'.file[0] # None
             /\ \A i \in Indices : disk.file[i] # None => disk'.file[i] # None
  <2>1. /\ Put(disk, 0, f) \in Disk
        /\ \A j \in Indices : Put(disk, 0, f).file[j] = IF j = 0 THEN f ELSE disk.file[j]
    BY <1>0, PutFile DEF TypeInv, TypeOK
  <2> QED
    BY <1>0, <1>1, <2>1, WriteType, NoneAssumption DEF TypeInv
<1>2. CASE Opens
  <2>1. PICK f \in File :
          /\ Write(Put(disk, 0, f))
          /\ \/ pc' = "appending" /\ UNCHANGED <<memory, now, history>>
             \/ Throw(FALSE, FALSE)
    <3>1. EmptyFile \in File /\ disk.file[0] \in File \cup {None}
      BY <1>0, FileTypes DEF TypeInv, TypeOK, Disk
    <3> QED
      BY <1>2, <3>1 DEF Opens
  <2>2. CASE pc' = "appending" /\ UNCHANGED <<memory, now, history>>
    BY <1>1, <1>2, <2>1, <2>2
      DEF Opens, TypeInv, TypeOK, Present, Running, Busy, OfRecord, memory, history
  <2>3. CASE Throw(FALSE, FALSE)
    BY <1>1, <1>2, <2>1, <2>3, ThrowType DEF Opens, Running
  <2> QED
    BY <2>1, <2>2, <2>3
<1>3. CASE OpenFails
  BY <1>3, ThrowType DEF OpenFails, TypeInv, TypeOK, Running
<1>4. CASE Appends
  <2>1. Extended(disk.file[0], NewLine, op.size) \in File
    BY <1>4, LineTypes DEF Appends
  <2> QED
    BY <1>1, <1>4, <2>1
      DEF Appends, TypeInv, TypeOK, Present, Running, Busy, OfRecord, memory, history
<1>5. CASE AppendFails
  <2>1. PICK f \in Remains(disk.file[0]) : Write(Put(disk, 0, f))
    BY <1>5 DEF AppendFails
  <2>2. f \in File
    BY <1>5, LineTypes DEF AppendFails
  <2> QED
    BY <1>1, <1>5, <2>1, <2>2, ThrowType DEF AppendFails, Running
<1> QED
  BY <1>2, <1>3, <1>4, <1>5

LEMMA DescribedType ==
  ASSUME TypeInv, Describes
  PROVE  /\ active' \in [createdAt: Nat \cup {None}, bytes: Nat,
                         previousHash: Records \cup {INITIAL_HASH}]
         /\ segments' \in Manifest
         /\ \A j \in Indices : j # 0 => segments'[j] = segments[j]
<1>1. op.rec \in Records /\ op.size \in Nat /\ op.at \in Nat
  BY DEF Describes, TypeInv, TypeOK, Present, OfRecord, Operation
<1>2. disk.file[0] \in File
  BY IndicesAre DEF Describes, TypeInv, TypeOK, Present, Disk
<1>3. active.bytes + op.size \in Nat /\ active.createdAt \in Nat \cup {None}
  BY <1>1 DEF TypeInv, TypeOK
<1>4. PICK c \in Nat :
        /\ active' = [createdAt |-> c, bytes |-> active.bytes + op.size,
                      previousHash |-> op.rec]
        /\ segments' = [segments EXCEPT ![0] =
             [createdAt |-> c, bytes |-> active.bytes + op.size, lastHash |-> op.rec,
              sha256 |-> disk.file[0].lines]]
  BY <1>1, <1>3 DEF Describes
<1>5. [createdAt |-> c, bytes |-> active.bytes + op.size, lastHash |-> op.rec,
       sha256 |-> disk.file[0].lines] \in Descriptor
  BY <1>1, <1>2, <1>3 DEF Descriptor, File
<1>6. segments' \in Manifest
  BY <1>4, <1>5 DEF TypeInv, TypeOK, Manifest
<1> QED
  BY <1>1, <1>3, <1>4, <1>6 DEF TypeInv, TypeOK, Manifest

LEMMA TypeOfPublish ==
  ASSUME TypeInv, Describes \/ Publishes \/ PublishFails \/ Syncs
  PROVE  TypeInv'
<1>1. CASE Describes
  <2>1. op' \in Operation /\ op'.kind = op.kind /\ op'.rec = op.rec /\ op'.size = op.size
    BY <1>1 DEF Describes, Publish, TypeInv, TypeOK, Operation
  <2>2. pc' = "publishing" /\ UNCHANGED <<disk, images, poisoned, damaged, now, history>>
    BY <1>1 DEF Describes, Publish
  <2>3. TypeOK'
    BY <1>1, <2>1, <2>2, DescribedType DEF TypeInv, TypeOK, history
  <2>4. Present'
    BY <1>1, <2>1, <2>2, DescribedType
      DEF Describes, TypeInv, Present, Running, Busy, OfRecord
  <2> QED
    BY <2>3, <2>4 DEF TypeInv
<1>2. CASE Publishes
  <2> DEFINE d == [disk EXCEPT !.manifest = segments]
  <2>1. d \in Disk /\ d.file = disk.file
    BY DEF TypeInv, TypeOK, Disk
  <2>2. disk' = d /\ disk' \in Disk /\ images' \subseteq Disk /\ disk' \in images'
    BY <1>2, <2>1, WriteType DEF Publishes, TypeInv
  <2>3. pc' = "syncing" /\ UNCHANGED <<memory, now, history>>
    BY <1>2 DEF Publishes
  <2> HIDE DEF d
  <2>4. TypeOK'
    BY <2>2, <2>3 DEF TypeInv, TypeOK, memory, history
  <2>5. Present'
    BY <1>2, <2>1, <2>2, <2>3
      DEF Publishes, TypeInv, Present, Running, Busy, OfRecord, memory
  <2> QED
    BY <2>4, <2>5 DEF TypeInv
<1>3. CASE PublishFails
  BY <1>3, ThrowType DEF PublishFails, TypeInv, TypeOK, Running
<1>4. CASE Syncs
  <2>1. acked' \subseteq Records
    BY <1>4 DEF Syncs, TypeInv, TypeOK, Present, Busy, Running
  <2>2. TypeOK'
    BY <1>4, <2>1, OperationTypes DEF Syncs, AfterExpiry, TypeInv, TypeOK
  <2>3. Present'
    BY <1>4 DEF Syncs, AfterExpiry, TypeInv, TypeOK, Operation, Present, Running, Busy, OfRecord
  <2> QED
    BY <2>2, <2>3 DEF TypeInv
<1> QED
  BY <1>1, <1>2, <1>3, <1>4

\* What is left on the disk when the process stops in the middle of an append.
LEMMA CrashedDisk ==
  ASSUME TypeInv, pc = "appending", NEW f \in Remains(disk.file[0]), Write(Put(disk, 0, f))
  PROVE  disk' \in Disk /\ images' \subseteq Disk /\ disk' \in images'
<1>1. f \in File /\ 0 \in Indices
  BY LineTypes, IndicesAre
<1>2. Put(disk, 0, f) \in Disk
  BY <1>1, PutFile DEF TypeInv, TypeOK
<1> QED
  BY <1>2, WriteType DEF TypeInv

LEMMA TypeOfFailures ==
  ASSUME TypeInv, Crash \/ (\E d \in images : PowerFails(d)) \/ Tick
  PROVE  TypeInv'
<1>1. CASE Crash
  <2>1. disk' \in Disk /\ images' \subseteq Disk /\ disk' \in images'
    BY <1>1, CrashedDisk DEF Crash, TypeInv, TypeOK
  <2> QED
    BY <1>1, <2>1, StopsType DEF Crash, TypeInv
<1>2. ASSUME NEW d \in images, PowerFails(d) PROVE TypeInv'
  <2>1. disk' \in Disk /\ images' \subseteq Disk /\ disk' \in images'
    BY <1>2 DEF PowerFails, TypeInv, TypeOK
  <2> QED
    BY <1>2, <2>1, StopsType DEF PowerFails, TypeInv
<1>3. CASE Tick
  BY <1>3 DEF Tick, TypeInv, TypeOK, Present, Running, Busy, OfRecord, memory, history
<1> QED
  BY <1>1, <1>2, <1>3

LEMMA TypeStep == TypeInv /\ [Next]_vars => TypeInv'
<1> SUFFICES ASSUME TypeInv, [Next]_vars PROVE TypeInv'
  OBVIOUS
<1>1. CASE StartFresh \/ StartVerified \/ StartRefused
  BY <1>1, TypeOfStart
<1>2. CASE \E size \in Sizes : RecordBegins(size)
  BY <1>2, TypeOfRecordBegins
<1>3. CASE LoggerStep
  BY <1>3, TypeOfExpiry, TypeOfRotation, TypeOfAppend, TypeOfPublish DEF LoggerStep
<1>4. CASE Crash \/ (\E d \in images : PowerFails(d)) \/ Tick
  BY <1>4, TypeOfFailures
<1>5. CASE UNCHANGED vars
  BY <1>5 DEF vars, TypeInv, TypeOK, Present, Running, Busy, OfRecord, memory, history
<1> QED
  BY <1>1, <1>2, <1>3, <1>4, <1>5 DEF Next

\* Whatever fails, and whenever the process or the machine stops, the files, descriptors
\* and positions of the logger of audit.ts keep their types; in particular a descriptor
\* is never taken of a file that is gone.
THEOREM AuditTypeCorrect == Spec => []TypeOK
<1>1. Init => TypeInv
  BY TypeInit
<1>2. TypeInv /\ [Next]_vars => TypeInv'
  BY TypeStep
<1>3. TypeInv => TypeOK
  BY DEF TypeInv
<1> QED
  BY <1>1, <1>2, <1>3, PTL DEF Spec

-----------------------------------------------------------------------------
(* No acknowledged record is lost. *)

LEMMA OnDisk ==
  ASSUME NEW d, NEW r
  PROVE  r \in RecordsOn(d) <=> \E i \in Indices : d.file[i] # None /\ r \in RecordsIn(d.file[i])
BY DEF RecordsOn

\* A step that acknowledges nothing keeps the acknowledged records if the disk it leaves
\* has them.
LEMMA KeepsRecords ==
  ASSUME TypeInv, NothingAcknowledgedLost, acked' = acked, retired \subseteq retired',
         \/ images' \subseteq images
         \/ images' = images \cup {disk'} /\ RecordsOn(disk) \ retired' \subseteq RecordsOn(disk')
  PROVE  NothingAcknowledgedLost'
<1>1. disk \in images
  BY DEF TypeInv, TypeOK
<1>2. \A d \in images' : acked \ retired' \subseteq RecordsOn(d)
  BY <1>1 DEF NothingAcknowledgedLost
<1> QED
  BY <1>2 DEF NothingAcknowledgedLost

LEMMA KeptElsewhere ==
  ASSUME NothingAcknowledgedLost', pc' \notin {"renaming", "describing", "publishing", "syncing"}
  PROVE  KeptInv'
BY DEF KeptInv

LEMMA ThrowKeeps ==
  ASSUME NEW poison, NEW damage, Throw(poison, damage), NothingAcknowledgedLost'
  PROVE  KeptInv'
BY KeptElsewhere DEF Throw, Stops

\* Replacing a file by one with the same records, and perhaps more.
LEMMA PutKeeps ==
  ASSUME NEW d \in Disk, NEW i \in Indices, NEW f \in File,
         d.file[i] # None => RecordsIn(d.file[i]) \subseteq RecordsIn(f)
  PROVE  RecordsOn(d) \subseteq RecordsOn(Put(d, i, f))
<1> SUFFICES ASSUME NEW r \in RecordsOn(d) PROVE r \in RecordsOn(Put(d, i, f))
  OBVIOUS
<1>1. PICK j \in Indices : d.file[j] # None /\ r \in RecordsIn(d.file[j])
  BY OnDisk
<1>2. \A k \in Indices : Put(d, i, f).file[k] = IF k = i THEN f ELSE d.file[k]
  BY PutFile
<1>3. Put(d, i, f).file[j] # None /\ r \in RecordsIn(Put(d, i, f).file[j])
  BY <1>1, <1>2, NoneAssumption
<1> QED
  BY <1>3, OnDisk

LEMMA KeptOfStart ==
  ASSUME TypeInv, KeptInv,
         StartFresh \/ StartVerified \/ StartRefused \/ \E size \in Sizes : RecordBegins(size)
  PROVE  KeptInv'
<1>1. NothingAcknowledgedLost'
  BY KeepsRecords DEF KeptInv, StartFresh, StartVerified, StartRefused, RecordBegins, history
<1>2. CASE StartFresh
  BY <1>1, <1>2 DEF StartFresh, Starting, NoOperation, KeptInv
<1>3. CASE StartVerified \/ StartRefused \/ \E size \in Sizes : RecordBegins(size)
  BY <1>1, <1>3, KeptElsewhere DEF StartVerified, StartRefused, RecordBegins
<1> QED
  BY <1>2, <1>3

LEMMA KeptOfExpiry ==
  ASSUME TypeInv, KeptInv,
         (\E i \in Indices : ExpireSegment(i)) \/ ExpireFails \/ ExpireEnds \/ Proceed
  PROVE  KeptInv'
<1>1. ASSUME NEW i \in Indices, ExpireSegment(i) PROVE KeptInv'
  <2>1. \A j \in Indices : disk'.file[j] = IF j = i THEN None ELSE disk.file[j]
    BY <1>1, PutFile DEF ExpireSegment, Write, TypeInv, TypeOK
  <2>2. retired' = retired \cup RecordsIn(disk.file[i])
    BY <1>1 DEF ExpireSegment
  <2>3. RecordsOn(disk) \ retired' \subseteq RecordsOn(disk')
    BY <2>1, <2>2, OnDisk
  <2>4. NothingAcknowledgedLost'
    BY <1>1, <2>3, KeepsRecords DEF ExpireSegment, Write, KeptInv
  <2> QED
    BY <1>1, <2>4, KeptElsewhere DEF ExpireSegment
<1>2. CASE ExpireFails
  <2>1. NothingAcknowledgedLost'
    BY <1>2, KeepsRecords DEF ExpireFails, Throw, history, KeptInv
  <2> QED
    BY <1>2, <2>1, ThrowKeeps DEF ExpireFails
<1>3. CASE ExpireEnds
  <2>1. NothingAcknowledgedLost'
    BY <1>3, KeepsRecords DEF ExpireEnds, history, KeptInv
  <2>2. pc' = "publishing" /\ op'.then # "resolve"
    BY <1>3 DEF ExpireEnds, Publish, TypeInv, TypeOK, Operation, Present
  <2> QED
    BY <2>1, <2>2 DEF KeptInv
<1>4. CASE Proceed
  <2>1. NothingAcknowledgedLost'
    BY <1>4, KeepsRecords DEF Proceed, history, KeptInv
  <2> QED
    BY <1>4, <2>1, KeptElsewhere DEF Proceed, AfterExpiry
<1> QED
  BY <1>1, <1>2, <1>3, <1>4

LEMMA KeptOfRotation ==
  ASSUME TypeInv, KeptInv, RotateUnlinks \/ RotateRenames \/ RotateFails \/ RotateEnds
  PROVE  KeptInv'
<1>1. CASE RotateUnlinks
  <2> DEFINE k == MaxSegments - 1
  <2>1. k \in Indices
    BY IndicesAre
  <2>2. \A j \in Indices : disk'.file[j] = IF j = k THEN None ELSE disk.file[j]
    BY <1>1, <2>1, PutFile DEF RotateUnlinks, Write, TypeInv, TypeOK
  <2>3. disk.file[k] # None => RecordsIn(disk.file[k]) \subseteq retired'
    BY <1>1 DEF RotateUnlinks
  <2>4. RecordsOn(disk) \ retired' \subseteq RecordsOn(disk')
    BY <2>2, <2>3, OnDisk
  <2>5. retired \subseteq retired' /\ acked' = acked /\ images' = images \cup {disk'}
    BY <1>1 DEF RotateUnlinks, Write
  <2>6. NothingAcknowledgedLost'
    BY <2>4, <2>5, KeepsRecords DEF KeptInv
  <2>7. pc' = "renaming" /\ op'.index = k
    BY <1>1 DEF RotateUnlinks, TypeInv, TypeOK, Operation
  <2> QED
    BY <2>1, <2>2, <2>6, <2>7 DEF KeptInv
<1>2. CASE RotateRenames
  <2> DEFINE i == op.index
  <2>1. i \in Indices /\ i > 0 /\ i - 1 \in Indices /\ i - 1 # i
    BY <1>2, IndicesAre DEF RotateRenames, TypeInv, Present
  <2>2. pc' = "renaming" /\ op'.index = i - 1
    BY <1>2 DEF RotateRenames, TypeInv, TypeOK, Operation
  <2>3. disk.file[i] = None
    BY <1>2 DEF RotateRenames, KeptInv
  <2>4. CASE disk.file[i - 1] = None
    <3>1. NothingAcknowledgedLost' /\ disk' = disk
      BY <1>2, <2>4, KeepsRecords DEF RotateRenames, history, KeptInv
    <3> QED
      BY <2>2, <2>4, <3>1 DEF KeptInv
  <2>5. CASE disk.file[i - 1] # None
    <3>1. \A j \in Indices : disk'.file[j] =
            IF j = i THEN disk.file[i - 1] ELSE IF j = i - 1 THEN None ELSE disk.file[j]
      BY <1>2, <2>1, <2>5, MoveFile DEF RotateRenames, Write, TypeInv, TypeOK
    <3>2. RecordsOn(disk) \subseteq RecordsOn(disk')
      <4> SUFFICES ASSUME NEW r \in RecordsOn(disk) PROVE r \in RecordsOn(disk')
        OBVIOUS
      <4>1. PICK j \in Indices : disk.file[j] # None /\ r \in RecordsIn(disk.file[j])
        BY OnDisk
      <4>2. CASE j = i - 1
        BY <2>1, <3>1, <4>1, <4>2, OnDisk
      <4>3. CASE j # i - 1
        BY <2>3, <3>1, <4>1, <4>3, OnDisk
      <4> QED
        BY <4>2, <4>3
    <3>3. retired' = retired /\ acked' = acked /\ images' = images \cup {disk'}
      BY <1>2, <2>5 DEF RotateRenames, Write, history
    <3>4. NothingAcknowledgedLost'
      BY <3>2, <3>3, KeepsRecords DEF KeptInv
    <3> QED
      BY <2>1, <2>2, <3>1, <3>4 DEF KeptInv
  <2> QED
    BY <2>4, <2>5
<1>3. CASE RotateFails
  <2>1. NothingAcknowledgedLost'
    BY <1>3, KeepsRecords DEF RotateFails, Throw, history, KeptInv
  <2> QED
    BY <1>3, <2>1, ThrowKeeps DEF RotateFails
<1>4. CASE RotateEnds
  <2>1. NothingAcknowledgedLost'
    BY <1>4, KeepsRecords DEF RotateEnds, history, KeptInv
  <2>2. pc' = "publishing" /\ op'.then = "open"
    BY <1>4 DEF RotateEnds, Publish, TypeInv, TypeOK, Operation
  <2> QED
    BY <2>1, <2>2 DEF KeptInv
<1> QED
  BY <1>1, <1>2, <1>3, <1>4

\* An append, or what is left of one, only adds records.
LEMMA RemainsKeep ==
  ASSUME TypeInv, pc = "appending", NEW f \in Remains(disk.file[0])
  PROVE  f \in File /\ RecordsIn(disk.file[0]) \subseteq RecordsIn(f)
<1>1. disk.file[0] \in File /\ NewLine \in Line /\ TornLine \in Line /\ f \in File
  BY LineTypes
<1>2. op.size \in Nat
  BY DEF TypeInv, TypeOK, Operation
<1>3. CASE f = disk.file[0]
  BY <1>1, <1>3
<1>4. CASE f = Extended(disk.file[0], NewLine, op.size)
  BY <1>1, <1>2, <1>4, ExtendedRecords
<1>5. ASSUME NEW n \in 1..(op.size - 1), f = Extended(disk.file[0], TornLine, n)
      PROVE  RecordsIn(disk.file[0]) \subseteq RecordsIn(f)
  <2>1. n \in Nat
    BY <1>2
  <2> QED
    BY <1>1, <1>5, <2>1, ExtendedRecords
<1> QED
  BY <1>1, <1>3, <1>4, <1>5 DEF Remains

LEMMA KeptOfWrite ==
  ASSUME TypeInv, KeptInv, NEW f \in File, Write(Put(disk, 0, f)), acked' = acked,
         retired' = retired, disk.file[0] # None => RecordsIn(disk.file[0]) \subseteq RecordsIn(f)
  PROVE  NothingAcknowledgedLost' /\ disk'.file[0] = f
<1>1. RecordsOn(disk) \subseteq RecordsOn(disk')
  BY IndicesAre, PutKeeps DEF Write, TypeInv, TypeOK
<1>2. NothingAcknowledgedLost'
  BY <1>1, KeepsRecords DEF Write, KeptInv
<1> QED
  BY <1>2, IndicesAre, PutFile DEF Write, TypeInv, TypeOK

LEMMA KeptOfAppend ==
  ASSUME TypeInv, KeptInv, Opens \/ OpenFails \/ Appends \/ AppendFails
  PROVE  KeptInv'
<1>1. acked' = acked /\ retired' = retired
  BY DEF Opens, OpenFails, Appends, AppendFails, Throw, history
<1>2. CASE Opens
  <2> DEFINE f == IF disk.file[0] = None THEN EmptyFile ELSE disk.file[0]
  <2>1. f \in File
    BY IndicesAre, FileTypes DEF TypeInv, TypeOK, Disk
  <2>2. Write(Put(disk, 0, f))
    BY <1>2 DEF Opens
  <2>3. disk.file[0] # None => f = disk.file[0]
    OBVIOUS
  <2> HIDE DEF f
  <2>4. NothingAcknowledgedLost'
    BY <1>1, <2>1, <2>2, <2>3, KeptOfWrite
  <2> QED
    BY <1>2, <2>4, KeptElsewhere, ThrowKeeps DEF Opens
<1>3. CASE OpenFails
  <2>1. NothingAcknowledgedLost'
    BY <1>1, <1>3, KeepsRecords DEF OpenFails, KeptInv
  <2> QED
    BY <1>3, <2>1, ThrowKeeps DEF OpenFails
<1>4. CASE Appends
  <2> DEFINE f == Extended(disk.file[0], NewLine, op.size)
  <2>1. pc = "appending" /\ Write(Put(disk, 0, f)) /\ pc' = "describing" /\ op' = op
    BY <1>4 DEF Appends, memory
  <2>2. f \in File /\ RecordsIn(disk.file[0]) \subseteq RecordsIn(f) /\ op.rec \in RecordsIn(f)
    <3>1. disk.file[0] \in File /\ NewLine \in Line /\ NewLine.rec = op.rec /\ op.rec # TORN
          /\ op.size \in Nat /\ f \in File
      BY <2>1, LineTypes DEF TypeInv, TypeOK, Operation
    <3> QED
      BY <3>1, ExtendedRecords
  <2> HIDE DEF f
  <2>3. NothingAcknowledgedLost' /\ disk'.file[0] = f
    BY <1>1, <2>1, <2>2, KeptOfWrite
  <2> QED
    BY <2>1, <2>2, <2>3, NoneAssumption DEF KeptInv
<1>5. CASE AppendFails
  <2>1. PICK f \in Remains(disk.file[0]) : Write(Put(disk, 0, f))
    BY <1>5 DEF AppendFails
  <2>2. NothingAcknowledgedLost'
    BY <1>1, <1>5, <2>1, RemainsKeep, KeptOfWrite DEF AppendFails
  <2> QED
    BY <1>5, <2>2, ThrowKeeps DEF AppendFails
<1> QED
  BY <1>2, <1>3, <1>4, <1>5

LEMMA KeptOfPublish ==
  ASSUME TypeInv, KeptInv, Describes \/ Publishes \/ PublishFails \/ Syncs
  PROVE  KeptInv'
<1>1. CASE Describes
  <2>1. pc = "describing" /\ pc' = "publishing" /\ disk' = disk /\ op'.rec = op.rec
    BY <1>1 DEF Describes, Publish, TypeInv, TypeOK, Operation
  <2>2. NothingAcknowledgedLost'
    BY <1>1, KeepsRecords DEF Describes, history, KeptInv
  <2> QED
    BY <2>1, <2>2 DEF KeptInv
<1>2. CASE Publishes
  <2>1. /\ disk'.file = disk.file /\ images' = images \cup {disk'}
        /\ pc = "publishing" /\ pc' = "syncing" /\ op' = op
        /\ acked' = acked /\ retired' = retired
    BY <1>2 DEF Publishes, Write, memory, history, TypeInv, TypeOK, Disk
  <2>2. RecordsOn(disk) \subseteq RecordsOn(disk')
    BY <2>1, OnDisk
  <2>3. NothingAcknowledgedLost'
    BY <2>1, <2>2, KeepsRecords DEF KeptInv
  <2> QED
    BY <2>1, <2>3 DEF KeptInv
<1>3. CASE PublishFails
  <2>1. NothingAcknowledgedLost'
    BY <1>3, KeepsRecords DEF PublishFails, Throw, history, KeptInv
  <2> QED
    BY <1>3, <2>1, ThrowKeeps DEF PublishFails
<1>4. CASE Syncs
  <2>1. images' = {disk} /\ retired' = retired /\ disk \in images
    BY <1>4 DEF Syncs, TypeInv, TypeOK
  <2>2. acked \ retired \subseteq RecordsOn(disk)
    BY <2>1 DEF KeptInv, NothingAcknowledgedLost
  <2>3. acked' \ retired \subseteq RecordsOn(disk)
    <3>1. CASE op.then = "resolve"
      <4>1. op.rec \in RecordsOn(disk)
        BY <1>4, <3>1, IndicesAre, OnDisk DEF Syncs, KeptInv
      <4> QED
        BY <1>4, <2>2, <4>1 DEF Syncs
    <3>2. CASE op.then # "resolve"
      BY <1>4, <2>2, <3>2 DEF Syncs
    <3> QED
      BY <3>1, <3>2
  <2>4. NothingAcknowledgedLost'
    BY <2>1, <2>3 DEF NothingAcknowledgedLost
  <2>5. pc' \in {"unlinking", "opening", "idle"}
    BY <1>4 DEF Syncs, AfterExpiry
  <2> QED
    BY <2>4, <2>5, KeptElsewhere
<1> QED
  BY <1>1, <1>2, <1>3, <1>4

LEMMA KeptOfFailures ==
  ASSUME TypeInv, KeptInv, Crash \/ (\E d \in images : PowerFails(d)) \/ Tick
  PROVE  KeptInv'
<1>1. acked' = acked /\ retired' = retired
  BY DEF Crash, PowerFails, Tick, history
<1>2. CASE Crash
  <2>1. CASE pc = "appending"
    <3>1. PICK f \in Remains(disk.file[0]) : Write(Put(disk, 0, f))
      BY <1>2, <2>1 DEF Crash
    <3>2. NothingAcknowledgedLost'
      BY <1>1, <2>1, <3>1, RemainsKeep, KeptOfWrite
    <3> QED
      BY <1>2, <3>2, KeptElsewhere DEF Crash, Stops
  <2>2. CASE pc # "appending"
    <3>1. NothingAcknowledgedLost'
      BY <1>1, <1>2, <2>2, KeepsRecords DEF Crash, KeptInv
    <3> QED
      BY <1>2, <3>1, KeptElsewhere DEF Crash, Stops
  <2> QED
    BY <2>1, <2>2
<1>3. ASSUME NEW d \in images, PowerFails(d) PROVE KeptInv'
  <2>1. NothingAcknowledgedLost'
    BY <1>1, <1>3, KeepsRecords DEF PowerFails, KeptInv
  <2> QED
    BY <1>3, <2>1, KeptElsewhere DEF PowerFails, Stops
<1>4. CASE Tick
  <2>1. NothingAcknowledgedLost'
    BY <1>1, <1>4, KeepsRecords DEF Tick, KeptInv
  <2> QED
    BY <1>4, <2>1 DEF Tick, memory, KeptInv
<1> QED
  BY <1>2, <1>3, <1>4

LEMMA KeptStep == TypeInv /\ KeptInv /\ [Next]_vars => KeptInv'
<1> SUFFICES ASSUME TypeInv, KeptInv, [Next]_vars PROVE KeptInv'
  OBVIOUS
<1>1. CASE StartFresh \/ StartVerified \/ StartRefused \/ \E size \in Sizes : RecordBegins(size)
  BY <1>1, KeptOfStart
<1>2. CASE LoggerStep
  BY <1>2, KeptOfExpiry, KeptOfRotation, KeptOfAppend, KeptOfPublish DEF LoggerStep
<1>3. CASE Crash \/ (\E d \in images : PowerFails(d)) \/ Tick
  BY <1>3, KeptOfFailures
<1>4. CASE UNCHANGED vars
  <2>1. NothingAcknowledgedLost'
    BY <1>4, KeepsRecords DEF vars, history, KeptInv
  <2> QED
    BY <1>4, <2>1 DEF vars, memory, KeptInv
<1> QED
  BY <1>1, <1>2, <1>3, <1>4 DEF Next

\* A record that record() has acknowledged stays on the disk until its segment is removed
\* for its age or its place, whatever file operation fails and wherever the process or
\* the machine stops, for any number of segments and records: a rename of the rotation
\* never falls on a file that is still there, and nothing is acknowledged before the
\* directory is synced.
THEOREM AcknowledgedRecordsKept == Spec => []NothingAcknowledgedLost
<1>1. Init => TypeInv
  BY TypeInit
<1>2. Init => KeptInv
  BY DEF Init, KeptInv, NothingAcknowledgedLost
<1>3. TypeInv /\ [Next]_vars => TypeInv'
  BY TypeStep
<1>4. TypeInv /\ KeptInv /\ [Next]_vars => KeptInv'
  BY KeptStep
<1>5. KeptInv => NothingAcknowledgedLost
  BY DEF KeptInv
<1> QED
  BY <1>1, <1>2, <1>3, <1>4, <1>5, PTL DEF Spec

-----------------------------------------------------------------------------
(* A logger that serves can be started again. *)

\* Between operations, and where an operation has changed nothing yet.
Settled ==
  /\ \A i \in Indices : Agrees(i)
  /\ active = ActiveAs(segments[0])
  /\ disk.manifest = segments

LEMMA SettledIdle ==
  ASSUME Settled', pc' = "idle"
  PROVE  Coherent'
BY DEF Settled, Coherent

\* An operation that throws before it has changed anything leaves the logger settled.
LEMMA ThrowClean ==
  ASSUME NEW poison, NEW damage, Throw(poison, damage), ~poison /\ ~damage => Settled,
         disk' = disk
  PROVE  CleanInv'
<1> SUFFICES ASSUME Running', ~poisoned', ~damaged' PROVE Coherent'
  BY DEF CleanInv
<1>1. op.kind # "initialize"
  BY DEF Throw, Stops, Running
<1>2. ~poison /\ ~damage /\ pc' = "idle" /\ UNCHANGED <<segments, active>>
  BY <1>1 DEF Throw
<1>3. Settled'
  BY <1>2 DEF Settled, Agrees
<1> QED
  BY <1>2, <1>3, SettledIdle

LEMMA CleanOfStart ==
  ASSUME TypeInv, CleanInv,
         StartFresh \/ StartVerified \/ StartRefused \/ \E size \in Sizes : RecordBegins(size)
  PROVE  CleanInv'
<1>1. CASE StartFresh
  <2>1. \A i \in Indices : Agrees(i)'
    BY <1>1 DEF StartFresh, Fresh, EmptyDisk, NoSegments, Agrees
  <2>2. active' = ActiveAs(segments'[0])
    BY <1>1, IndicesAre DEF StartFresh, NoSegments, ActiveAs
  <2>3. pc' = "publishing" /\ op'.then = "serve"
    BY <1>1 DEF StartFresh, Starting, NoOperation
  <2> QED
    BY <2>1, <2>2, <2>3 DEF CleanInv, Coherent
<1>2. CASE StartVerified
  <2>1. \A i \in Indices : Agrees(i)'
    BY <1>2 DEF StartVerified, Verifies, Agrees, Whole
  <2>2. active' = ActiveAs(segments'[0]) /\ disk'.manifest = segments' /\ pc' = "expiring"
    BY <1>2 DEF StartVerified, ActiveAs
  <2> QED
    BY <2>1, <2>2 DEF CleanInv, Coherent
<1>3. CASE StartRefused
  BY <1>3 DEF StartRefused, CleanInv, Running
<1>4. ASSUME NEW size \in Sizes, RecordBegins(size) PROVE CleanInv'
  <2> SUFFICES ASSUME Running', ~poisoned', ~damaged' PROVE Coherent'
    BY DEF CleanInv
  <2>1. pc = "idle" /\ pc' = "expiring" /\ UNCHANGED <<disk, segments, active>> /\ Coherent
    BY <1>4 DEF RecordBegins, CleanInv, Running
  <2>2. \A i \in Indices : Agrees(i)'
    BY <2>1 DEF Coherent, Agrees
  <2>3. active' = ActiveAs(segments'[0]) /\ disk'.manifest = segments'
    BY <2>1 DEF Coherent
  <2> QED
    BY <2>1, <2>2, <2>3 DEF Coherent
<1> QED
  BY <1>1, <1>2, <1>3, <1>4

LEMMA SizesAre ==
  ASSUME NEW size \in Sizes
  PROVE  size \in Nat /\ size > 0 /\ size <= SegmentMax /\ SegmentMax \in Nat
BY AuditAssumption

\* Where the operation goes on once nothing is expired, the new record has its place.
LEMMA PlaceForRecord ==
  ASSUME TypeInv, op.size \in Sizes, AfterExpiry = "opening"
  PROVE  active.bytes + op.size <= SegmentMax
<1>1. op.size \in Nat /\ op.size <= SegmentMax /\ SegmentMax \in Nat /\ active.bytes \in Nat
  BY SizesAre DEF TypeInv, TypeOK
<1>2. ~(active.bytes > 0 /\ active.bytes + op.size > SegmentMax)
  BY DEF AfterExpiry
<1>3. active.bytes = 0 \/ active.bytes > 0
  BY <1>1
<1>4. active.bytes = 0 => active.bytes + op.size = op.size
  BY <1>1
<1>5. active.bytes + op.size \in Nat
  BY <1>1
<1> QED
  BY <1>1, <1>2, <1>3, <1>4, <1>5

LEMMA CleanOfExpiry ==
  ASSUME TypeInv, CleanInv,
         (\E i \in Indices : ExpireSegment(i)) \/ ExpireFails \/ ExpireEnds \/ Proceed
  PROVE  CleanInv'
<1> SUFFICES ASSUME Running', ~poisoned', ~damaged' PROVE Coherent'
  BY DEF CleanInv
<1>0. pc = "expiring" /\ ~poisoned
  BY DEF ExpireSegment, ExpireFails, ExpireEnds, Proceed, TypeInv, Present, Busy, Running
<1>1. ASSUME NEW i \in Indices, ExpireSegment(i) PROVE Coherent'
  <2>1. Coherent
    BY <1>0, <1>1 DEF ExpireSegment, CleanInv, Running
  <2>2. \A j \in Indices : disk'.file[j] = IF j = i THEN None ELSE disk.file[j]
    BY <1>1, PutFile DEF ExpireSegment, Write, TypeInv, TypeOK
  <2>3. \A j \in Indices : segments'[j] = IF j = i THEN None ELSE segments[j]
    BY <1>1 DEF ExpireSegment, TypeInv, TypeOK, Manifest
  <2>4. \A j \in Indices : Agrees(j)'
    BY <1>0, <2>1, <2>2, <2>3 DEF Coherent, Agrees
  <2>5. active' = ActiveAs(segments'[0])
    BY <1>0, <1>1, <2>1, <2>3, IndicesAre DEF ExpireSegment, Coherent, ActiveAs
  <2>6. pc' = "expiring" /\ op'.changed
    BY <1>0, <1>1 DEF ExpireSegment, TypeInv, TypeOK, Operation
  <2> QED
    BY <2>4, <2>5, <2>6 DEF Coherent
<1>2. CASE ExpireFails
  <2>1. ~damaged
    BY <1>2 DEF ExpireFails, Throw, Stops, Running
  <2>2. Coherent
    BY <1>0, <2>1 DEF CleanInv, Running
  <2>3. ~op.changed => Settled
    BY <1>0, <2>2 DEF Coherent, Settled
  <2>4. CleanInv'
    BY <1>2, <2>3, ThrowClean DEF ExpireFails
  <2> QED
    BY <2>4 DEF CleanInv
<1>3. CASE ExpireEnds
  <2>1. Coherent /\ UNCHANGED <<disk, segments, active>>
    BY <1>0, <1>3 DEF ExpireEnds, CleanInv, Running
  <2>2. pc' = "publishing" /\ op'.then # "open"
    BY <1>3 DEF ExpireEnds, Publish, TypeInv, TypeOK, Operation, Present
  <2>3. \A j \in Indices : Agrees(j)'
    BY <1>0, <2>1 DEF Coherent, Agrees
  <2>4. active' = ActiveAs(segments'[0])
    BY <1>0, <2>1 DEF Coherent
  <2> QED
    BY <2>2, <2>3, <2>4 DEF Coherent
<1>4. CASE Proceed
  <2>1. Coherent /\ UNCHANGED <<disk, segments, active>>
    BY <1>0, <1>4 DEF Proceed, CleanInv, Running
  <2>2. Settled'
    BY <1>0, <1>4, <2>1 DEF Proceed, Coherent, Settled, Agrees
  <2>3. CASE op.then = "serve"
    BY <1>4, <2>2, <2>3, SettledIdle DEF Proceed
  <2>4. CASE op.then # "serve"
    <3>1. op' = op /\ pc' = AfterExpiry /\ AfterExpiry \in {"unlinking", "opening"}
      BY <1>4, <2>4 DEF Proceed, AfterExpiry
    <3>2. op.size \in Sizes
      BY <1>0, <2>4 DEF TypeInv, Present, Busy, Running
    <3>3. pc' = "opening" => active'.bytes + op'.size <= SegmentMax
      BY <2>1, <3>1, <3>2, PlaceForRecord
    <3> QED
      BY <2>2, <3>1, <3>3 DEF Settled, Coherent
  <2> QED
    BY <2>3, <2>4
<1> QED
  BY <1>1, <1>2, <1>3, <1>4

LEMMA CleanOfRotation ==
  ASSUME TypeInv, CleanInv, RotateUnlinks \/ RotateRenames \/ RotateFails \/ RotateEnds
  PROVE  CleanInv'
<1> SUFFICES ASSUME Running', ~poisoned', ~damaged' PROVE Coherent'
  BY DEF CleanInv
<1>0. pc \in {"unlinking", "renaming"} /\ ~poisoned
  BY DEF RotateUnlinks, RotateRenames, RotateFails, RotateEnds, TypeInv, Present, Busy, Running
<1>1. CASE RotateUnlinks
  <2> DEFINE k == MaxSegments - 1
  <2>1. k \in Indices /\ k # 0
    BY IndicesAre, AuditAssumption
  <2>2. Coherent
    BY <1>0, <1>1 DEF RotateUnlinks, CleanInv, Running
  <2>3. \A j \in Indices : disk'.file[j] = IF j = k THEN None ELSE disk.file[j]
    BY <1>1, <2>1, PutFile DEF RotateUnlinks, Write, TypeInv, TypeOK
  <2>4. \A j \in Indices : segments'[j] = IF j = k THEN None ELSE segments[j]
    BY <1>1, <2>1 DEF RotateUnlinks, TypeInv, TypeOK, Manifest
  <2>5. pc' = "renaming" /\ op'.index = k
    BY <1>1 DEF RotateUnlinks, TypeInv, TypeOK, Operation
  <2>6. \A j \in Indices : Agrees(j)'
    BY <1>0, <2>2, <2>3, <2>4 DEF Coherent, Agrees
  <2> QED
    BY <2>1, <2>5, <2>6 DEF Coherent
<1>2. CASE RotateRenames
  <2> DEFINE i == op.index
  <2>1. i \in Indices /\ i > 0 /\ i - 1 \in Indices /\ i - 1 # i
    BY <1>2, IndicesAre DEF RotateRenames, TypeInv, Present
  <2>2. pc' = "renaming" /\ op'.index = i - 1
    BY <1>2 DEF RotateRenames, TypeInv, TypeOK, Operation
  <2>3. Coherent
    BY <1>0, <1>2 DEF RotateRenames, CleanInv, Running
  <2>4. \A j \in Indices : Agrees(j)
    BY <1>0, <2>3 DEF Coherent
  <2>5. CASE disk.file[i - 1] = None
    <3>1. UNCHANGED <<disk, segments>> /\ i - 1 # 0
      BY <1>2, <2>1, <2>5, IndicesAre DEF RotateRenames
    <3>2. \A j \in Indices : Agrees(j)'
      BY <2>4, <3>1 DEF Agrees
    <3> QED
      BY <2>2, <3>1, <3>2 DEF Coherent
  <2>6. CASE disk.file[i - 1] # None
    <3>1. \A j \in Indices : disk'.file[j] =
            IF j = i THEN disk.file[i - 1] ELSE IF j = i - 1 THEN None ELSE disk.file[j]
      BY <1>2, <2>1, <2>6, MoveFile DEF RotateRenames, Write, TypeInv, TypeOK
    <3>2. \A j \in Indices : segments'[j] =
            IF j = i - 1 THEN None ELSE IF j = i THEN segments[i - 1] ELSE segments[j]
      BY <1>2, <2>1, <2>6 DEF RotateRenames, TypeInv, TypeOK, Manifest
    <3>3. \A j \in Indices : Agrees(j)'
      BY <2>1, <2>4, <3>1, <3>2 DEF Agrees
    <3>4. segments'[i - 1] = None
      BY <2>1, <3>2
    <3> QED
      BY <2>2, <3>3, <3>4 DEF Coherent
  <2> QED
    BY <2>5, <2>6
<1>3. CASE RotateFails
  <2>1. ~damaged
    BY <1>3 DEF RotateFails, Throw, Stops, Running
  <2>2. Coherent
    BY <1>0, <2>1 DEF CleanInv, Running
  <2>3. pc = "unlinking" => Settled
    BY <2>2 DEF Coherent, Settled
  <2>4. CleanInv'
    <3>1. Throw(pc = "renaming", FALSE) /\ disk' = disk
      BY <1>3 DEF RotateFails
    <3>2. ~(pc = "renaming") => Settled
      BY <1>0, <2>3
    <3> QED
      BY <3>1, <3>2, ThrowClean
  <2> QED
    BY <2>4 DEF CleanInv
<1>4. CASE RotateEnds
  <2>1. Coherent /\ UNCHANGED <<disk, segments>> /\ active' = NoActive
    BY <1>0, <1>4 DEF RotateEnds, CleanInv, Running
  <2>2. pc = "renaming" /\ pc' = "publishing" /\ op'.then = "open"
    BY <1>4 DEF RotateEnds, Publish, TypeInv, TypeOK, Operation
  <2>3. \A j \in Indices : Agrees(j)'
    BY <2>1, <2>2 DEF Coherent, Agrees
  <2>4. active' = ActiveAs(segments'[0])
    BY <1>4, <2>1 DEF RotateEnds, Coherent, ActiveAs
  <2> QED
    BY <2>1, <2>2, <2>3, <2>4 DEF Coherent
<1> QED
  BY <1>1, <1>2, <1>3, <1>4

\* The line that is appended continues the chain of the segment.
LEMMA AppendVerifies ==
  ASSUME NEW f \in File, NEW line \in Line, NEW n \in Nat,
         f = EmptyFile \/ VerifiesSegment(f),
         line.rec # TORN,
         line.prev = IF f.lines = <<>> THEN INITIAL_HASH ELSE Last(f.lines).rec
  PROVE  /\ VerifiesSegment(Extended(f, line, n))
         /\ Extended(f, line, n).lines[1].at = IF f.lines = <<>> THEN line.at ELSE f.lines[1].at
         /\ Last(Extended(f, line, n).lines).rec = line.rec
<1> DEFINE g == Append(f.lines, line)
           m == Len(f.lines)
<1>1. Extended(f, line, n).lines = g
  BY DEF Extended
<1>2. /\ DOMAIN g = 1..(m + 1) /\ DOMAIN f.lines = 1..m /\ m \in Nat /\ Len(g) = m + 1
      /\ \A j \in 1..m : g[j] = f.lines[j]
      /\ g[m + 1] = line
      /\ f.lines = <<>> <=> m = 0
  BY DEF File
<1> HIDE DEF g, m
<1>3. Last(g) = line /\ (f.lines # <<>> => Last(f.lines) = f.lines[m])
  BY <1>2 DEF Last, m
<1>4. g # <<>>
  BY <1>2
<1>5. f.lines # <<>> => VerifiesSegment(f)
  BY DEF EmptyFile
<1>6. ASSUME NEW j \in DOMAIN g
      PROVE  g[j].rec # TORN /\ g[j].prev = IF j = 1 THEN INITIAL_HASH ELSE g[j - 1].rec
  <2>1. CASE j = m + 1
    <3>1. j = 1 => f.lines = <<>>
      BY <1>2, <2>1
    <3>2. j # 1 => f.lines # <<>> /\ m \in 1..m /\ j - 1 = m
      BY <1>2, <2>1
    <3>3. j # 1 => g[j - 1] = Last(f.lines)
      BY <1>2, <1>3, <3>2
    <3>4. j = 1 => m = 0
      BY <1>2, <2>1
    <3> QED
      BY <1>2, <2>1, <3>1, <3>2, <3>3
  <2>2. CASE j # m + 1
    <3>1. j \in 1..m /\ f.lines # <<>> /\ g[j] = f.lines[j]
      BY <1>2, <2>2
    <3>2. j # 1 => j - 1 \in 1..m /\ g[j - 1] = f.lines[j - 1]
      BY <1>2, <3>1
    <3>3. f.lines[j].rec # TORN
          /\ f.lines[j].prev = IF j = 1 THEN INITIAL_HASH ELSE f.lines[j - 1].rec
      BY <1>2, <1>5, <3>1 DEF VerifiesSegment
    <3> QED
      BY <3>1, <3>2, <3>3
  <2> QED
    BY <2>1, <2>2
<1>7. g[1].at = IF f.lines = <<>> THEN line.at ELSE f.lines[1].at
  BY <1>2
<1> QED
  BY <1>1, <1>3, <1>4, <1>6, <1>7 DEF VerifiesSegment

LEMMA CleanOfAppend ==
  ASSUME TypeInv, CleanInv, Opens \/ OpenFails \/ Appends \/ AppendFails
  PROVE  CleanInv'
<1> SUFFICES ASSUME Running', ~poisoned', ~damaged' PROVE Coherent'
  BY DEF CleanInv
<1>0. pc \in {"opening", "appending"} /\ ~poisoned /\ 0 \in Indices
  BY IndicesAre DEF Opens, OpenFails, Appends, AppendFails, TypeInv, Present, Busy, Running
<1>1. CASE Opens
  <2> DEFINE f == IF disk.file[0] = None THEN EmptyFile ELSE disk.file[0]
  <2>1. ~damaged
    BY <1>1 DEF Opens, Throw, Stops, Running, memory
  <2>2. Coherent /\ pc = "opening"
    BY <1>0, <1>1, <2>1 DEF Opens, CleanInv, Running
  <2>3. Agrees(0) /\ active = ActiveAs(segments[0]) /\ active.bytes + op.size <= SegmentMax
    BY <1>0, <2>2 DEF Coherent
  <2>4. f \in File
    BY <1>0, FileTypes DEF TypeInv, TypeOK, Disk
  <2>5. f.bytes = active.bytes
    BY <2>3 DEF Agrees, ActiveAs, NoActive, EmptyFile, Describe
  <2>6. pc' = "appending" /\ UNCHANGED memory /\ Write(Put(disk, 0, f))
    BY <1>1, <2>3, <2>5 DEF Opens
  <2> HIDE DEF f
  <2>7. /\ disk'.manifest = disk.manifest
        /\ \A j \in Indices : disk'.file[j] = IF j = 0 THEN f ELSE disk.file[j]
    BY <1>0, <2>4, <2>6, PutFile DEF Write, TypeInv, TypeOK
  <2>8. \A j \in Indices : j > 0 => Agrees(j)'
    BY <2>2, <2>6, <2>7 DEF Coherent, Agrees, memory
  <2>9. IF segments[0] = None THEN f = EmptyFile
        ELSE Whole(f) /\ segments[0] = Describe(f)
    BY <2>3 DEF Agrees, f
  <2>10. disk'.file[0] = f
    BY <1>0, <2>7
  <2>11. /\ active' = ActiveAs(segments'[0]) /\ disk'.manifest = segments'
         /\ active'.bytes + op'.size <= SegmentMax
    BY <2>2, <2>3, <2>6, <2>7 DEF Coherent, memory
  <2>12. IF segments'[0] = None THEN disk'.file[0] = EmptyFile
         ELSE Whole(disk'.file[0]) /\ segments'[0] = Describe(disk'.file[0])
    BY <2>6, <2>9, <2>10 DEF memory
  <2> QED
    BY <2>6, <2>8, <2>11, <2>12 DEF Coherent
<1>2. CASE OpenFails
  <2>1. ~damaged
    BY <1>2 DEF OpenFails, Throw, Stops, Running
  <2>2. Coherent /\ pc = "opening"
    BY <1>0, <1>2, <2>1 DEF OpenFails, CleanInv, Running
  <2>3. Settled
    BY <2>2 DEF Coherent, Settled
  <2>4. CleanInv'
    BY <1>2, <2>3, ThrowClean DEF OpenFails
  <2> QED
    BY <2>4 DEF CleanInv
<1>3. CASE Appends
  <2> DEFINE f == disk.file[0]
             g == Extended(f, NewLine, op.size)
  <2>1. pc = "appending" /\ pc' = "describing" /\ UNCHANGED memory /\ Write(Put(disk, 0, g))
    BY <1>3 DEF Appends
  <2>2. Coherent
    BY <1>0, <2>1 DEF CleanInv, Running, memory
  <2>3. f \in File /\ NewLine \in Line /\ NewLine.rec = op.rec /\ op.rec # TORN /\ g \in File
        /\ op.size \in Nat /\ NewLine.prev = active.previousHash /\ NewLine.at = op.at
    BY <2>1, LineTypes DEF TypeInv, TypeOK, Operation, NewLine
  <2>4. active = ActiveAs(segments[0]) /\ active.bytes + op.size <= SegmentMax
    BY <2>1, <2>2 DEF Coherent
  <2>5. IF segments[0] = None THEN f = EmptyFile
        ELSE Whole(f) /\ segments[0] = Describe(f)
    BY <2>1, <2>2 DEF Coherent
  <2>6. /\ f = EmptyFile \/ VerifiesSegment(f)
        /\ f.bytes = active.bytes
        /\ active.previousHash = IF f.lines = <<>> THEN INITIAL_HASH ELSE Last(f.lines).rec
        /\ active.createdAt = IF f.lines = <<>> THEN None ELSE f.lines[1].at
    <3>1. CASE segments[0] = None
      BY <2>4, <2>5, <3>1 DEF ActiveAs, NoActive, EmptyFile
    <3>2. CASE segments[0] # None
      BY <2>4, <2>5, <3>2 DEF ActiveAs, Describe, Whole, VerifiesSegment
    <3> QED
      BY <3>1, <3>2
  <2>7. /\ VerifiesSegment(g)
        /\ g.lines[1].at = IF f.lines = <<>> THEN op.at ELSE f.lines[1].at
        /\ Last(g.lines).rec = op.rec
    BY <2>3, <2>6, AppendVerifies
  <2>8. g.bytes = active.bytes + op.size
    BY <2>6 DEF Extended
  <2>9. f.lines # <<>> => active.createdAt # None
    <3>1. ASSUME f.lines # <<>> PROVE f.lines[1].at \in Nat
      <4>1. f.lines \in Seq(Line) /\ 1 \in 1..Len(f.lines)
        BY <2>3, <3>1 DEF File
      <4>2. f.lines[1] \in Line
        BY <4>1
      <4> QED
        BY <4>2 DEF Line
    <3> QED
      BY <2>6, <3>1, NoneAssumption
  <2>10. g.lines[1].at = IF active.createdAt = None THEN op.at ELSE active.createdAt
    BY <2>6, <2>7, <2>9
  <2> HIDE DEF f, g
  <2>11. \A j \in Indices : disk'.file[j] = IF j = 0 THEN g ELSE disk.file[j]
    BY <1>0, <2>1, <2>3, PutFile DEF Write, TypeInv, TypeOK
  <2>12. disk'.file[0] = g
    BY <1>0, <2>11
  <2>13. \A j \in Indices : j > 0 => Agrees(j)'
    BY <2>1, <2>2, <2>11 DEF Coherent, Agrees, memory
  <2>14. Whole(g)
    BY <2>4, <2>7, <2>8 DEF Whole
  <2>15. active' = active /\ segments' = segments /\ op' = op
    BY <2>1 DEF memory
  <2>16. /\ Whole(disk'.file[0]) /\ disk'.file[0].bytes = active'.bytes + op'.size
         /\ disk'.file[0].lines[1].at =
              IF active'.createdAt = None THEN op'.at ELSE active'.createdAt
         /\ Last(disk'.file[0].lines).rec = op'.rec
    BY <2>7, <2>8, <2>10, <2>12, <2>14, <2>15
  <2> QED
    BY <2>1, <2>4, <2>13, <2>15, <2>16 DEF Coherent
<1>4. CASE AppendFails
  BY <1>4 DEF AppendFails, Throw, Stops, Running
<1> QED
  BY <1>1, <1>2, <1>3, <1>4

LEMMA CleanOfPublish ==
  ASSUME TypeInv, CleanInv, Describes \/ Publishes \/ PublishFails \/ Syncs
  PROVE  CleanInv'
<1> SUFFICES ASSUME Running', ~poisoned', ~damaged' PROVE Coherent'
  BY DEF CleanInv
<1>0. pc \in {"describing", "publishing", "syncing"} /\ ~poisoned /\ 0 \in Indices
  BY IndicesAre
    DEF Describes, Publishes, PublishFails, Syncs, TypeInv, Present, Busy, Running
<1>1. CASE Describes
  <2> DEFINE f == disk.file[0]
             c == IF active.createdAt = None THEN op.at ELSE active.createdAt
             x == [createdAt |-> c, bytes |-> active.bytes + op.size, lastHash |-> op.rec,
                   sha256 |-> f.lines]
  <2>1. /\ pc = "describing" /\ pc' = "publishing" /\ disk' = disk /\ op'.then = "resolve"
        /\ segments' = [segments EXCEPT ![0] = x]
        /\ active' = [createdAt |-> c, bytes |-> active.bytes + op.size,
                      previousHash |-> op.rec]
    BY <1>1 DEF Describes, Publish, TypeInv, TypeOK, Operation
  <2>2. Coherent
    BY <1>0, <1>1 DEF Describes, CleanInv, Running
  <2>3. Whole(f) /\ x = Describe(f)
    BY <2>1, <2>2 DEF Coherent, Describe
  <2>4. f \in File /\ f # None
    BY <1>0, <2>1 DEF TypeInv, TypeOK, Present, Disk
  <2>5. x # None
    BY <2>3, <2>4, DescriptorType, NoneAssumption DEF Whole
  <2>6. \A j \in Indices : segments'[j] = IF j = 0 THEN x ELSE segments[j]
    BY <2>1 DEF TypeInv, TypeOK, Manifest
  <2>7. active' = ActiveAs(x)
    BY <2>1, <2>5 DEF ActiveAs
  <2> HIDE DEF f, c, x
  <2>8. \A j \in Indices : j > 0 => Agrees(j)'
    BY <2>1, <2>2, <2>6 DEF Coherent, Agrees
  <2>9. Agrees(0)'
    BY <1>0, <2>1, <2>3, <2>4, <2>5, <2>6 DEF Agrees, f
  <2>10. \A j \in Indices : Agrees(j)'
    BY <2>8, <2>9, IndicesAre
  <2>11. active' = ActiveAs(segments'[0])
    BY <1>0, <2>6, <2>7
  <2> QED
    BY <2>1, <2>10, <2>11 DEF Coherent
<1>2. CASE Publishes
  <2>1. /\ disk'.file = disk.file /\ disk'.manifest = segments
        /\ pc = "publishing" /\ pc' = "syncing" /\ UNCHANGED <<op, segments, active>>
    BY <1>2 DEF Publishes, Write, memory, TypeInv, TypeOK, Disk
  <2>2. Coherent
    BY <1>0, <1>2 DEF Publishes, CleanInv, Running, memory
  <2>3. \A j \in Indices : Agrees(j)'
    BY <2>1, <2>2 DEF Coherent, Agrees
  <2>4. active' = ActiveAs(segments'[0]) /\ (op'.then = "open" => active' = NoActive)
    BY <2>1, <2>2 DEF Coherent
  <2> QED
    BY <2>1, <2>3, <2>4 DEF Coherent
<1>3. CASE PublishFails
  BY <1>3 DEF PublishFails, Throw, Stops, Running
<1>4. CASE Syncs
  <2>1. Coherent /\ pc = "syncing" /\ UNCHANGED <<disk, segments, active>>
    BY <1>0, <1>4 DEF Syncs, CleanInv, Running
  <2>2. Settled'
    BY <2>1 DEF Coherent, Settled, Agrees
  <2>3. CASE op.then \in {"serve", "resolve"}
    BY <1>4, <2>2, <2>3, SettledIdle DEF Syncs
  <2>4. CASE op.then \in {"size", "open"}
    <3>1. op' = op /\ pc' \in {"unlinking", "opening"}
          /\ (pc' = "opening" => op.then = "open" \/ AfterExpiry = "opening")
      BY <1>4, <2>4 DEF Syncs, AfterExpiry
    <3>2. op.size \in Sizes
      BY <2>1, <2>4 DEF TypeInv, Present, Busy, Running
    <3>3. op.then = "open" => active.bytes + op.size <= SegmentMax
      <4>1. op.then = "open" => active.bytes = 0
        BY <2>1 DEF Coherent, NoActive
      <4>2. op.size \in Nat /\ op.size <= SegmentMax /\ 0 + op.size = op.size
        BY <3>2, SizesAre
      <4> QED
        BY <4>1, <4>2
    <3>4. pc' = "opening" => active'.bytes + op'.size <= SegmentMax
      BY <2>1, <3>1, <3>2, <3>3, PlaceForRecord
    <3> QED
      BY <2>2, <3>1, <3>4 DEF Settled, Coherent
  <2> QED
    BY <2>3, <2>4 DEF TypeInv, TypeOK, Operation
<1> QED
  BY <1>1, <1>2, <1>3, <1>4

LEMMA CleanStep == TypeInv /\ CleanInv /\ [Next]_vars => CleanInv'
<1> SUFFICES ASSUME TypeInv, CleanInv, [Next]_vars PROVE CleanInv'
  OBVIOUS
<1>1. CASE StartFresh \/ StartVerified \/ StartRefused \/ \E size \in Sizes : RecordBegins(size)
  BY <1>1, CleanOfStart
<1>2. CASE LoggerStep
  BY <1>2, CleanOfExpiry, CleanOfRotation, CleanOfAppend, CleanOfPublish DEF LoggerStep
<1>3. CASE Crash \/ \E d \in images : PowerFails(d)
  BY <1>3 DEF Crash, PowerFails, Stops, CleanInv, Running
<1>4. CASE Tick \/ UNCHANGED vars
  <2>1. UNCHANGED <<disk, pc, op, segments, active, poisoned, damaged>>
    BY <1>4 DEF Tick, vars, memory
  <2>2. \A i \in Indices : Agrees(i)' <=> Agrees(i)
    BY <2>1 DEF Agrees
  <2>3. Coherent => Coherent'
    BY <2>1, <2>2 DEF Coherent
  <2> QED
    BY <2>1, <2>3 DEF CleanInv, Running
<1> QED
  BY <1>1, <1>2, <1>3, <1>4 DEF Next

\* A logger that serves leaves files that the next initialize() accepts, and what it would
\* read from them is what the logger holds in memory: through expiry, rotation with any
\* number of segments, failed operations and restarts, until an append fails half way.
THEOREM ServingLoggerRestarts == Spec => []CleanRestart
<1>1. Init => TypeInv /\ CleanInv
  BY TypeInit DEF Init, CleanInv, Running
<1>2. TypeInv /\ [Next]_vars => TypeInv'
  BY TypeStep
<1>3. TypeInv /\ CleanInv /\ [Next]_vars => CleanInv'
  BY CleanStep
<1>4. TypeInv /\ CleanInv => CleanRestart
  <2> SUFFICES ASSUME TypeInv, CleanInv, pc = "idle", ~poisoned, ~damaged
               PROVE  /\ Verifies(disk) /\ segments = disk.manifest
                      /\ active = ActiveAs(segments[0])
    BY DEF CleanRestart, ActiveAs
  <2>1. Coherent
    BY DEF CleanInv, Running
  <2>2. Settled
    BY <2>1 DEF Coherent, Settled
  <2>3. disk.manifest # None
    BY <2>2, NoneAssumption DEF Settled, TypeInv, TypeOK
  <2> QED
    BY <2>2, <2>3 DEF Settled, Verifies, Agrees, Whole
<1> QED
  BY <1>1, <1>2, <1>3, <1>4, PTL DEF Spec

-----------------------------------------------------------------------------
(* Retention *)

\* Segment i began when its descriptor says; it is too young to expire during operation op.
Dated(i) ==
  segments[i] # None =>
    disk.file[i].lines # <<>> /\ disk.file[i].lines[1].at = segments[i].createdAt
Young(i) == segments[i] # None => op.at < segments[i].createdAt + Retention
Described(i) == disk.file[i] # None => segments[i] # None

\* What a damaged logger still knows of its segments: only the active one may lack a
\* descriptor, and then its file is empty or has bytes that the logger has not counted.
Traced ==
  /\ \A i \in Indices : Dated(i) /\ (i > 0 => Described(i))
  /\ pc # "renaming" =>
       /\ active.createdAt = IF segments[0] = None THEN None ELSE segments[0].createdAt
       /\ segments[0] = None => active.bytes = 0
  /\ segments[0] = None /\ disk.file[0] # None /\ disk.file[0].bytes = 0 =>
       disk.file[0].lines = <<>>

\* Where the operation is past the expiry of old segments, and where it is to resolve.
PastExpiry == OfRecord \/ (pc \in {"publishing", "syncing"} /\ op.then # "serve")
Resolving == pc \in {"publishing", "syncing"} /\ op.then = "resolve"

DatedInv ==
  Running /\ ~poisoned =>
    /\ Traced
    /\ pc \in {"unlinking", "renaming"} \/ Resolving => Described(0)
    /\ pc = "renaming" /\ op.index = 0 => segments[0] = None
    /\ pc = "appending" /\ segments[0] = None => disk.file[0].lines = <<>>
    /\ pc = "describing" =>
         /\ disk.file[0].lines # <<>>
         /\ disk.file[0].lines[1].at =
              IF active.createdAt = None THEN op.at ELSE active.createdAt
    /\ PastExpiry => \A i \in Indices : Young(i)


\* An operation that throws where segments and files have not moved leaves them traced.
LEMMA ThrowDated ==
  ASSUME NEW poison, NEW damage, Throw(poison, damage), ~poison => Traced,
         disk' = disk, pc # "renaming" \/ poison
  PROVE  DatedInv'
<1> SUFFICES ASSUME Running', ~poisoned'
             PROVE  Traced' /\ pc' = "idle"
  BY DEF DatedInv, Resolving, PastExpiry, OfRecord
<1>1. op.kind # "initialize"
  BY DEF Throw, Stops, Running
<1>2. ~poison /\ pc' = "idle" /\ UNCHANGED <<segments, active, disk>>
  BY <1>1 DEF Throw
<1> QED
  BY <1>2 DEF Traced, Dated, Described

LEMMA DatedOfStart ==
  ASSUME TypeInv, DatedInv,
         StartFresh \/ StartVerified \/ StartRefused \/ \E size \in Sizes : RecordBegins(size)
  PROVE  DatedInv'
<1>0. 0 \in Indices
  BY IndicesAre
<1>1. CASE StartFresh
  <2>1. \A i \in Indices : segments'[i] = None /\ disk'.file[i] = None
    BY <1>1 DEF StartFresh, Fresh, EmptyDisk, NoSegments
  <2>2. Traced'
    BY <1>0, <1>1, <2>1 DEF StartFresh, Traced, Dated, Described, NoActive
  <2>3. pc' = "publishing" /\ op'.then = "serve"
    BY <1>1 DEF StartFresh, Starting, NoOperation
  <2> QED
    BY <2>2, <2>3 DEF DatedInv, PastExpiry, OfRecord, Resolving
<1>2. CASE StartVerified
  <2>1. ASSUME NEW i \in Indices PROVE Dated(i)' /\ Described(i)'
    <3>1. Verifies(disk) /\ segments' = disk.manifest /\ disk' = disk
      BY <1>2 DEF StartVerified
    <3>2. CASE disk.file[i] = None
      BY <3>1, <3>2 DEF Verifies, Dated, Described
    <3>3. CASE disk.file[i] # None
      <4>1. disk.manifest[i] = Describe(disk.file[i]) /\ disk.file[i].lines # <<>>
            /\ disk.manifest[i] # None
        BY <3>1, <3>3 DEF Verifies, VerifiesSegment
      <4> QED
        BY <3>1, <4>1 DEF Describe, Dated, Described
    <3> QED
      BY <3>2, <3>3
  <2>2. Traced'
    BY <1>0, <1>2, <2>1 DEF StartVerified, Traced, NoActive, Described
  <2>3. pc' = "expiring"
    BY <1>2 DEF StartVerified
  <2> QED
    BY <2>2, <2>3 DEF DatedInv, PastExpiry, OfRecord, Resolving
<1>3. CASE StartRefused
  BY <1>3 DEF StartRefused, DatedInv, Running
<1>4. ASSUME NEW size \in Sizes, RecordBegins(size) PROVE DatedInv'
  <2>1. pc = "idle" /\ ~poisoned /\ pc' = "expiring" /\ UNCHANGED <<disk, segments, active>>
    BY <1>4 DEF RecordBegins
  <2>2. Traced
    BY <2>1 DEF DatedInv, Running
  <2>3. Traced'
    BY <2>1, <2>2 DEF Traced, Dated, Described
  <2> QED
    BY <2>1, <2>3 DEF DatedInv, PastExpiry, OfRecord, Resolving
<1> QED
  BY <1>1, <1>2, <1>3, <1>4

LEMMA DatedOfExpiry ==
  ASSUME TypeInv, DatedInv,
         (\E i \in Indices : ExpireSegment(i)) \/ ExpireFails \/ ExpireEnds \/ Proceed
  PROVE  DatedInv'
<1>0. pc = "expiring" /\ Traced /\ 0 \in Indices
  BY IndicesAre
    DEF ExpireSegment, ExpireFails, ExpireEnds, Proceed, TypeInv, Present, Busy, Running,
        DatedInv
<1>1. ASSUME NEW i \in Indices, ExpireSegment(i) PROVE DatedInv'
  <2>1. \A j \in Indices : disk'.file[j] = IF j = i THEN None ELSE disk.file[j]
    BY <1>1, PutFile DEF ExpireSegment, Write, TypeInv, TypeOK
  <2>2. \A j \in Indices : segments'[j] = IF j = i THEN None ELSE segments[j]
    BY <1>1 DEF ExpireSegment, TypeInv, TypeOK, Manifest
  <2>3. pc' = "expiring" /\ active' = IF i = 0 THEN NoActive ELSE active
    BY <1>0, <1>1 DEF ExpireSegment
  <2>4. \A j \in Indices : Dated(j)' /\ (j > 0 => Described(j)')
    BY <1>0, <2>1, <2>2 DEF Traced, Dated, Described
  <2>5. Traced'
    <3>1. CASE i = 0
      BY <1>0, <2>1, <2>2, <2>3, <2>4, <3>1 DEF Traced, NoActive
    <3>2. CASE i # 0
      <4>1. disk'.file[0] = disk.file[0] /\ segments'[0] = segments[0] /\ active' = active
        BY <1>0, <2>1, <2>2, <2>3, <3>2
      <4> QED
        BY <1>0, <2>4, <4>1 DEF Traced
    <3> QED
      BY <3>1, <3>2
  <2> QED
    BY <2>3, <2>5 DEF DatedInv, PastExpiry, OfRecord, Resolving
<1>2. CASE ExpireFails
  BY <1>0, <1>2, ThrowDated DEF ExpireFails
<1>3. ASSUME ExpireEnds \/ Proceed PROVE DatedInv'
  <2>1. NoneExpired /\ UNCHANGED <<disk, segments, active>>
    BY <1>3 DEF ExpireEnds, Proceed
  <2>2. Traced'
    BY <1>0, <2>1 DEF Traced, Dated, Described
  <2>3. CASE pc' = "idle"
    BY <2>2, <2>3 DEF DatedInv, PastExpiry, OfRecord, Resolving
  <2>4. CASE pc' # "idle"
    <3>1. /\ op'.at = op.at /\ op'.then = op.then
          /\ pc' = "publishing" \/ pc' = AfterExpiry
      BY <1>3, <2>4 DEF ExpireEnds, Proceed, Publish, TypeInv, TypeOK, Operation
    <3>2. op.then \in {"serve", "size"}
      BY <1>0 DEF TypeInv, Present
    <3>3. \A i \in Indices : Young(i)'
      <4> TAKE i \in Indices
      <4>1. SUFFICES ASSUME segments[i] # None
                     PROVE  op.at < segments[i].createdAt + Retention
        BY <2>1, <3>1 DEF Young
      <4>2. segments[i].createdAt \in Nat /\ op.at \in Nat /\ Retention \in Nat
        BY <4>1, AuditAssumption DEF TypeInv, TypeOK, Manifest, Descriptor, Operation
      <4>3. ~(op.at - segments[i].createdAt >= Retention)
        BY <2>1, <4>1 DEF NoneExpired, Expired
      <4> QED
        BY <4>2, <4>3
    <3>4. AfterExpiry = "unlinking" => segments[0] # None
      <4>1. active.bytes \in Nat /\ (segments[0] = None => active.bytes = 0)
        BY <1>0 DEF TypeInv, TypeOK, Traced
      <4> QED
        BY <4>1 DEF AfterExpiry
    <3>5. pc' \in {"publishing", "unlinking", "opening"}
      BY <3>1 DEF AfterExpiry
    <3>6. pc' = "unlinking" => Described(0)'
      BY <2>1, <3>1, <3>4 DEF Described
    <3> QED
      BY <2>2, <3>1, <3>2, <3>3, <3>5, <3>6 DEF DatedInv, Resolving
  <2> QED
    BY <2>3, <2>4
<1> QED
  BY <1>1, <1>2, <1>3

LEMMA DatedOfRotation ==
  ASSUME TypeInv, DatedInv, RotateUnlinks \/ RotateRenames \/ RotateFails \/ RotateEnds
  PROVE  DatedInv'
<1>0. /\ pc \in {"unlinking", "renaming"} /\ 0 \in Indices /\ Traced /\ Described(0)
      /\ \A i \in Indices : Young(i) /\ Dated(i) /\ Described(i)
  <2>1. pc \in {"unlinking", "renaming"}
    BY DEF RotateUnlinks, RotateRenames, RotateFails, RotateEnds
  <2>2. Traced /\ Described(0) /\ \A i \in Indices : Young(i)
    BY <2>1 DEF TypeInv, Present, Busy, Running, DatedInv, PastExpiry, OfRecord
  <2>3. \A i \in Indices : i > 0 \/ i = 0
    BY IndicesAre
  <2> QED
    BY <2>1, <2>2, <2>3, IndicesAre DEF Traced
<1>1. ASSUME /\ pc' = "renaming" /\ op'.at = op.at
             /\ \A i \in Indices : Young(i)' /\ Dated(i)' /\ Described(i)'
             /\ op'.index = 0 => segments'[0] = None
      PROVE  DatedInv'
  <2>1. Traced'
    BY <1>0, <1>1 DEF Traced, Described
  <2> QED
    BY <1>0, <1>1, <2>1 DEF DatedInv, Resolving
<1>2. CASE RotateUnlinks
  <2> DEFINE k == MaxSegments - 1
  <2>1. k \in Indices /\ k # 0
    BY IndicesAre, AuditAssumption
  <2>2. \A j \in Indices : disk'.file[j] = IF j = k THEN None ELSE disk.file[j]
    BY <1>2, <2>1, PutFile DEF RotateUnlinks, Write, TypeInv, TypeOK
  <2>3. \A j \in Indices : segments'[j] = IF j = k THEN None ELSE segments[j]
    BY <1>2, <2>1 DEF RotateUnlinks, TypeInv, TypeOK, Manifest
  <2>4. pc' = "renaming" /\ op'.index = k /\ op'.at = op.at
    BY <1>2 DEF RotateUnlinks, TypeInv, TypeOK, Operation
  <2>5. \A i \in Indices : Young(i)' /\ Dated(i)' /\ Described(i)'
    BY <1>0, <2>2, <2>3, <2>4 DEF Young, Dated, Described
  <2> QED
    BY <1>1, <2>1, <2>4, <2>5
<1>3. CASE RotateRenames
  <2> DEFINE k == op.index
  <2>1. pc = "renaming" /\ k \in Indices /\ k > 0 /\ k - 1 \in Indices /\ k - 1 # k
    BY <1>3, IndicesAre DEF RotateRenames, TypeInv, Present
  <2>2. pc' = "renaming" /\ op'.index = k - 1 /\ op'.at = op.at
    BY <1>3 DEF RotateRenames, TypeInv, TypeOK, Operation
  <2>3. CASE disk.file[k - 1] = None
    <3>1. UNCHANGED <<disk, segments>> /\ k - 1 # 0
      BY <1>3, <2>1, <2>3, IndicesAre DEF RotateRenames
    <3>2. \A i \in Indices : Young(i)' /\ Dated(i)' /\ Described(i)'
      BY <1>0, <2>2, <3>1 DEF Young, Dated, Described
    <3> QED
      BY <1>1, <2>2, <3>1, <3>2
  <2>4. CASE disk.file[k - 1] # None
    <3>1. \A j \in Indices : disk'.file[j] =
            IF j = k THEN disk.file[k - 1] ELSE IF j = k - 1 THEN None ELSE disk.file[j]
      BY <1>3, <2>1, <2>4, MoveFile DEF RotateRenames, Write, TypeInv, TypeOK
    <3>2. \A j \in Indices : segments'[j] =
            IF j = k - 1 THEN None ELSE IF j = k THEN segments[k - 1] ELSE segments[j]
      BY <1>3, <2>1, <2>4 DEF RotateRenames, TypeInv, TypeOK, Manifest
    <3>3. \A i \in Indices : Young(i)' /\ Dated(i)' /\ Described(i)'
      BY <1>0, <2>1, <2>2, <3>1, <3>2 DEF Young, Dated, Described
    <3>4. segments'[k - 1] = None
      BY <2>1, <3>2
    <3> QED
      BY <1>1, <2>2, <3>3, <3>4
  <2> QED
    BY <2>3, <2>4
<1>4. CASE RotateFails
  <2>1. Throw(pc = "renaming", FALSE) /\ disk' = disk
    BY <1>4 DEF RotateFails
  <2>2. pc # "renaming" \/ (pc = "renaming")
    OBVIOUS
  <2> QED
    BY <1>0, <2>1, <2>2, ThrowDated
<1>5. CASE RotateEnds
  <2>1. pc = "renaming" /\ op.index = 0 /\ UNCHANGED <<disk, segments>> /\ active' = NoActive
    BY <1>5 DEF RotateEnds
  <2>2. pc' = "publishing" /\ op'.then = "open" /\ op'.at = op.at
    BY <1>5 DEF RotateEnds, Publish, TypeInv, TypeOK, Operation
  <2>3. segments[0] = None
    BY <1>0, <2>1 DEF DatedInv, TypeInv, Present, Busy, Running
  <2>4. \A i \in Indices : Young(i)' /\ Dated(i)' /\ Described(i)'
    BY <1>0, <2>1, <2>2 DEF Young, Dated, Described
  <2>5. Traced'
    BY <1>0, <2>1, <2>3, <2>4 DEF Traced, NoActive, Described
  <2> QED
    BY <2>2, <2>4, <2>5 DEF DatedInv, Resolving
<1> QED
  BY <1>2, <1>3, <1>4, <1>5

\* The line that is appended dates a segment that was empty, and no other.
LEMMA ExtendedDated ==
  ASSUME NEW f \in File, NEW line \in Line, NEW n \in Nat
  PROVE  /\ Extended(f, line, n).lines # <<>>
         /\ Extended(f, line, n).lines[1].at =
              IF f.lines = <<>> THEN line.at ELSE f.lines[1].at
<1>1. Extended(f, line, n).lines = Append(f.lines, line) /\ f.lines \in Seq(Line)
  BY DEF Extended, File
<1> QED
  BY <1>1

\* What an append leaves dates the segment as a whole line does, or holds nothing new.
LEMMA RemainsDated ==
  ASSUME TypeInv, pc = "appending", NEW f \in Remains(disk.file[0])
  PROVE  \/ f = disk.file[0]
         \/ /\ f.lines # <<>> /\ f.bytes # 0
            /\ f.lines[1].at = IF disk.file[0].lines = <<>> THEN op.at
                               ELSE disk.file[0].lines[1].at
<1> DEFINE g == disk.file[0]
<1>1. g \in File /\ NewLine \in Line /\ TornLine \in Line
  BY LineTypes
<1>2. g.bytes \in Nat
  BY <1>1 DEF File
<1>3. op.size \in Nat /\ op.size > 0
  <2>1. op.size \in Sizes
    BY DEF TypeInv, Present, OfRecord
  <2> QED
    BY <2>1, SizesAre
<1>4. NewLine.at = op.at /\ TornLine.at = op.at
  BY DEF NewLine, TornLine
<1> HIDE DEF g
<1>5. ASSUME NEW line \in {NewLine, TornLine}, NEW n \in Nat, n > 0,
             f = Extended(g, line, n)
      PROVE  /\ f.lines # <<>> /\ f.bytes # 0
             /\ f.lines[1].at = IF g.lines = <<>> THEN op.at ELSE g.lines[1].at
  <2>1. f.bytes = g.bytes + n
    BY <1>5 DEF Extended
  <2> QED
    BY <1>1, <1>2, <1>4, <1>5, <2>1, ExtendedDated
<1>6. CASE f = Extended(g, NewLine, op.size)
  BY <1>3, <1>5, <1>6 DEF g
<1>7. ASSUME NEW n \in 1..(op.size - 1), f = Extended(g, TornLine, n)
      PROVE  /\ f.lines # <<>> /\ f.bytes # 0
             /\ f.lines[1].at = IF g.lines = <<>> THEN op.at ELSE g.lines[1].at
  <2>1. n \in Nat /\ n > 0
    BY <1>3
  <2> QED
    BY <1>5, <1>7, <2>1
<1> QED
  BY <1>6, <1>7 DEF Remains, g

LEMMA DatedOfAppend ==
  ASSUME TypeInv, DatedInv, Opens \/ OpenFails \/ Appends \/ AppendFails
  PROVE  DatedInv'
<1>0. /\ pc \in {"opening", "appending"} /\ 0 \in Indices /\ Traced
      /\ \A i \in Indices : Young(i)
  BY IndicesAre
    DEF Opens, OpenFails, Appends, AppendFails, TypeInv, Present, Busy, Running, DatedInv,
        PastExpiry, OfRecord
<1>1. ASSUME NEW f \in File, Write(Put(disk, 0, f)), UNCHANGED <<segments, active>>,
             segments[0] # None => f.lines # <<>> /\ f.lines[1].at = segments[0].createdAt,
             segments[0] = None /\ f.bytes = 0 => f.lines = <<>>
      PROVE  Traced' /\ disk'.file[0] = f
  <2>1. \A j \in Indices : disk'.file[j] = IF j = 0 THEN f ELSE disk.file[j]
    BY <1>0, <1>1, PutFile DEF Write, TypeInv, TypeOK
  <2>2. disk'.file[0] = f
    BY <1>0, <2>1
  <2>3. \A j \in Indices : Dated(j)' /\ (j > 0 => Described(j)')
    BY <1>0, <1>1, <2>1 DEF Traced, Dated, Described
  <2>4. /\ active'.createdAt = IF segments'[0] = None THEN None ELSE segments'[0].createdAt
        /\ segments'[0] = None => active'.bytes = 0
    BY <1>0, <1>1 DEF Traced
  <2> QED
    BY <1>1, <2>2, <2>3, <2>4 DEF Traced
<1>2. CASE Opens
  <2> DEFINE f == IF disk.file[0] = None THEN EmptyFile ELSE disk.file[0]
  <2>1. f \in File
    BY <1>0, FileTypes DEF TypeInv, TypeOK, Disk
  <2>2. segments[0] # None => f.lines # <<>> /\ f.lines[1].at = segments[0].createdAt
    <3>1. segments[0] # None => disk.file[0] # None /\ Dated(0)
      BY <1>0 DEF TypeInv, Present, Running, Traced
    <3> QED
      BY <3>1 DEF Dated
  <2>3. segments[0] = None /\ f.bytes = 0 => f.lines = <<>>
    BY <1>0 DEF Traced, EmptyFile
  <2>4. Write(Put(disk, 0, f))
    BY <1>2 DEF Opens
  <2>5. \/ /\ pc = "opening" /\ pc' = "appending" /\ UNCHANGED memory /\ f.bytes = active.bytes
        \/ Throw(FALSE, FALSE)
    BY <1>2 DEF Opens
  <2> HIDE DEF f
  <2>6. CASE pc' = "appending" /\ UNCHANGED memory /\ f.bytes = active.bytes
    <3>1. UNCHANGED <<op, segments, active>>
      BY <2>6 DEF memory
    <3>2. Traced' /\ disk'.file[0] = f
      BY <1>1, <2>1, <2>2, <2>3, <2>4, <3>1
    <3>3. segments[0] = None => f.lines = <<>>
      BY <1>0, <2>3, <2>6 DEF Traced
    <3>4. \A i \in Indices : Young(i)'
      BY <1>0, <3>1 DEF Young
    <3> QED
      BY <2>6, <3>1, <3>2, <3>3, <3>4 DEF DatedInv, Resolving
  <2>7. CASE Throw(FALSE, FALSE)
    <3>1. SUFFICES ASSUME Running' PROVE Traced' /\ pc' = "idle"
      BY DEF DatedInv, PastExpiry, OfRecord, Resolving
    <3>2. pc' = "idle" /\ UNCHANGED <<segments, active>>
      BY <2>7, <3>1 DEF Throw, Stops, Running
    <3> QED
      BY <1>1, <2>1, <2>2, <2>3, <2>4, <3>2
  <2> QED
    BY <2>5, <2>6, <2>7
<1>3. CASE OpenFails
  BY <1>0, <1>3, ThrowDated DEF OpenFails
<1>4. CASE Appends
  <2> DEFINE f == disk.file[0]
             g == Extended(f, NewLine, op.size)
  <2>1. /\ pc = "appending" /\ pc' = "describing" /\ UNCHANGED <<op, segments, active, poisoned>>
        /\ Write(Put(disk, 0, g))
    BY <1>4 DEF Appends, memory
  <2>2. f \in File /\ g \in File /\ NewLine \in Line /\ NewLine.at = op.at /\ op.size \in Nat
    BY <2>1, LineTypes DEF NewLine, TypeInv, TypeOK, Operation
  <2>3. segments[0] = None => f.lines = <<>>
    BY <2>1 DEF DatedInv, TypeInv, Present, Busy, Running
  <2>4. segments[0] # None => f.lines # <<>> /\ f.lines[1].at = segments[0].createdAt
    BY <1>0 DEF Traced, Dated
  <2>5. g.lines # <<>> /\ g.lines[1].at = IF f.lines = <<>> THEN op.at ELSE f.lines[1].at
    BY <2>2, ExtendedDated
  <2>6. g.bytes # 0
    <3>1. op.size > 0
      <4>1. op.size \in Sizes
        BY <2>1 DEF TypeInv, Present, OfRecord
      <4> QED
        BY <4>1, SizesAre
    <3>2. f.bytes \in Nat /\ g.bytes = f.bytes + op.size
      BY <2>2 DEF File, Extended
    <3> QED
      BY <2>2, <3>1, <3>2
  <2>7. segments[0] # None => active.createdAt # None
    BY <1>0, NoneAssumption DEF Traced, TypeInv, TypeOK, Manifest, Descriptor
  <2>8. active.createdAt = IF segments[0] = None THEN None ELSE segments[0].createdAt
    BY <1>0, <2>1 DEF Traced
  <2> HIDE DEF f, g
  <2>9. Traced' /\ disk'.file[0] = g
    BY <1>1, <2>1, <2>2, <2>4, <2>5, <2>6
  <2>10. g.lines[1].at = IF active.createdAt = None THEN op.at ELSE active.createdAt
    BY <2>3, <2>4, <2>5, <2>7, <2>8
  <2>11. \A i \in Indices : Young(i)'
    BY <1>0, <2>1 DEF Young
  <2> QED
    BY <2>1, <2>5, <2>9, <2>10, <2>11 DEF DatedInv, Resolving
<1>5. CASE AppendFails
  <2>1. SUFFICES ASSUME Running' PROVE Traced' /\ pc' = "idle"
    BY DEF DatedInv, PastExpiry, OfRecord, Resolving
  <2>2. pc = "appending" /\ pc' = "idle" /\ UNCHANGED <<segments, active>>
    BY <1>5, <2>1 DEF AppendFails, Throw, Stops, Running
  <2>3. PICK f \in Remains(disk.file[0]) : Write(Put(disk, 0, f))
    BY <1>5 DEF AppendFails
  <2>4. f \in File
    BY <2>2, LineTypes
  <2>5. segments[0] # None =>
          disk.file[0].lines # <<>> /\ disk.file[0].lines[1].at = segments[0].createdAt
    BY <1>0 DEF Traced, Dated
  <2>6. segments[0] = None => disk.file[0].lines = <<>>
    BY <2>2 DEF DatedInv, TypeInv, Present, Busy, Running
  <2>7. /\ segments[0] # None => f.lines # <<>> /\ f.lines[1].at = segments[0].createdAt
        /\ segments[0] = None /\ f.bytes = 0 => f.lines = <<>>
    BY <2>2, <2>5, <2>6, RemainsDated
  <2> QED
    BY <1>1, <2>2, <2>3, <2>4, <2>7
<1> QED
  BY <1>2, <1>3, <1>4, <1>5

LEMMA DatedOfPublish ==
  ASSUME TypeInv, DatedInv, Describes \/ Publishes \/ PublishFails \/ Syncs
  PROVE  DatedInv'
<1>0. pc \in {"describing", "publishing", "syncing"} /\ 0 \in Indices /\ Traced
  BY IndicesAre
    DEF Describes, Publishes, PublishFails, Syncs, TypeInv, Present, Busy, Running, DatedInv
<1>1. CASE Describes
  <2> DEFINE c == IF active.createdAt = None THEN op.at ELSE active.createdAt
             x == [createdAt |-> c, bytes |-> active.bytes + op.size, lastHash |-> op.rec,
                   sha256 |-> disk.file[0].lines]
  <2>1. /\ pc = "describing" /\ pc' = "publishing" /\ disk' = disk
        /\ op'.then = "resolve" /\ op'.at = op.at
        /\ segments' = [segments EXCEPT ![0] = x]
        /\ active' = [createdAt |-> c, bytes |-> active.bytes + op.size,
                      previousHash |-> op.rec]
    BY <1>1 DEF Describes, Publish, TypeInv, TypeOK, Operation
  <2>2. /\ \A i \in Indices : Young(i)
        /\ disk.file[0].lines # <<>> /\ disk.file[0].lines[1].at = c
    BY <2>1 DEF DatedInv, TypeInv, Present, Busy, Running, PastExpiry, OfRecord
  <2>3. \A j \in Indices : segments'[j] = IF j = 0 THEN x ELSE segments[j]
    BY <2>1 DEF TypeInv, TypeOK, Manifest
  <2>4. op.at \in Nat /\ active.createdAt \in Nat \cup {None} /\ active.bytes \in Nat
        /\ op.size \in Nat /\ op.rec \in Records
    BY <2>1 DEF TypeInv, TypeOK, Operation, Present, OfRecord
  <2>5. x # None
    <3>1. disk.file[0].lines \in Seq(Line)
      BY <1>0, <2>1 DEF TypeInv, TypeOK, Present, Disk, File
    <3>2. x \in Descriptor
      BY <2>4, <3>1 DEF Descriptor
    <3> QED
      BY <3>2, NoneAssumption
  <2>6. op.at < c + Retention
    <3>1. CASE segments[0] = None
      BY <1>0, <2>1, <2>4, <3>1, AuditAssumption DEF Traced
    <3>2. CASE segments[0] # None
      <4>1. active.createdAt = segments[0].createdAt /\ active.createdAt # None
        BY <1>0, <2>1, <3>2, NoneAssumption DEF Traced, TypeInv, TypeOK, Manifest, Descriptor
      <4> QED
        BY <1>0, <2>2, <3>2, <4>1 DEF Young
    <3> QED
      BY <3>1, <3>2
  <2>7. x.createdAt = c
    OBVIOUS
  <2> HIDE DEF c, x
  <2>8. segments'[0] = x
    BY <1>0, <2>3
  <2>9. ASSUME NEW j \in Indices PROVE Young(j)' /\ Dated(j)' /\ Described(j)'
    <3>1. CASE j = 0
      BY <2>1, <2>2, <2>5, <2>6, <2>7, <2>8, <3>1 DEF Young, Dated, Described
    <3>2. CASE j # 0
      <4>1. segments'[j] = segments[j] /\ j > 0
        BY <2>3, <3>2, IndicesAre
      <4> QED
        BY <1>0, <2>1, <2>2, <4>1 DEF Traced, Young, Dated, Described
    <3> QED
      BY <3>1, <3>2
  <2>10. Traced'
    BY <2>1, <2>5, <2>7, <2>8, <2>9 DEF Traced
  <2> QED
    BY <1>0, <2>1, <2>9, <2>10 DEF DatedInv
<1>2. CASE Publishes
  <2>1. /\ disk'.file = disk.file /\ pc = "publishing" /\ pc' = "syncing"
        /\ UNCHANGED <<op, segments, active>>
    BY <1>2 DEF Publishes, Write, memory, TypeInv, TypeOK, Disk
  <2>2. Traced'
    BY <1>0, <2>1 DEF Traced, Dated, Described
  <2>3. /\ op.then = "resolve" => Described(0)
        /\ op.then # "serve" => \A i \in Indices : Young(i)
    BY <2>1 DEF DatedInv, TypeInv, Present, Busy, Running, PastExpiry, Resolving
  <2>4. /\ Described(0) => Described(0)'
        /\ \A i \in Indices : Young(i) => Young(i)'
    BY <2>1 DEF Described, Young
  <2> QED
    BY <2>1, <2>2, <2>3, <2>4 DEF DatedInv, PastExpiry, OfRecord, Resolving
<1>3. CASE PublishFails
  BY <1>0, <1>3, ThrowDated DEF PublishFails
<1>4. CASE Syncs
  <2>1. pc = "syncing" /\ UNCHANGED <<disk, segments, active>>
    BY <1>4 DEF Syncs
  <2>2. Traced'
    BY <1>0, <2>1 DEF Traced, Dated, Described
  <2>3. CASE op.then \in {"serve", "resolve"}
    <3>1. pc' = "idle"
      BY <1>4, <2>3 DEF Syncs
    <3> QED
      BY <2>2, <3>1 DEF DatedInv, PastExpiry, OfRecord, Resolving
  <2>4. CASE op.then \in {"size", "open"}
    <3>1. op' = op /\ pc' \in {"unlinking", "opening"}
          /\ (pc' = "unlinking" => AfterExpiry = "unlinking")
      BY <1>4, <2>4 DEF Syncs, AfterExpiry
    <3>2. \A i \in Indices : Young(i)'
      BY <2>1, <2>4, <3>1
        DEF DatedInv, TypeInv, Present, Busy, Running, PastExpiry, Young
    <3>3. AfterExpiry = "unlinking" => segments[0] # None
      <4>1. active.bytes \in Nat /\ (segments[0] = None => active.bytes = 0)
        BY <1>0, <2>1 DEF TypeInv, TypeOK, Traced
      <4> QED
        BY <4>1 DEF AfterExpiry
    <3>4. pc' = "unlinking" => Described(0)'
      BY <2>1, <3>1, <3>3 DEF Described
    <3> QED
      BY <2>2, <3>1, <3>2, <3>4 DEF DatedInv, Resolving
  <2> QED
    BY <2>3, <2>4 DEF TypeInv, TypeOK, Operation
<1> QED
  BY <1>1, <1>2, <1>3, <1>4

LEMMA DatedStep == TypeInv /\ DatedInv /\ [Next]_vars => DatedInv'
<1> SUFFICES ASSUME TypeInv, DatedInv, [Next]_vars PROVE DatedInv'
  OBVIOUS
<1>1. CASE StartFresh \/ StartVerified \/ StartRefused \/ \E size \in Sizes : RecordBegins(size)
  BY <1>1, DatedOfStart
<1>2. CASE LoggerStep
  BY <1>2, DatedOfExpiry, DatedOfRotation, DatedOfAppend, DatedOfPublish DEF LoggerStep
<1>3. CASE Crash \/ \E d \in images : PowerFails(d)
  BY <1>3 DEF Crash, PowerFails, Stops, DatedInv, Running
<1>4. CASE Tick \/ UNCHANGED vars
  <2>1. UNCHANGED <<disk, pc, op, segments, active, poisoned>>
    BY <1>4 DEF Tick, vars, memory
  <2>2. \A i \in Indices : (Dated(i)' <=> Dated(i)) /\ (Young(i)' <=> Young(i))
                           /\ (Described(i)' <=> Described(i))
    BY <2>1 DEF Dated, Young, Described
  <2>3. (Traced => Traced') /\ (Described(0)' <=> Described(0))
    BY <2>1, <2>2 DEF Traced, Described
  <2> QED
    BY <2>1, <2>2, <2>3 DEF DatedInv, Running, PastExpiry, OfRecord, Resolving
<1> QED
  BY <1>1, <1>2, <1>3, <1>4 DEF Next

\* RetentionKept: a record is acknowledged only when no segment is left that began a
\* retention time before its record() was called, whatever appends, rotations and
\* publications failed before, as long as the logger goes on (removeExpiredSegments).
THEOREM SegmentsExpire == Spec => RetentionKept
<1> DEFINE Kept == acked' # acked =>
             \A i \in Indices : disk'.file[i] # None =>
               op.at < disk'.file[i].lines[1].at + Retention
<1>1. Init => TypeInv /\ DatedInv
  BY TypeInit DEF Init, DatedInv, Running
<1>2. TypeInv /\ [Next]_vars => TypeInv'
  BY TypeStep
<1>3. TypeInv /\ DatedInv /\ [Next]_vars => DatedInv'
  BY DatedStep
<1>4. TypeInv /\ DatedInv /\ [Next]_vars => [Kept]_vars
  <2> SUFFICES ASSUME TypeInv, DatedInv, [Next]_vars, acked' # acked, NEW i \in Indices,
                      disk'.file[i] # None
               PROVE  op.at < disk'.file[i].lines[1].at + Retention
    OBVIOUS
  <2>1. Syncs
    BY DEF Next, LoggerStep, StartFresh, StartVerified, StartRefused, RecordBegins,
           ExpireSegment, ExpireFails, ExpireEnds, Proceed, RotateUnlinks, RotateRenames,
           RotateFails, RotateEnds, Opens, OpenFails, Appends, AppendFails, Describes,
           Publishes, PublishFails, Crash, PowerFails, Tick, Throw, history, vars
  <2>2. pc = "syncing" /\ op.then = "resolve" /\ disk' = disk
    BY <2>1 DEF Syncs
  <2>3. Dated(i) /\ Young(i) /\ Described(i)
    <3>1. Running /\ ~poisoned /\ Resolving /\ PastExpiry
      BY <2>2 DEF TypeInv, Present, Busy, Running, Resolving, PastExpiry
    <3>2. i > 0 \/ i = 0
      BY IndicesAre
    <3> QED
      BY <3>1, <3>2 DEF DatedInv, Traced
  <2> QED
    BY <2>2, <2>3 DEF Dated, Young, Described
<1> QED
  BY <1>1, <1>2, <1>3, <1>4, PTL DEF Spec, RetentionKept

=============================================================================
