---------------------------- MODULE MediaProofs ----------------------------
(***************************************************************************)
(* The proofs about the parts of MCMedia: the buffers of camera metadata   *)
(* (CameraMetadata; its lemmas are in MetadataProofs) are sound, a host of *)
(* MTP (MtpDevice) stays in step with its device, and the objects of the   *)
(* MTP daemon's database (MtpDatabase) follow the files of the storage.    *)
(***************************************************************************)
EXTENDS MCMedia, MetadataProofs

-----------------------------------------------------------------------------
(* Camera metadata (CameraMetadata)                                        *)

MediaVars == <<vars, tagVars, parameterVars, databaseVars, folderVars, deviceVars, packetVars,
               regionVars, sampleVars, used>>

(* Whatever a program does with its objects, and in whatever order: each   *)
(* buffer is valid, each cell of its area is one entry's, none is lost or  *)
(* shared, and one that says it is sorted is: camera_metadata.c and        *)
(* CameraMetadata.cpp, but for values without elements and for appending   *)
(* what is not sorted to an empty buffer that says it is.                  *)
THEOREM BuffersAreSoundAlways ==
  ASSUME MinCount > 0, Careless = FALSE, NULL \notin Buffer
  PROVE  MediaSpec => []BuffersAreSound
<1>0. MetadataConstants
  BY DEF MetadataConstants
<1>1. MediaInit => MetadataInv
  BY MetadataBegins DEF MediaInit
<1>2. MetadataInv /\ [MediaNext]_MediaVars => MetadataInv'
  <2>1. [MediaNext]_MediaVars => [Next]_vars
    BY DEF MediaNext, MediaVars, OfMetadata, OfTags, OfParameters, OfDatabase, OfFolders, OfDevice,
      OfPackets, OfRegion, OfSamples
  <2> QED
    BY <1>0, <2>1, MetadataKept
<1>3. MetadataInv => BuffersAreSound
  BY InvImpliesSound
<1> QED
  BY <1>1, <1>2, <1>3, PTL DEF MediaSpec, MediaVars

-----------------------------------------------------------------------------
(* A host of MTP (MtpDevice)                                               *)
(*                                                                         *)
(* Until an operation leaves its response unread, what the device has sent *)
(* and nobody has read is the answer to the object that is being read,     *)
(* whole until its header is read, or nothing; the buffer that is filled   *)
(* is the one whose turn it is, and the one to be written is the other.    *)

DeviceTyped ==
  /\ session \in BOOLEAN /\ transactionId \in Nat /\ op \in Nat
  /\ remaining \in Nat /\ unwritten \in Int
  /\ queued \in {0, 1, 2} /\ toWrite \in {0, 1, 2} /\ req \in {1, 2}

TurnsInv ==
  /\ queued # 0 => queued = req /\ remaining > 0
  /\ toWrite # 0 => toWrite # req
  /\ op # 0 /\ toWrite = 0 => unwritten = remaining
  /\ op # 0 /\ toWrite # 0 => unwritten = remaining + 1

Refused(id) == <<Device!Packet("response", id)>>
Answered(id) == <<Device!Packet("data", id), Device!Packet("response", id)>>

StepInv ==
  /\ ~session => transactionId = 0 /\ op = 0 /\ result = {} /\ pipe = << >> /\ ~outOfStep
  /\ session => transactionId > 0
  /\ op # 0 => op = transactionId - 1
  /\ header = "awaited" => op # 0 /\ queued = 0 /\ toWrite = 0 /\ remaining = 0
  /\ ~outOfStep =>
       /\ header = "nothing" => broken
       /\ header \in {"awaited", "data", "response", "nothing"}
       /\ op = 0 => pipe = << >>
       /\ op # 0 /\ header = "data" => pipe = Refused(op)
       /\ op # 0 /\ header = "response" => pipe = << >>
       /\ op # 0 /\ header \in {"awaited", "nothing"} => pipe \in {Refused(op), Answered(op)}
       /\ header # "nothing" => result \subseteq {transactionId - 1}
       /\ op = 0 => \/ response = transactionId - 1 \/ transactionId <= 1
                    \/ header = "response" \/ broken

DeviceInv == DeviceTyped /\ TurnsInv /\ StepInv

LEMMA PairIs ==
  ASSUME NEW x, NEW y
  PROVE  <<x>> \o <<y>> = <<x, y>> /\ << >> \o <<x>> = <<x>> /\ << >> \o <<x, y>> = <<x, y>>
<1> DEFINE S == {x, y}
<1>1. <<x>> \in Seq(S) /\ <<y>> \in Seq(S) /\ <<x, y>> \in Seq(S)
  OBVIOUS
<1>2. /\ Len(<<x>>) = 1 /\ Len(<<y>>) = 1 /\ Len(<<x, y>>) = 2
      /\ <<x>>[1] = x /\ <<y>>[1] = y /\ <<x, y>>[1] = x /\ <<x, y>>[2] = y
  OBVIOUS
<1> HIDE DEF S
<1>3. /\ <<x>> \o <<y>> \in Seq(S) /\ Len(<<x>> \o <<y>>) = 2
      /\ (<<x>> \o <<y>>)[1] = x /\ (<<x>> \o <<y>>)[2] = y
  BY <1>1, <1>2, ConcatProperties
<1>4. \A i \in 1 .. 2 : (<<x>> \o <<y>>)[i] = <<x, y>>[i]
  BY <1>2, <1>3
<1>5. <<x>> \o <<y>> = <<x, y>>
  BY <1>1, <1>2, <1>3, <1>4, SeqEqual
<1> QED
  BY <1>1, <1>5, ConcatEmptySeq

LEMMA DeviceBegins ==
  ASSUME Device!Init
  PROVE  DeviceInv
<1>1. /\ session = FALSE /\ transactionId = 0 /\ pipe = << >> /\ result = {} /\ header = "data"
      /\ op = 0 /\ remaining = 0 /\ queued = 0 /\ toWrite = 0 /\ req = 1 /\ unwritten = 0
      /\ outOfStep = FALSE
  BY DEF Device!Init, Device!None
<1>2. DeviceTyped
  <2>1. /\ session \in BOOLEAN
    BY <1>1
  <2>2. /\ transactionId \in Nat /\ op \in Nat
        /\ remaining \in Nat /\ unwritten \in Int
        /\ queued \in {0, 1, 2} /\ toWrite \in {0, 1, 2} /\ req \in {1, 2}
    BY <1>1
  <2> QED
    BY <2>1, <2>2 DEF DeviceTyped
<1>3. TurnsInv
  BY <1>1 DEF TurnsInv
<1>4. StepInv
  BY <1>1 DEF StepInv
<1> QED
  BY <1>2, <1>3, <1>4 DEF DeviceInv

(* A request that is answered: what there is to read.                      *)
LEMMA AnswerIs ==
  ASSUME NEW id
  PROVE  << >> \o Device!Answer(id, FALSE) = Refused(id) /\ << >> \o Device!Answer(id, TRUE) = Answered(id)
<1>1. Device!Answer(id, FALSE) = << >> \o <<Device!Packet("response", id)>>
  BY DEF Device!Answer
<1>2. Device!Answer(id, TRUE) = <<Device!Packet("data", id)>> \o <<Device!Packet("response", id)>>
  BY DEF Device!Answer
<1> QED
  BY <1>1, <1>2, PairIs DEF Refused, Answered

LEMMA RefusedIs ==
  ASSUME NEW id
  PROVE  /\ Refused(id) # << >> /\ Head(Refused(id)).type = "response" /\ Head(Refused(id)).id = id
         /\ Tail(Refused(id)) = << >> /\ <<Device!Packet("data", id)>> \o Refused(id) = Answered(id)
<1> DEFINE x == Device!Packet("response", id)
<1>1. x.type = "response" /\ x.id = id
  BY DEF Device!Packet
<1> HIDE DEF x
<1>2. <<x>> # << >> /\ Head(<<x>>) = x /\ Tail(<<x>>) = << >>
  OBVIOUS
<1> QED
  BY <1>1, <1>2, PairIs DEF Refused, Answered, x

LEMMA AnsweredIs ==
  ASSUME NEW id
  PROVE  /\ Answered(id) # << >> /\ Head(Answered(id)).type = "data" /\ Head(Answered(id)).id = id
         /\ Tail(Answered(id)) = Refused(id)
<1> DEFINE x == Device!Packet("data", id)
           y == Device!Packet("response", id)
<1>1. x.type = "data" /\ x.id = id
  BY DEF Device!Packet
<1> HIDE DEF x, y
<1>2. <<x, y>> # << >> /\ Head(<<x, y>>) = x /\ Tail(<<x, y>>) = <<y>>
  OBVIOUS
<1> QED
  BY <1>1, <1>2 DEF Refused, Answered, x, y

LEMMA DeviceKept ==
  ASSUME DeviceInv, Device!Next
  PROVE  DeviceInv'
<1> USE DEF DeviceInv, DeviceTyped, TurnsInv, StepInv, Device!None, Device!dataVars,
            Device!Idle, Device!BusWorks, Device!NextTransaction
<1>1. CASE Device!OpenSession
  BY <1>1 DEF Device!OpenSession
<1>2. CASE Device!BusBreaks
  BY <1>2 DEF Device!BusBreaks
<1>3. CASE Device!Fail
  BY <1>3 DEF Device!Fail
<1>4. CASE \E hasData, parsed \in BOOLEAN : Device!GetData(hasData, parsed)
  <2> PICK hasData, parsed \in BOOLEAN : Device!GetData(hasData, parsed)
    BY <1>4
  <2>1. /\ op = 0 /\ session /\ transactionId' = transactionId + 1
        /\ header' = "data"
        /\ UNCHANGED <<session, broken, outOfStep, op, remaining, queued, toWrite, req, unwritten>>
    BY DEF Device!GetData
  <2>2. DeviceTyped' /\ TurnsInv'
    BY <2>1
  <2>3. ASSUME ~outOfStep
        PROVE  pipe' = << >> /\ result' \subseteq {transactionId} /\ response' = transactionId
    <3>1. pipe = << >>
      BY <2>1, <2>3
    <3>2. CASE hasData
      <4>1. pipe \o Device!Answer(transactionId, hasData) = Answered(transactionId)
        BY <3>1, <3>2, AnswerIs
      <4>2. /\ Head(Answered(transactionId)).type = "data"
            /\ Head(Answered(transactionId)).id = transactionId
            /\ Head(Tail(Answered(transactionId))).id = transactionId
            /\ Tail(Tail(Answered(transactionId))) = << >>
        <5>1. /\ Head(Answered(transactionId)).type = "data"
              /\ Head(Answered(transactionId)).id = transactionId
              /\ Tail(Answered(transactionId)) = Refused(transactionId)
          BY AnsweredIs
        <5>2. /\ Head(Refused(transactionId)).id = transactionId
              /\ Tail(Refused(transactionId)) = << >>
          BY RefusedIs
        <5> QED
          BY <5>1, <5>2
      <4>3. /\ response' = Head(Tail(Answered(transactionId))).id
            /\ pipe' = Tail(Tail(Answered(transactionId)))
            /\ result' \subseteq {Head(Answered(transactionId)).id}
        <5> DEFINE p == pipe \o Device!Answer(transactionId, hasData)
        <5>1. Head(p).type = "data"
          BY <4>1, <4>2
        <5>2. /\ result' = (IF parsed THEN {Head(p).id} ELSE {})
              /\ response' = Head(Tail(p)).id /\ pipe' = Tail(Tail(p))
          BY <5>1 DEF Device!GetData, Device!ReadResponse
        <5> QED
          BY <4>1, <5>2
      <4> QED
        BY <4>2, <4>3
    <3>3. CASE ~hasData
      <4>1. pipe \o Device!Answer(transactionId, hasData) = Refused(transactionId)
        BY <3>1, <3>3, AnswerIs
      <4> QED
        BY <4>1, RefusedIs DEF Device!GetData, Device!ReadResponse
    <3> QED
      BY <3>2, <3>3
  <2> QED
    BY <2>1, <2>2, <2>3
<1>5. CASE Device!WithoutDataIn
  <2>1. ASSUME ~outOfStep
        PROVE  pipe' = << >> /\ response' = transactionId
    <3>1. pipe = << >>
      BY <1>5, <2>1 DEF Device!WithoutDataIn
    <3>2. pipe \o Device!Answer(transactionId, FALSE) = Refused(transactionId)
      BY <3>1, AnswerIs
    <3> QED
      BY <1>5, <3>2, RefusedIs DEF Device!WithoutDataIn, Device!ReadResponse
  <2> QED
    BY <1>5, <2>1 DEF Device!WithoutDataIn
<1>6. CASE Device!SendObjectInfo
  BY <1>6 DEF Device!SendObjectInfo
<1>7. CASE \E hasData \in BOOLEAN : Device!ReadObject(hasData)
  <2> PICK hasData \in BOOLEAN : Device!ReadObject(hasData)
    BY <1>7
  <2>1. /\ remaining' = 0 /\ unwritten' = 0 /\ op' = transactionId /\ transactionId > 0
        /\ session /\ session' = session /\ transactionId' = transactionId + 1
        /\ queued' = 0 /\ toWrite' = 0 /\ req' = 1 /\ outOfStep' = outOfStep
        /\ header' = "awaited" /\ result' = {}
    BY DEF Device!ReadObject
  <2>2. ASSUME ~outOfStep
        PROVE  pipe' \in {Refused(transactionId), Answered(transactionId)}
    <3>1. pipe = << >> /\ pipe' = pipe \o Device!Answer(transactionId, hasData)
      BY <2>2 DEF Device!ReadObject
    <3> QED
      BY <3>1, AnswerIs
  <2>3. DeviceTyped' /\ TurnsInv'
    BY <2>1
  <2>4. op' # 0 /\ op' = transactionId' - 1 /\ transactionId' > 0
    BY <2>1
  <2>5. StepInv'
    BY <2>1, <2>2, <2>4
  <2> QED
    BY <2>3, <2>5
<1>13. CASE \E buffers \in 0 .. MaxLength : Device!ReadHeader(buffers)
  <2> PICK buffers \in 0 .. MaxLength : Device!ReadHeader(buffers)
    BY <1>13
  <2>1. /\ op # 0 /\ queued = 0 /\ toWrite = 0 /\ header = "awaited"
        /\ remaining' \in Nat /\ unwritten' = remaining' /\ header' = Head(pipe).type
        /\ result' = {Head(pipe).id} /\ pipe' = Tail(pipe)
        /\ UNCHANGED <<session, transactionId, response, broken, outOfStep, op, queued, toWrite, req>>
    <3>1. remaining' \in {buffers, 0} /\ buffers \in Nat
      BY MtpAssumption DEF Device!MtpDeviceAssumption, Device!ReadHeader
    <3> QED
      BY <3>1 DEF Device!ReadHeader
  <2>2. DeviceTyped' /\ TurnsInv'
    BY <2>1
  <2>3. CASE outOfStep
    <3>1. header' = "awaited" => remaining' = 0
      BY DEF Device!ReadHeader
    <3> QED
      BY <2>1, <2>2, <2>3, <3>1
  <2>4. CASE ~outOfStep
    <3>1. pipe \in {Refused(op), Answered(op)} /\ op = transactionId - 1
      BY <2>1, <2>4
    <3>2. /\ result' = {op}
          /\ \/ header' = "response" /\ pipe' = << >>
             \/ header' = "data" /\ pipe' = Refused(op)
      <4>1. CASE pipe = Refused(op)
        BY <2>1, <4>1, RefusedIs
      <4>2. CASE pipe = Answered(op)
        BY <2>1, <4>2, AnsweredIs
      <4> QED
        BY <3>1, <4>1, <4>2
    <3>3. StepInv'
      BY <2>1, <2>4, <3>1, <3>2
    <3> QED
      BY <2>2, <3>3
  <2> QED
    BY <2>3, <2>4
<1>14. CASE Device!HeaderFails
  BY <1>14 DEF Device!HeaderFails
<1>8. CASE Device!GiveUp
  <2>1. /\ op # 0 /\ header # "awaited" /\ op' = 0 /\ queued' = 0 /\ toWrite' = 0
        /\ outOfStep' = (outOfStep \/ pipe' # << >>)
        /\ pipe' = pipe \/ (header = "data" /\ pipe' = <<Device!Packet("data", op)>> \o pipe)
        /\ UNCHANGED <<session, transactionId, response, broken, result, header, remaining, req,
                       unwritten>>
    BY <1>8 DEF Device!GiveUp
  <2>2. DeviceTyped' /\ TurnsInv'
    BY <2>1
  <2>3. ASSUME ~outOfStep'
        PROVE  pipe' = << >> /\ ~outOfStep /\ header \in {"response", "nothing"}
    <3>1. pipe' = << >> /\ ~outOfStep
      BY <2>1, <2>3
    <3>2. header # "data"
      BY <2>1, <3>1, RefusedIs, AnsweredIs
    <3> QED
      BY <2>1, <3>1, <3>2
  <2>4. StepInv'
    BY <2>1, <2>3
  <2> QED
    BY <2>2, <2>4
<1>9. CASE Device!QueueRead
  BY <1>9 DEF Device!QueueRead
<1>10. CASE Device!WriteOut
  BY <1>10 DEF Device!WriteOut
<1>11. CASE Device!EndOfObject
  <2>1. ASSUME ~outOfStep
        PROVE  pipe' = << >> /\ response' = transactionId - 1
    <3>1. pipe = Refused(op) /\ op = transactionId - 1
      <4>1. pipe # << >> /\ op # 0 /\ ~broken /\ header # "awaited"
        BY <1>11 DEF Device!EndOfObject
      <4> QED
        BY <2>1, <4>1
    <3>2. response' = Head(pipe).id /\ pipe' = Tail(pipe)
      BY <1>11 DEF Device!EndOfObject, Device!ReadResponse
    <3> QED
      BY <3>1, <3>2, RefusedIs
  <2> QED
    BY <1>11, <2>1 DEF Device!EndOfObject
<1>12. CASE \E empty \in BOOLEAN : Device!WaitForRead(empty)
  BY <1>12 DEF Device!WaitForRead
<1> QED
  BY <1>1, <1>2, <1>3, <1>4, <1>5, <1>6, <1>7, <1>8, <1>9, <1>10, <1>11, <1>12, <1>13,
     <1>14 DEF Device!Next

LEMMA DevicePromise ==
  ASSUME DeviceInv
  PROVE  Device!OperationsAreInStep
<1>1. Refused(op) # << >> /\ Answered(op) # << >>
  BY RefusedIs, AnsweredIs
<1>2. /\ queued # 0 => queued # toWrite
      /\ op # 0 => unwritten = remaining + (IF toWrite = 0 THEN 0 ELSE 1)
  BY DEF DeviceInv, DeviceTyped, TurnsInv
<1>3. ASSUME ~outOfStep
      PROVE  /\ header # "nothing" => result \subseteq {transactionId - 1}
             /\ op # 0 /\ header \in {"awaited", "data"} => pipe # << >>
             /\ op = 0 =>
                  /\ pipe = << >>
                  /\ \/ response = transactionId - 1 \/ transactionId <= 1
                     \/ header = "response" \/ broken
  <2>1. op # 0 /\ header \in {"awaited", "data"} => pipe \in {Refused(op), Answered(op)}
    BY <1>3 DEF DeviceInv, StepInv
  <2>2. op # 0 /\ header \in {"awaited", "data"} => pipe # << >>
    BY <1>1, <2>1
  <2> QED
    BY <1>3, <2>2 DEF DeviceInv, StepInv
<1> QED
  BY <1>2, <1>3 DEF Device!OperationsAreInStep, Device!None

(* Until an operation leaves its response unread, each returns or writes   *)
(* out the data and takes the response of its own request, and waits for   *)
(* nothing that does not come, but for a readObject() that took a response *)
(* for the data header or got none (readData, readResponse); and no buffer *)
(* of an object is filled while it is written (readObject).                *)
THEOREM OperationsAreInStepAlways == MediaSpec => []OperationsAreInStep
<1>1. MediaInit => DeviceInv
  BY DeviceBegins DEF MediaInit
<1>2. DeviceInv /\ [MediaNext]_<<vars, tagVars, parameterVars, databaseVars, folderVars,
                     deviceVars, packetVars, regionVars, sampleVars, used>> => DeviceInv'
  <2> SUFFICES ASSUME DeviceInv, [MediaNext]_<<vars, tagVars, parameterVars, databaseVars, folderVars,
                     deviceVars, packetVars, regionVars, sampleVars, used>>
               PROVE  DeviceInv'
    OBVIOUS
  <2>1. CASE Device!Next
    BY <2>1, DeviceKept
  <2>2. CASE UNCHANGED deviceVars
    BY <2>2 DEF deviceVars, DeviceInv, DeviceTyped, TurnsInv, StepInv
  <2> QED
    BY <2>1, <2>2 DEF MediaNext, OfMetadata, OfTags, OfParameters, OfDatabase, OfFolders, OfDevice,
                      OfPackets, OfRegion, OfSamples
<1>3. DeviceInv => OperationsAreInStep
  BY DevicePromise DEF OperationsAreInStep
<1> QED
  BY <1>1, <1>2, <1>3, PTL DEF MediaSpec

-----------------------------------------------------------------------------
(* The daemon's objects and the files (MtpDatabase)                        *)

Events == [type : {"create", "delete"}, path : Database!Paths]
Nothing == Database!Idle

(* What the variables are, and what a thread that is under way holds.  The *)
(* server's path has no file until the data comes; nothing is sent, and    *)
(* nobody told of anything, before the storage is there.                   *)
DatabaseTyped ==
  /\ mObjectDb \in [Database!Handles -> Database!Paths \union {Nobody}]
  /\ mHandleId \in Database!Handles
  /\ files \subseteq Database!Paths /\ loose \subseteq Database!Paths
  /\ events \in Seq(Events)

ServerTyped ==
  /\ server = Nothing \/ server \in
       [pc : {"insert", "count", "await", "write", "end", "unlink"},
        path : Database!Paths, handle : Database!Handles]
  /\ server.pc \in {"insert", "count", "await", "end"} => server.path \in HostPaths \ files
  /\ server.pc = "write" => server.path \in HostPaths
  /\ server.pc \in {"insert", "count", "await", "write", "end"} => media.pc \in {"flag", "idle"}

WatcherTyped ==
  \/ watcher = Nothing
  \/ /\ watcher \in [pc : {"take", "insert", "erase"}, path : Database!Paths,
                     handle : 0 .. MaxHandle]
     /\ watcher.pc # "take" => watcher.handle \in Database!Handles

MediaTyped ==
  /\ media \in [pc : {"mount", "readdir", "list", "insert", "flag", "idle"},
                path : Database!Paths \union {Nobody}, handle : 0 .. MaxHandle,
                todo : SUBSET Database!Paths]
  /\ media.pc = "insert" => media.path \in Database!Paths /\ media.handle \in Database!Handles
  /\ media.pc # "idle" => mMediaFlag = MediaFlag
  /\ media.pc = "idle" => mMediaFlag = MediaFlag + 1
  /\ media.pc = "mount" => /\ events = << >> /\ server = Nothing /\ watcher = Nothing
                           /\ \A h \in Database!Handles : mObjectDb[h] = Nobody

TypedInv == DatabaseTyped /\ ServerTyped /\ WatcherTyped /\ MediaTyped

Constants ==
  /\ MaxHandle \in Nat \ {0} /\ MediaFlag \in Nat /\ MediaFlag # 0
  /\ Nobody \notin Database!Paths
  /\ HostPaths \intersect LocalPaths = {}

LEMMA LowestIs ==
  ASSUME NEW S, S \subseteq Nat, S # {}
  PROVE  Database!Min(S) \in S
<1>1. \E x \in S : \A y \in S : x <= y
  BY Least
<1> QED
  BY <1>1 DEF Database!Min

(* The paths of what happened to one file.                                 *)
Told(type, p) ==
  /\ p \in files <=> type = "delete"
  /\ files' = IF type = "create" THEN files \union {p} ELSE files \ {p}
  /\ \/ media.pc = "mount" /\ events' = events
     \/ media.pc # "mount" /\ events' = Append(events, [type |-> type, path |-> p])

LEMMA FileChanges ==
  ASSUME NEW p
  PROVE  /\ Database!CreateFile(p) => (UNCHANGED <<files, events>> /\ p \in files) \/ Told("create", p)
         /\ Database!RemoveFile(p) => (UNCHANGED <<files, events>> /\ p \notin files) \/ Told("delete", p)
  BY DEF Database!CreateFile, Database!RemoveFile, Database!Notify, Told

LEMMA ToldIsTyped ==
  ASSUME DatabaseTyped, NEW p \in Database!Paths, NEW type \in {"create", "delete"}, Told(type, p)
  PROVE  files' \subseteq Database!Paths /\ events' \in Seq(Events)
<1>1. [type |-> type, path |-> p] \in Events
  BY DEF Events
<1> QED
  BY <1>1, AppendProperties DEF Told, DatabaseTyped

LEMMA DatabaseBegins ==
  ASSUME Database!Init, Constants
  PROVE  TypedInv
<1> USE DEF Database!Init, Constants, Nothing
<1>1. DatabaseTyped
  BY DEF DatabaseTyped, Database!Handles
<1>2. ServerTyped /\ WatcherTyped
  BY DEF ServerTyped, WatcherTyped, Database!Idle
<1>3. MediaTyped
  BY DEF MediaTyped, Database!Handles
<1> QED
  BY <1>1, <1>2, <1>3 DEF TypedInv

LEMMA TypedServer ==
  ASSUME TypedInv, Constants, Database!Server
  PROVE  TypedInv'
<1> USE DEF Database!dbVars
<1>h. 0 \notin Database!Handles /\ Database!Handles \subseteq 0 .. MaxHandle
  BY DEF Constants, Database!Handles
<1>m. MediaTyped' /\ WatcherTyped'
  <2>1. UNCHANGED <<watcher, media, mMediaFlag>>
    BY DEF Database!Server, Database!BeginSendObject, Database!InsertSent, Database!CountHandle,
           Database!Abandon, Database!SendObject, Database!NoDataComes, Database!SendSucceeds,
           Database!SendFails, Database!EndFailedSend, Database!DeleteObject, Database!DeletePath
  <2>2. media.pc # "mount"
    <3>1. SUFFICES ASSUME media.pc = "mount" PROVE FALSE
      OBVIOUS
    <3>2. server.pc = "idle" /\ \A h \in Database!Handles : mObjectDb[h] = Nobody
      BY <3>1 DEF TypedInv, MediaTyped, Nothing, Database!Idle
    <3> QED
      BY <3>1, <3>2 DEF Database!Server, Database!BeginSendObject, Database!InsertSent, Database!CountHandle,
           Database!Abandon, Database!SendObject, Database!NoDataComes, Database!SendSucceeds,
           Database!SendFails, Database!EndFailedSend, Database!DeleteObject, Database!DeletePath
  <2> QED
    BY <2>1, <2>2 DEF TypedInv, MediaTyped, WatcherTyped
<1>0. /\ server \in [pc : {"idle", "insert", "count", "await", "write", "end", "unlink"},
                     path : Database!Paths \union {Nobody}, handle : 0 .. MaxHandle]
      /\ server.pc # "idle" => server.path \in Database!Paths /\ server.handle \in Database!Handles
  <2>1. CASE server = Nothing
    <3>1. server = [pc |-> "idle", path |-> Nobody, handle |-> 0] /\ 0 \in 0 .. MaxHandle
      BY <2>1 DEF Nothing, Database!Idle, Constants
    <3> QED
      BY <3>1
  <2>2. CASE server \in [pc : {"insert", "count", "await", "write", "end", "unlink"},
                         path : Database!Paths, handle : Database!Handles]
    <3>1. server.handle \in 0 .. MaxHandle
      BY <1>h, <2>2
    <3> QED
      BY <2>2, <3>1
  <2> QED
    BY <2>1, <2>2 DEF TypedInv, ServerTyped
<1>1. CASE \E p \in HostPaths : Database!BeginSendObject(p)
  <2>1. PICK p \in HostPaths : Database!BeginSendObject(p)
    BY <1>1
  <2>2. DatabaseTyped'
    BY <2>1 DEF Database!BeginSendObject, TypedInv, DatabaseTyped
  <2>3. ServerTyped'
    <3>1. server' = [pc |-> "insert", path |-> p, handle |-> mHandleId] /\ files' = files /\ media' = media
          /\ p \in Database!Paths /\ mHandleId \in Database!Handles /\ p \notin files
          /\ media.pc \in {"flag", "idle"}
      BY <2>1 DEF Database!BeginSendObject, TypedInv, DatabaseTyped, Database!Paths
    <3> QED
      BY <3>1 DEF ServerTyped
  <2> QED
    BY <1>m, <2>2, <2>3 DEF TypedInv
<1>2. CASE Database!InsertSent
  <2>1. DatabaseTyped'
    BY <1>0, <1>2 DEF Database!InsertSent, Database!Insert, TypedInv, DatabaseTyped
  <2>2. ServerTyped'
    BY <1>0, <1>2 DEF Database!InsertSent, TypedInv, ServerTyped
  <2> QED
    BY <1>m, <2>1, <2>2 DEF TypedInv
<1>3. CASE Database!CountHandle
  <2>1. DatabaseTyped'
    BY <1>3 DEF Database!CountHandle, TypedInv, DatabaseTyped, Database!Handles, Constants
  <2>2. ServerTyped'
    BY <1>0, <1>3 DEF Database!CountHandle, TypedInv, ServerTyped
  <2> QED
    BY <1>m, <2>1, <2>2 DEF TypedInv
<1>4. CASE Database!Abandon \/ Database!NoDataComes
  <2>1. DatabaseTyped'
    BY <1>0, <1>4 DEF Database!Abandon, Database!NoDataComes, TypedInv, DatabaseTyped
  <2>2. ServerTyped'
    BY <1>0, <1>4 DEF Database!Abandon, Database!NoDataComes, TypedInv, ServerTyped, Nothing, Database!Idle
  <2> QED
    BY <1>m, <2>1, <2>2 DEF TypedInv
<1>5. CASE Database!SendObject
  <2>1. DatabaseTyped'
    <3>1. UNCHANGED <<files, events>> \/ Told("create", server.path)
      BY <1>5, FileChanges DEF Database!SendObject
    <3>2. files' \subseteq Database!Paths /\ events' \in Seq(Events)
      BY <1>0, <1>5, <3>1, ToldIsTyped DEF TypedInv, DatabaseTyped, Database!SendObject
    <3> QED
      BY <1>5, <3>2 DEF Database!SendObject, TypedInv, DatabaseTyped
  <2>2. ServerTyped'
    BY <1>0, <1>5 DEF Database!SendObject, TypedInv, ServerTyped
  <2> QED
    BY <1>m, <2>1, <2>2 DEF TypedInv
<1>6. CASE Database!SendSucceeds
  <2>1. DatabaseTyped'
    BY <1>6 DEF Database!SendSucceeds, TypedInv, DatabaseTyped
  <2>2. ServerTyped'
    BY <1>6 DEF Database!SendSucceeds, ServerTyped, Nothing, Database!Idle
  <2> QED
    BY <1>m, <2>1, <2>2 DEF TypedInv
<1>7. CASE Database!SendFails \/ Database!DeletePath
  <2>1. /\ server.path \in Database!Paths
        /\ (UNCHANGED <<files, events>> /\ server.path \notin files) \/ Told("delete", server.path)
    BY <1>0, <1>7, FileChanges DEF Database!SendFails, Database!DeletePath
  <2>2. files' \subseteq Database!Paths /\ events' \in Seq(Events) /\ server.path \notin files'
    BY <2>1, ToldIsTyped DEF TypedInv, DatabaseTyped, Told
  <2>3. DatabaseTyped'
    BY <1>7, <2>2 DEF Database!SendFails, Database!DeletePath, TypedInv, DatabaseTyped
  <2>4. ServerTyped'
    BY <1>0, <1>7, <2>2 DEF Database!SendFails, Database!DeletePath, TypedInv, ServerTyped, Nothing, Database!Idle
  <2> QED
    BY <1>m, <2>3, <2>4 DEF TypedInv
<1>8. CASE Database!EndFailedSend
  <2>1. DatabaseTyped'
    BY <1>0, <1>8 DEF Database!EndFailedSend, Database!Erase, TypedInv, DatabaseTyped
  <2>2. ServerTyped'
    BY <1>8 DEF Database!EndFailedSend, ServerTyped, Nothing, Database!Idle
  <2> QED
    BY <1>m, <2>1, <2>2 DEF TypedInv
<1>9. CASE \E h \in Database!Handles : Database!DeleteObject(h)
  <2>1. PICK h \in Database!Handles : Database!DeleteObject(h)
    BY <1>9
  <2>2. DatabaseTyped'
    BY <2>1 DEF Database!DeleteObject, Database!Erase, TypedInv, DatabaseTyped
  <2>3. ServerTyped'
    BY <2>1 DEF Database!DeleteObject, TypedInv, DatabaseTyped, ServerTyped
  <2> QED
    BY <1>m, <2>2, <2>3 DEF TypedInv
<1> QED
  BY <1>1, <1>2, <1>3, <1>4, <1>5, <1>6, <1>7, <1>8, <1>9 DEF Database!Server

LEMMA TypedWatcher ==
  ASSUME TypedInv, Constants, Database!Watcher
  PROVE  TypedInv'
<1> USE DEF Database!dbVars
<1>h. 0 \notin Database!Handles /\ Database!Handles \subseteq 0 .. MaxHandle
  BY DEF Constants, Database!Handles
<1>0. /\ watcher \in [pc : {"idle", "take", "insert", "erase"},
                     path : Database!Paths \union {Nobody}, handle : 0 .. MaxHandle]
      /\ watcher.pc # "idle" => watcher.path \in Database!Paths
      /\ watcher.pc \in {"insert", "erase"} => watcher.handle \in Database!Handles
  BY <1>h DEF TypedInv, WatcherTyped, Nothing, Database!Idle, Constants
<1>m. MediaTyped' /\ ServerTyped'
  <2>1. UNCHANGED <<server, media, mMediaFlag, files>>
    BY DEF Database!Watcher, Database!ReadEvent, Database!TakeHandle, Database!InsertFound, Database!EraseGone
  <2>2. media.pc # "mount"
    BY DEF TypedInv, MediaTyped, Nothing, Database!Idle,
       Database!Watcher, Database!ReadEvent, Database!TakeHandle, Database!InsertFound, Database!EraseGone
  <2> QED
    BY <2>1, <2>2 DEF TypedInv, MediaTyped, ServerTyped
<1>1. CASE Database!ReadEvent
  <2>1. Head(events) \in Events /\ Tail(events) \in Seq(Events)
    BY <1>1, HeadTailProperties DEF Database!ReadEvent, TypedInv, DatabaseTyped
  <2> DEFINE p == Head(events).path
  <2>2. p \in Database!Paths
    BY <2>1 DEF Events
  <2>3. Database!Known(p) # {} => Database!Min(Database!Known(p)) \in Database!Handles
    BY LowestIs DEF Database!Known, Database!Handles
  <2>4. WatcherTyped'
    <3>1. CASE watcher' = Nothing
      BY <3>1 DEF WatcherTyped
    <3>2. CASE watcher' = [pc |-> "take", path |-> p, handle |-> 0]
      BY <2>2, <3>2 DEF WatcherTyped, Constants
    <3>3. CASE Database!Known(p) # {} /\ watcher' = [pc |-> "erase", path |-> p, handle |-> Database!Min(Database!Known(p))]
      <4> DEFINE k == Database!Min(Database!Known(p))
      <4>1. k \in Database!Handles /\ k \in 0 .. MaxHandle
        BY <1>h, <2>3, <3>3
      <4> HIDE DEF k, p
      <4> QED
        BY <2>2, <3>3, <4>1 DEF WatcherTyped, k
    <3> QED
      BY <1>1, <3>1, <3>2, <3>3 DEF Database!ReadEvent, Database!Lookup, Nothing
  <2>5. DatabaseTyped'
    BY <1>1, <2>1 DEF Database!ReadEvent, TypedInv, DatabaseTyped
  <2> QED
    BY <1>m, <2>4, <2>5 DEF TypedInv
<1>2. CASE Database!TakeHandle
  <2>1. DatabaseTyped'
    BY <1>2 DEF Database!TakeHandle, Database!NewHandle, TypedInv, DatabaseTyped, Database!Handles, Constants
  <2>2. WatcherTyped'
    BY <1>0, <1>2, <1>h DEF Database!TakeHandle, TypedInv, DatabaseTyped, WatcherTyped
  <2> QED
    BY <1>m, <2>1, <2>2 DEF TypedInv
<1>3. CASE Database!InsertFound \/ Database!EraseGone
  <2>1. DatabaseTyped'
    BY <1>0, <1>3 DEF Database!InsertFound, Database!EraseGone, Database!Insert, Database!Erase, TypedInv, DatabaseTyped
  <2>2. WatcherTyped'
    BY <1>3 DEF Database!InsertFound, Database!EraseGone, WatcherTyped, Nothing
  <2> QED
    BY <1>m, <2>1, <2>2 DEF TypedInv
<1> QED
  BY <1>1, <1>2, <1>3 DEF Database!Watcher

LEMMA TypedMedia ==
  ASSUME TypedInv, Constants, Database!Media
  PROVE  TypedInv'
<1> USE DEF Database!dbVars
<1>h. Database!Handles \subseteq 0 .. MaxHandle
  BY DEF Constants, Database!Handles
<1>m. WatcherTyped' /\ ServerTyped'
  <2>1. UNCHANGED <<server, watcher, files, events>>
    BY DEF Database!Media, Database!Mount, Database!ReadDirectory, Database!ListNext,
           Database!InsertListed, Database!AddStorage, Database!SetMediaFlag
  <2>2. media.pc \in {"flag", "idle"} => media'.pc \in {"flag", "idle"}
    BY DEF Database!Media, Database!Mount, Database!ReadDirectory, Database!ListNext, TypedInv, MediaTyped,
           Database!InsertListed, Database!AddStorage, Database!SetMediaFlag
  <2> QED
    BY <2>1, <2>2 DEF TypedInv, WatcherTyped, ServerTyped
<1>0. /\ media \in [pc : {"mount", "readdir", "list", "insert", "flag", "idle"},
                path : Database!Paths \union {Nobody}, handle : 0 .. MaxHandle,
                todo : SUBSET Database!Paths]
      /\ media.pc = "insert" => media.path \in Database!Paths /\ media.handle \in Database!Handles
      /\ media.pc # "idle" => mMediaFlag = MediaFlag
  BY DEF TypedInv, MediaTyped
<1>1. CASE Database!Mount
  <2>1. DatabaseTyped'
    BY <1>1 DEF Database!Mount, TypedInv, DatabaseTyped, Database!Handles, Constants
  <2>2. MediaTyped'
    BY <1>0, <1>1 DEF Database!Mount, MediaTyped
  <2> QED
    BY <1>m, <2>1, <2>2 DEF TypedInv
<1>2. CASE Database!ReadDirectory
  <2>1. DatabaseTyped'
    BY <1>2 DEF Database!ReadDirectory, TypedInv, DatabaseTyped
  <2>2. MediaTyped'
    BY <1>0, <1>2 DEF Database!ReadDirectory, MediaTyped, TypedInv, DatabaseTyped
  <2> QED
    BY <1>m, <2>1, <2>2 DEF TypedInv
<1>3. CASE \E p \in Database!Paths : Database!ListNext(p)
  <2>1. DatabaseTyped'
    BY <1>3 DEF Database!ListNext, Database!NewHandle, TypedInv, DatabaseTyped, Database!Handles, Constants
  <2>2. MediaTyped'
    <3>1. PICK p \in Database!Paths : Database!ListNext(p)
      BY <1>3
    <3>2. /\ media.pc = "list" /\ mHandleId \in Database!Handles /\ mHandleId \in 0 .. MaxHandle
          /\ media' = [media EXCEPT !.pc = "insert", !.path = p, !.handle = mHandleId,
                                    !.todo = media.todo \ {p}]
          /\ mMediaFlag' = mMediaFlag
      BY <1>0, <1>h, <3>1 DEF Database!ListNext, TypedInv, DatabaseTyped
    <3>3. media.todo \ {p} \in SUBSET Database!Paths
      BY <1>0
    <3>4. /\ media' \in [pc : {"mount", "readdir", "list", "insert", "flag", "idle"},
                          path : Database!Paths \union {Nobody}, handle : 0 .. MaxHandle,
                          todo : SUBSET Database!Paths]
          /\ media'.pc = "insert" /\ media'.path = p /\ media'.handle = mHandleId
      <4> DEFINE rest == media.todo \ {p}
      <4>1. media' = [media EXCEPT !.pc = "insert", !.path = p, !.handle = mHandleId, !.todo = rest]
        BY <3>2
      <4>2. rest \in SUBSET Database!Paths
        BY <3>3
      <4> HIDE DEF rest
      <4> QED
        BY <1>0, <3>1, <3>2, <4>1, <4>2
    <3> QED
      BY <1>0, <3>1, <3>2, <3>4 DEF MediaTyped
  <2> QED
    BY <1>m, <2>1, <2>2 DEF TypedInv
<1>4. CASE Database!InsertListed
  <2>1. DatabaseTyped'
    BY <1>0, <1>4 DEF Database!InsertListed, Database!Insert, TypedInv, DatabaseTyped
  <2>2. MediaTyped'
    BY <1>0, <1>4 DEF Database!InsertListed, MediaTyped
  <2> QED
    BY <1>m, <2>1, <2>2 DEF TypedInv
<1>5. CASE Database!AddStorage
  <2>1. DatabaseTyped'
    BY <1>5 DEF Database!AddStorage, TypedInv, DatabaseTyped
  <2>2. MediaTyped'
    <3>1. /\ media.pc = "list" /\ 0 \in 0 .. MaxHandle /\ Nobody \in Database!Paths \union {Nobody}
          /\ media' = [media EXCEPT !.pc = "flag", !.path = Nobody, !.handle = 0]
          /\ mMediaFlag' = mMediaFlag
      BY <1>5 DEF Database!AddStorage, Constants
    <3>2. /\ media' \in [pc : {"mount", "readdir", "list", "insert", "flag", "idle"},
                          path : Database!Paths \union {Nobody}, handle : 0 .. MaxHandle,
                          todo : SUBSET Database!Paths]
          /\ media'.pc = "flag"
      BY <1>0, <3>1
    <3> QED
      BY <1>0, <3>1, <3>2 DEF MediaTyped
  <2> QED
    BY <1>m, <2>1, <2>2 DEF TypedInv
<1>6. CASE Database!SetMediaFlag
  <2>1. DatabaseTyped'
    BY <1>6 DEF Database!SetMediaFlag, TypedInv, DatabaseTyped
  <2>2. MediaTyped'
    BY <1>0, <1>6 DEF Database!SetMediaFlag, MediaTyped
  <2> QED
    BY <1>m, <2>1, <2>2 DEF TypedInv
<1> QED
  BY <1>1, <1>2, <1>3, <1>4, <1>5, <1>6 DEF Database!Media

LEMMA TypedOthers ==
  ASSUME TypedInv, Constants, NEW p \in Database!Paths,
         (p \in LocalPaths /\ Database!OthersCreate(p)) \/ Database!OthersRemove(p)
  PROVE  TypedInv'
<1> USE DEF Database!dbVars
<1>1. /\ UNCHANGED <<mObjectDb, mHandleId, server, watcher, media, mMediaFlag>>
      /\ loose' \subseteq Database!Paths
  BY DEF Database!OthersCreate, Database!OthersRemove, Database!Loosened, TypedInv, DatabaseTyped
<1>2. (p \in LocalPaths /\ Told("create", p)) \/ Told("delete", p)
  BY FileChanges DEF Database!OthersCreate, Database!OthersRemove
<1>3. files' \subseteq Database!Paths /\ events' \in Seq(Events)
  BY <1>2, ToldIsTyped DEF TypedInv
<1>4. DatabaseTyped'
  BY <1>1, <1>3 DEF TypedInv, DatabaseTyped
<1>5. ServerTyped'
  <2>1. \A q \in HostPaths \ files : q \notin files'
    BY <1>2 DEF Told, Constants
  <2> QED
    BY <1>1, <2>1 DEF TypedInv, ServerTyped
<1>6. WatcherTyped' /\ MediaTyped'
  BY <1>1, <1>2 DEF TypedInv, WatcherTyped, MediaTyped, Told
<1> QED
  BY <1>4, <1>5, <1>6 DEF TypedInv

(* The last of the events of a file that wait says whether it is there, or,*)
(* when none does, what the watch thread is doing about it.                *)
Latest(q, i) == \A j \in i + 1 .. Len(q) : q[j].path # q[i].path
Silent(q, p) == \A i \in 1 .. Len(q) : q[i].path # p
Says(e, f) == (e.type = "create") <=> e.path \in f
Tells(q, f) == \A i \in 1 .. Len(q) : Latest(q, i) => Says(q[i], f)

EventsInv ==
  /\ Tells(events, files)
  /\ watcher.pc # "idle" /\ Silent(events, watcher.path) =>
       (watcher.pc # "erase" <=> watcher.path \in files)

LEMMA TellsAppended ==
  ASSUME NEW q \in Seq(Events), NEW x \in Events, NEW f, NEW g, Tells(q, f), Says(x, g),
         \A p : p # x.path => (p \in f <=> p \in g)
  PROVE  /\ Tells(Append(q, x), g)
         /\ ~Silent(Append(q, x), x.path)
         /\ \A p : p # x.path => (Silent(Append(q, x), p) <=> Silent(q, p))
<1> DEFINE r == Append(q, x)
           n == Len(q) + 1
<1>1. /\ Len(q) \in Nat /\ Len(r) = n /\ r[n] = x
      /\ \A i \in 1 .. Len(q) : r[i] = q[i]
  BY AppendProperties
<1> HIDE DEF r
<1>2. Tells(r, g)
  <2> SUFFICES ASSUME NEW i \in 1 .. Len(r), Latest(r, i) PROVE Says(r[i], g)
    BY DEF Tells
  <2>1. CASE i = n
    BY <1>1, <2>1
  <2>2. CASE i # n
    <3>1. i \in 1 .. Len(q) /\ r[i] = q[i] /\ n \in i + 1 .. Len(r)
      BY <1>1, <2>2
    <3>2. q[i].path # x.path
      BY <1>1, <3>1 DEF Latest
    <3>3. Latest(q, i)
      BY <1>1, <3>1 DEF Latest
    <3> QED
      BY <3>1, <3>2, <3>3 DEF Tells, Says
  <2> QED
    BY <2>1, <2>2
<1>3. ~Silent(r, x.path)
  BY <1>1 DEF Silent
<1>4. ASSUME NEW p, p # x.path PROVE Silent(r, p) <=> Silent(q, p)
  <2>1. \A i \in 1 .. Len(r) : i \in 1 .. Len(q) \/ i = n
    BY <1>1
  <2>2. \A i \in 1 .. Len(q) : i \in 1 .. Len(r)
    BY <1>1
  <2> QED
    BY <1>1, <1>4, <2>1, <2>2 DEF Silent
<1> QED
  BY <1>2, <1>3, <1>4 DEF r

LEMMA TellsTail ==
  ASSUME NEW q \in Seq(Events), q # << >>, NEW f, Tells(q, f)
  PROVE  /\ Tells(Tail(q), f)
         /\ Silent(Tail(q), Head(q).path) => Says(Head(q), f)
         /\ \A p : p # Head(q).path => (Silent(Tail(q), p) <=> Silent(q, p))
<1> DEFINE r == Tail(q)
<1>1. /\ Len(q) \in Nat \ {0} /\ Len(r) = Len(q) - 1 /\ Head(q) = q[1]
      /\ \A i \in 1 .. Len(r) : r[i] = q[i + 1]
  BY HeadTailProperties, EmptySeq
<1> HIDE DEF r
<1>2. Tells(r, f)
  <2> SUFFICES ASSUME NEW i \in 1 .. Len(r), Latest(r, i) PROVE Says(r[i], f)
    BY DEF Tells
  <2>1. i + 1 \in 1 .. Len(q) /\ r[i] = q[i + 1]
    BY <1>1
  <2>2. Latest(q, i + 1)
    <3> SUFFICES ASSUME NEW j \in i + 1 + 1 .. Len(q) PROVE q[j].path # q[i + 1].path
      BY DEF Latest
    <3>1. j - 1 \in i + 1 .. Len(r) /\ j - 1 \in 1 .. Len(r) /\ (j - 1) + 1 = j
      BY <1>1
    <3>2. r[j - 1] = q[j]
      BY <1>1, <3>1
    <3> QED
      BY <2>1, <3>1, <3>2 DEF Latest
  <2> QED
    BY <2>1, <2>2 DEF Tells
<1>3. ASSUME Silent(r, q[1].path) PROVE Says(q[1], f)
  <2>1. Latest(q, 1)
    <3> SUFFICES ASSUME NEW j \in 1 + 1 .. Len(q) PROVE q[j].path # q[1].path
      BY DEF Latest
    <3>1. j - 1 \in 1 .. Len(r) /\ (j - 1) + 1 = j
      BY <1>1
    <3>2. r[j - 1] = q[j]
      BY <1>1, <3>1
    <3> QED
      BY <1>3, <3>1, <3>2 DEF Silent
  <2> QED
    BY <1>1, <2>1 DEF Tells
<1>4. ASSUME NEW p, p # q[1].path PROVE Silent(r, p) <=> Silent(q, p)
  <2>1. ASSUME Silent(q, p), NEW i \in 1 .. Len(r) PROVE r[i].path # p
    <3>1. i + 1 \in 1 .. Len(q) /\ r[i] = q[i + 1]
      BY <1>1
    <3> QED
      BY <2>1, <3>1 DEF Silent
  <2>2. ASSUME Silent(r, p), NEW i \in 1 .. Len(q) PROVE q[i].path # p
    <3>1. CASE i = 1
      BY <1>4, <3>1
    <3>2. CASE i # 1
      <4>1. i - 1 \in 1 .. Len(r) /\ (i - 1) + 1 = i
        BY <1>1, <3>2
      <4>2. r[i - 1] = q[i]
        BY <1>1, <4>1
      <4> QED
        BY <2>2, <4>1, <4>2 DEF Silent
    <3> QED
      BY <3>1, <3>2
  <2> QED
    BY <2>1, <2>2 DEF Silent
<1> QED
  BY <1>1, <1>2, <1>3, <1>4 DEF r

(* After a file has come or gone.                                          *)
LEMMA ToldIsSaid ==
  ASSUME TypedInv, EventsInv, NEW p \in Database!Paths, NEW type \in {"create", "delete"},
         Told(type, p), watcher' = watcher
  PROVE  /\ EventsInv'
         /\ media.pc # "mount" => ~Silent(events', p)
         /\ \A r : r # p => (Silent(events', r) <=> Silent(events, r))
         /\ \A r : r # p => (r \in files' <=> r \in files)
         /\ p \in files' <=> type = "create"
<1>f. /\ \A r : r # p => (r \in files' <=> r \in files)
      /\ p \in files' <=> type = "create"
  BY DEF Told
<1>1. CASE media.pc = "mount"
  <2>1. events = << >> /\ events' = << >> /\ watcher.pc = "idle"
    BY <1>1 DEF Told, TypedInv, MediaTyped, Nothing, Database!Idle
  <2>2. EventsInv'
    BY <2>1 DEF EventsInv, Tells
  <2> QED
    BY <1>f, <1>1, <2>1, <2>2
<1>2. CASE media.pc # "mount"
  <2> DEFINE x == [type |-> type, path |-> p]
  <2>1. x \in Events /\ x.path = p /\ Says(x, files') /\ events' = Append(events, x)
    BY <1>f, <1>2 DEF Events, Says, Told
  <2>2. events \in Seq(Events) /\ Tells(events, files)
    BY DEF TypedInv, DatabaseTyped, EventsInv
  <2> HIDE DEF x
  <2>3. /\ Tells(events', files') /\ ~Silent(events', p)
        /\ \A r : r # p => (Silent(events', r) <=> Silent(events, r))
    BY <1>f, <2>1, <2>2, TellsAppended
  <2>4. EventsInv'
    BY <1>f, <2>3 DEF EventsInv
  <2> QED
    BY <1>f, <2>3, <2>4
<1> QED
  BY <1>1, <1>2

(* Each step leaves the events and the files as they are, is of one file   *)
(* that comes or goes, or takes an event.                                  *)
Still == UNCHANGED <<files, events>> /\ (watcher' = watcher \/ watcher' = Nothing \/
            (watcher.pc = "take" /\ watcher'.pc = "insert" /\ watcher'.path = watcher.path))

LEMMA EventsKept ==
  ASSUME TypedInv, Constants, EventsInv, Database!Next
  PROVE  EventsInv'
<1>1. CASE Still
  <2>1. watcher.pc \in {"idle", "take", "insert", "erase"}
    BY DEF TypedInv, WatcherTyped, Nothing, Database!Idle
  <2>2. watcher' = Nothing => watcher'.pc = "idle"
    BY DEF Nothing, Database!Idle
  <2> QED
    BY <1>1, <2>1, <2>2 DEF Still, EventsInv
<1>2. CASE watcher' = watcher /\ \E p \in Database!Paths : Told("create", p) \/ Told("delete", p)
  BY <1>2, ToldIsSaid
<1>3. CASE Database!ReadEvent
  <2> DEFINE h == Head(events)
  <2>1. /\ events \in Seq(Events) /\ events # << >> /\ events' = Tail(events) /\ files' = files
        /\ watcher' = Database!Lookup(h.type, h.path)
    BY <1>3 DEF Database!ReadEvent, TypedInv, DatabaseTyped
  <2>2. h.type \in {"create", "delete"}
    <3>1. h \in Events
      BY <2>1, HeadTailProperties
    <3> HIDE DEF h
    <3> QED
      BY <3>1 DEF Events
  <2>3. Tells(events', files') /\ (Silent(events', h.path) => Says(h, files'))
    BY <2>1, TellsTail DEF EventsInv
  <2>4. \/ watcher'.pc = "idle"
        \/ watcher'.path = h.path /\ watcher'.pc = "take" /\ h.type = "create"
        \/ watcher'.path = h.path /\ watcher'.pc = "erase" /\ h.type = "delete"
    BY <2>1, <2>2 DEF Database!Lookup, Database!Idle
  <2> HIDE DEF h
  <2> QED
    BY <2>2, <2>3, <2>4 DEF EventsInv, Says
<1>4. CASE Database!Server
  <2>1. watcher' = watcher
    BY <1>4 DEF Database!Server, Database!BeginSendObject, Database!InsertSent, Database!CountHandle,
           Database!Abandon, Database!SendObject, Database!NoDataComes, Database!SendSucceeds,
           Database!SendFails, Database!EndFailedSend, Database!DeleteObject, Database!DeletePath
  <2>2. CASE Database!SendObject \/ Database!SendFails \/ Database!DeletePath
    <3>1. server.path \in Database!Paths
      BY <2>2 DEF Database!SendObject, Database!SendFails, Database!DeletePath, TypedInv, ServerTyped,
                  Nothing, Database!Idle
    <3>2. UNCHANGED <<files, events>> \/ Told("create", server.path) \/ Told("delete", server.path)
      BY <2>2, FileChanges DEF Database!SendObject, Database!SendFails, Database!DeletePath
    <3> QED
      BY <1>1, <1>2, <2>1, <3>1, <3>2 DEF Still
  <2>3. CASE ~(Database!SendObject \/ Database!SendFails \/ Database!DeletePath)
    <3>1. UNCHANGED <<files, events>>
      BY <1>4, <2>3 DEF Database!Server, Database!BeginSendObject, Database!InsertSent, Database!CountHandle,
           Database!Abandon, Database!NoDataComes, Database!SendSucceeds, Database!EndFailedSend,
           Database!DeleteObject
    <3> QED
      BY <1>1, <2>1, <3>1 DEF Still
  <2> QED
    BY <2>2, <2>3
<1>5. CASE Database!TakeHandle \/ Database!InsertFound \/ Database!EraseGone
  <2>1. watcher.pc = "take" => watcher \in [pc : {"take", "insert", "erase"}, path : Database!Paths,
                     handle : 0 .. MaxHandle]
    BY DEF TypedInv, WatcherTyped, Nothing, Database!Idle
  <2> QED
    BY <1>1, <1>5, <2>1 DEF Still, Database!TakeHandle, Database!InsertFound, Database!EraseGone, Nothing
<1>6. CASE Database!Media
  BY <1>1, <1>6 DEF Still, Database!Media, Database!Mount, Database!ReadDirectory, Database!ListNext,
           Database!InsertListed, Database!AddStorage, Database!SetMediaFlag
<1>7. ASSUME NEW p \in Database!Paths,
             (p \in LocalPaths /\ Database!OthersCreate(p)) \/ Database!OthersRemove(p)
      PROVE  EventsInv'
  <2>1. watcher' = watcher /\ (Told("create", p) \/ Told("delete", p))
    BY <1>7, FileChanges DEF Database!OthersCreate, Database!OthersRemove
  <2> QED
    BY <1>2, <2>1
<1> QED
  BY <1>3, <1>4, <1>5, <1>6, <1>7 DEF Database!Next, Database!Watcher, Database!Paths

(* Until a handle is given twice it is one object's: what is to be inserted*)
(* finds its place empty, and what is to be erased is where it was.        *)
Given(h) == h < mHandleId \/ (server.pc = "count" /\ h = mHandleId)
Sent == {"await", "write", "end"}

GivenInv == \A h \in Database!Handles : mObjectDb[h] # Nobody => Given(h)
ServersInv ==
  /\ server.pc \in {"insert", "count"} => server.handle = mHandleId
  /\ server.pc \in Sent => server.handle < mHandleId
  /\ server.pc \in {"count"} \union Sent => mObjectDb[server.handle] \in {server.path, Nobody}
WatchersInv ==
  /\ watcher.pc = "insert" =>
       /\ watcher.handle < mHandleId /\ mObjectDb[watcher.handle] = Nobody
       /\ server.pc \in Sent => watcher.handle # server.handle
       /\ media.pc = "insert" => watcher.handle # media.handle
  /\ watcher.pc = "erase" =>
       /\ Given(watcher.handle) /\ mObjectDb[watcher.handle] \in {watcher.path, Nobody}
       /\ media.pc = "insert" => watcher.handle # media.handle
MediasInv ==
  media.pc = "insert" => media.handle < mHandleId /\ mObjectDb[media.handle] = Nobody
HandlesInv == ~clash => GivenInv /\ ServersInv /\ WatchersInv /\ MediasInv

LEMMA ClashStays ==
  ASSUME Database!Next, ~clash'
  PROVE  ~clash
  BY DEF Database!dbVars, Database!Next, Database!Server, Database!BeginSendObject, Database!InsertSent,
         Database!CountHandle, Database!Abandon, Database!SendObject, Database!NoDataComes,
         Database!SendSucceeds, Database!SendFails, Database!EndFailedSend, Database!DeleteObject,
         Database!DeletePath, Database!Watcher, Database!ReadEvent, Database!TakeHandle,
         Database!InsertFound, Database!EraseGone, Database!Media, Database!Mount,
         Database!ReadDirectory, Database!ListNext, Database!NewHandle, Database!InsertListed,
         Database!AddStorage, Database!SetMediaFlag, Database!OthersCreate, Database!OthersRemove

LEMMA HandlesKept ==
  ASSUME TypedInv, Constants, HandlesInv, Database!Next
  PROVE  HandlesInv'
<1> SUFFICES ASSUME ~clash' PROVE (GivenInv /\ ServersInv /\ WatchersInv /\ MediasInv)'
  BY DEF HandlesInv
<1> USE DEF Database!dbVars
<1>c. ~clash /\ (Database!NewHandle => server.pc \notin {"insert", "count"})
  <2>1. ~clash
    BY ClashStays
  <2> QED
    BY <2>1 DEF HandlesInv, ServersInv, Database!NewHandle
<1>i. GivenInv /\ ServersInv /\ WatchersInv /\ MediasInv
  BY <1>c DEF HandlesInv
<1>t. /\ mObjectDb \in [Database!Handles -> Database!Paths \union {Nobody}]
      /\ mHandleId \in Nat /\ mHandleId \in Database!Handles /\ Nobody \notin Database!Paths
      /\ Database!Handles \subseteq Nat
      /\ server.pc # "idle" => server.path \in Database!Paths /\ server.handle \in Database!Handles
      /\ watcher.pc \in {"insert", "erase"} => watcher.handle \in Database!Handles
      /\ watcher.pc # "idle" => watcher.path \in Database!Paths
      /\ media.pc = "insert" => media.handle \in Database!Handles
  BY DEF TypedInv, DatabaseTyped, ServerTyped, WatcherTyped, MediaTyped, Nothing, Database!Idle,
         Constants, Database!Handles
<1>e. /\ server.pc \in {"idle", "insert", "count", "await", "write", "end", "unlink"}
      /\ server.pc # "idle" =>
           server \in [pc : {"insert", "count", "await", "write", "end", "unlink"},
                       path : Database!Paths, handle : Database!Handles]
      /\ watcher.pc # "idle" => watcher \in [pc : {"take", "insert", "erase"}, path : Database!Paths,
                     handle : 0 .. MaxHandle]
      /\ media \in [pc : {"mount", "readdir", "list", "insert", "flag", "idle"},
                path : Database!Paths \union {Nobody}, handle : 0 .. MaxHandle,
                todo : SUBSET Database!Paths]
  BY DEF TypedInv, ServerTyped, WatcherTyped, MediaTyped, Nothing, Database!Idle
<1> DEFINE Goal == (GivenInv /\ ServersInv /\ WatchersInv /\ MediasInv)'
<1>0. CASE UNCHANGED <<mObjectDb, mHandleId, server, watcher>> /\ (media' = media \/ media'.pc # "insert")
  BY <1>0, <1>i DEF GivenInv, ServersInv, WatchersInv, MediasInv, Given
<1>1. CASE \E p \in HostPaths : Database!BeginSendObject(p)
  <2>1. PICK p \in HostPaths : Database!BeginSendObject(p)
    BY <1>1
  <2>2. /\ server.pc = "idle" /\ server'.pc = "insert" /\ server'.handle = mHandleId
        /\ UNCHANGED <<mObjectDb, mHandleId, watcher, media>>
    BY <2>1 DEF Database!BeginSendObject
  <2> QED
    BY <2>2, <1>i, <1>t DEF GivenInv, ServersInv, WatchersInv, MediasInv, Given, Sent
<1>2. CASE Database!InsertSent
  <2>1. /\ server.pc = "insert" /\ server'.pc = "count" /\ server'.handle = server.handle
        /\ server'.path = server.path /\ server.handle = mHandleId
        /\ mObjectDb[mHandleId] = Nobody
        /\ mObjectDb' = [mObjectDb EXCEPT ![mHandleId] = server.path]
        /\ UNCHANGED <<mHandleId, watcher, media>>
    <3>1. /\ server.pc = "insert" /\ server' = [server EXCEPT !.pc = "count"]
          /\ UNCHANGED <<mHandleId, watcher, media>>
          /\ mObjectDb' = [mObjectDb EXCEPT ![server.handle] =
                             IF mObjectDb[server.handle] = Nobody THEN server.path ELSE mObjectDb[server.handle]]
      BY <1>2 DEF Database!InsertSent, Database!Insert
    <3>2. server.handle = mHandleId
      BY <1>i, <3>1 DEF ServersInv
    <3>3. ~Given(mHandleId)
      BY <1>t, <3>1 DEF Given
    <3>4. mObjectDb[mHandleId] = Nobody
      BY <1>i, <1>t, <3>3 DEF GivenInv
    <3>5. server'.pc = "count" /\ server'.handle = server.handle /\ server'.path = server.path
      BY <1>e, <3>1
    <3> QED
      BY <3>1, <3>2, <3>4, <3>5
  <2>2. GivenInv'
    BY <2>1, <1>i, <1>t DEF GivenInv, Given
  <2>3. ServersInv'
    BY <2>1, <1>t DEF ServersInv, Sent
  <2>4. WatchersInv' /\ MediasInv'
    BY <2>1, <1>i, <1>t DEF WatchersInv, MediasInv, Given, Sent
  <2> QED
    BY <2>2, <2>3, <2>4
<1>3. CASE Database!CountHandle
  <2>1. /\ server.pc = "count" /\ server'.pc = "await" /\ server'.handle = server.handle
        /\ server'.path = server.path /\ server.handle = mHandleId /\ mHandleId' = mHandleId + 1
        /\ UNCHANGED <<mObjectDb, watcher, media>>
    BY <1>3, <1>i, <1>e DEF Database!CountHandle, ServersInv
  <2>0. mHandleId < mHandleId' /\ \A n \in Database!Handles : n < mHandleId => n < mHandleId'
    <3>1. mHandleId' = mHandleId + 1
      BY <2>1
    <3>2. mHandleId \in Nat /\ \A n \in Database!Handles : n \in Nat
      BY <1>t
    <3> HIDE <1>t, <2>1
    <3> QED
      BY <3>1, <3>2
  <2>2. \A h \in Database!Handles : Given(h) => Given(h)'
    BY <2>0, <2>1, <1>i DEF Given, ServersInv
  <2>3. GivenInv' /\ MediasInv'
    <3>1. \A h \in Database!Handles : mObjectDb'[h] # Nobody => mObjectDb[h] # Nobody
      BY <2>1
    <3>2. GivenInv'
      BY <2>2, <3>1, <1>i DEF GivenInv
    <3>3. MediasInv'
      BY <2>0, <2>1, <1>i, <1>t DEF MediasInv
    <3> QED
      BY <3>2, <3>3
  <2>4. ServersInv'
    BY <2>1, <1>i, <1>t DEF ServersInv, Sent
  <2>a. watcher.pc = "insert" => watcher.handle # mHandleId
    BY <1>i, <1>t DEF WatchersInv
  <2>5. WatchersInv'
    BY <2>0, <2>1, <2>2, <2>a, <1>i, <1>t DEF WatchersInv, Sent
  <2> QED
    BY <2>3, <2>4, <2>5
<1>4. CASE \/ Database!Abandon \/ Database!NoDataComes \/ Database!SendObject \/ Database!SendSucceeds
           \/ Database!SendFails \/ Database!DeletePath
  <2>1. /\ server'.pc \in Sent => server.pc \in Sent
        /\ server'.pc # "idle" => server'.handle = server.handle /\ server'.path = server.path
        /\ server.pc \notin {"insert", "count"} /\ server'.pc \notin {"insert", "count"}
        /\ UNCHANGED <<mObjectDb, mHandleId, watcher, media>>
    BY <1>4, <1>e DEF Database!Abandon, Database!NoDataComes, Database!SendObject, Database!SendSucceeds,
           Database!SendFails, Database!DeletePath, Database!Idle, Sent
  <2> QED
    BY <2>1, <1>i DEF GivenInv, ServersInv, WatchersInv, MediasInv, Given, Sent
<1>5. CASE Database!EndFailedSend \/ \E h \in Database!Handles : Database!DeleteObject(h)
  <2>1. PICK k \in Database!Handles :
          /\ mObjectDb' = [mObjectDb EXCEPT ![k] = Nobody]
          /\ server.pc \in {"end", "idle"} /\ server'.pc \in {"idle", "unlink"}
          /\ UNCHANGED <<mHandleId, watcher, media>>
    <3>1. CASE Database!EndFailedSend
      BY <1>t, <3>1 DEF Database!EndFailedSend, Database!Erase, Database!Idle
    <3>2. CASE \E h \in Database!Handles : Database!DeleteObject(h)
      <4>1. PICK h \in Database!Handles : Database!DeleteObject(h)
        BY <3>2
      <4>2. /\ mObjectDb' = [mObjectDb EXCEPT ![h] = Nobody]
            /\ server.pc = "idle" /\ server'.pc = "unlink"
            /\ UNCHANGED <<mHandleId, watcher, media>>
        BY <4>1 DEF Database!DeleteObject, Database!Erase
      <4> QED
        BY <4>2
    <3> QED
      BY <1>5, <3>1, <3>2
  <2>2. \A h \in Database!Handles : mObjectDb'[h] = mObjectDb[h] \/ mObjectDb'[h] = Nobody
    BY <2>1, <1>t
  <2> QED
    BY <2>1, <2>2, <1>i, <1>t DEF GivenInv, ServersInv, WatchersInv, MediasInv, Given, Sent
<1>6. CASE Database!ReadEvent
  <2>1. /\ UNCHANGED <<mObjectDb, mHandleId, server, media>> /\ watcher' = Database!Lookup(Head(events).type, Head(events).path)
    BY <1>6 DEF Database!ReadEvent
  <2> DEFINE p == Head(events).path
  <2>2. Head(events) \in Events
    BY <1>6, HeadTailProperties DEF Database!ReadEvent, TypedInv, DatabaseTyped
  <2>3. p \in Database!Paths
    <3> DEFINE e == Head(events)
    <3>1. e \in Events
      BY <2>2
    <3> HIDE DEF e
    <3>2. e.path \in Database!Paths
      BY <3>1 DEF Events
    <3> QED
      BY <3>2 DEF e
  <2>4. Database!Known(p) # {} => Database!Min(Database!Known(p)) \in Database!Known(p)
    BY <1>t, LowestIs DEF Database!Known
  <2> HIDE DEF p
  <2>5. \/ watcher'.pc \in {"idle", "take"}
        \/ /\ watcher'.pc = "erase" /\ watcher'.path = p
           /\ watcher'.handle \in Database!Known(p)
    BY <2>1, <2>4 DEF Database!Lookup, p, Database!Idle
  <2>6. WatchersInv'
    <3>1. ASSUME watcher'.pc = "erase"
          PROVE  /\ watcher'.handle \in Database!Handles /\ mObjectDb[watcher'.handle] = watcher'.path
                 /\ watcher'.path \in Database!Paths
      BY <2>3, <2>5, <3>1 DEF Database!Known
    <3> QED
      BY <2>1, <2>5, <3>1, <1>i, <1>t DEF WatchersInv, GivenInv, Given, MediasInv
  <2> QED
    BY <2>1, <2>6, <1>i DEF GivenInv, ServersInv, MediasInv, Given
<1>7. CASE Database!TakeHandle
  <2>1. /\ watcher.pc = "take" /\ server.pc \notin {"insert", "count"} /\ mHandleId' = mHandleId + 1
        /\ UNCHANGED <<mObjectDb, server, media>>
        /\ watcher'.pc = "insert" /\ watcher'.handle = mHandleId
    BY <1>7, <1>c, <1>e DEF Database!TakeHandle, Database!NewHandle
  <2>0. mHandleId < mHandleId' /\ \A n \in Database!Handles : n < mHandleId => n < mHandleId'
    <3>1. mHandleId' = mHandleId + 1
      BY <2>1
    <3>2. mHandleId \in Nat /\ \A n \in Database!Handles : n \in Nat
      BY <1>t
    <3> HIDE <1>t, <2>1
    <3> QED
      BY <3>1, <3>2
  <2>2. \A h \in Database!Handles : Given(h) => Given(h)'
    BY <2>0, <2>1, <1>i DEF Given, ServersInv
  <2>3. GivenInv' /\ MediasInv'
    <3>1. \A h \in Database!Handles : mObjectDb'[h] # Nobody => mObjectDb[h] # Nobody
      BY <2>1
    <3>2. GivenInv'
      BY <2>2, <3>1, <1>i DEF GivenInv
    <3>3. MediasInv'
      BY <2>0, <2>1, <1>i, <1>t DEF MediasInv
    <3> QED
      BY <3>2, <3>3
  <2>4. ServersInv'
    <3>1. server.pc \in Sent => server.handle \in Database!Handles
      BY <1>t DEF Sent
    <3>2. server.pc \in Sent => server.handle < mHandleId'
      BY <2>0, <3>1, <1>i DEF ServersInv
    <3> QED
      BY <2>1, <3>2, <1>i DEF ServersInv, Sent
  <2>a. mObjectDb[mHandleId] = Nobody
    BY <2>1, <1>i, <1>t DEF GivenInv, Given
  <2>b. /\ server.pc \in Sent => server.handle # mHandleId
        /\ media.pc = "insert" => media.handle # mHandleId
    BY <1>i, <1>t DEF ServersInv, MediasInv, Sent
  <2>5. WatchersInv'
    BY <2>0, <2>1, <2>a, <2>b DEF WatchersInv
  <2> QED
    BY <2>3, <2>4, <2>5
<1>8. CASE Database!InsertFound
  <2>1. /\ watcher.pc = "insert" /\ watcher'.pc = "idle"
        /\ mObjectDb' = [mObjectDb EXCEPT ![watcher.handle] = watcher.path]
        /\ UNCHANGED <<mHandleId, server, media>>
        /\ watcher.handle < mHandleId
    BY <1>8, <1>i, <1>t DEF Database!InsertFound, Database!Insert, Database!Idle, WatchersInv
  <2> QED
    BY <2>1, <1>i, <1>t DEF GivenInv, ServersInv, WatchersInv, MediasInv, Given, Sent
<1>9. CASE Database!EraseGone
  <2>1. /\ watcher.pc = "erase" /\ watcher'.pc = "idle"
        /\ mObjectDb' = [mObjectDb EXCEPT ![watcher.handle] = Nobody]
        /\ UNCHANGED <<mHandleId, server, media>>
    BY <1>9 DEF Database!EraseGone, Database!Erase, Database!Idle
  <2>2. \A h \in Database!Handles : mObjectDb'[h] = mObjectDb[h] \/ mObjectDb'[h] = Nobody
    BY <2>1, <1>t
  <2> QED
    BY <2>1, <2>2, <1>i, <1>t DEF GivenInv, ServersInv, WatchersInv, MediasInv, Given, Sent
<1>10. CASE Database!Mount
  <2>1. /\ server.pc = "idle" /\ watcher.pc = "idle" /\ media'.pc = "readdir" /\ mHandleId' = mHandleId + 1
        /\ UNCHANGED <<mObjectDb, server, watcher>>
    BY <1>10, <1>e DEF Database!Mount, TypedInv, MediaTyped, Nothing, Database!Idle
  <2>2. \A h \in Database!Handles : mObjectDb[h] = Nobody
    BY <1>10 DEF Database!Mount, TypedInv, MediaTyped
  <2>3. GivenInv'
    BY <2>1, <2>2 DEF GivenInv
  <2> QED
    BY <2>1, <2>3 DEF ServersInv, WatchersInv, MediasInv, Sent
<1>11. CASE \E p \in Database!Paths : Database!ListNext(p)
  <2>1. /\ server.pc \notin {"insert", "count"} /\ mHandleId' = mHandleId + 1 /\ media.pc = "list"
        /\ UNCHANGED <<mObjectDb, server, watcher>>
        /\ media'.handle = mHandleId
    BY <1>11, <1>c, <1>e DEF Database!ListNext, Database!NewHandle
  <2>0. mHandleId < mHandleId' /\ \A n \in Database!Handles : n < mHandleId => n < mHandleId'
    <3>1. mHandleId' = mHandleId + 1
      BY <2>1
    <3>2. mHandleId \in Nat /\ \A n \in Database!Handles : n \in Nat
      BY <1>t
    <3> HIDE <1>t, <2>1
    <3> QED
      BY <3>1, <3>2
  <2>2. \A h \in Database!Handles : Given(h) => Given(h)'
    BY <2>0, <2>1, <1>i DEF Given, ServersInv
  <2>3. GivenInv' /\ MediasInv'
    <3>1. \A h \in Database!Handles : mObjectDb'[h] # Nobody => mObjectDb[h] # Nobody
      BY <2>1
    <3>2. GivenInv'
      BY <2>2, <3>1, <1>i DEF GivenInv
    <3>3. MediasInv'
      <4>1. mObjectDb[mHandleId] = Nobody
        BY <2>1, <1>i, <1>t DEF GivenInv, Given
      <4> QED
        BY <2>0, <2>1, <4>1 DEF MediasInv
    <3> QED
      BY <3>2, <3>3
  <2>4. ServersInv'
    <3>1. server.pc \in Sent => server.handle \in Database!Handles
      BY <1>t DEF Sent
    <3>2. server.pc \in Sent => server.handle < mHandleId'
      BY <2>0, <3>1, <1>i DEF ServersInv
    <3> QED
      BY <2>1, <3>2, <1>i DEF ServersInv, Sent
  <2>b. /\ watcher.pc = "insert" => watcher.handle # mHandleId
        /\ watcher.pc = "erase" => watcher.handle # mHandleId
    BY <2>1, <1>i, <1>t DEF WatchersInv, Given
  <2>5. WatchersInv'
    BY <2>0, <2>1, <2>2, <2>b, <1>i, <1>t DEF WatchersInv
  <2> QED
    BY <2>3, <2>4, <2>5
<1>12. CASE Database!InsertListed
  <2>1. /\ media.pc = "insert" /\ media'.pc = "list"
        /\ mObjectDb' = [mObjectDb EXCEPT ![media.handle] = media.path]
        /\ UNCHANGED <<mHandleId, server, watcher>>
        /\ media.handle < mHandleId
    BY <1>12, <1>i, <1>t, <1>e DEF Database!InsertListed, Database!Insert, MediasInv
  <2>2. server.pc \notin {"count"} \union Sent
    BY <2>1 DEF TypedInv, ServerTyped, Sent
  <2> QED
    BY <2>1, <2>2, <1>i, <1>t DEF GivenInv, ServersInv, WatchersInv, MediasInv, Given, Sent
<1>13. CASE Database!ReadDirectory \/ Database!AddStorage \/ Database!SetMediaFlag
  BY <1>0, <1>13, <1>e DEF Database!ReadDirectory, Database!AddStorage, Database!SetMediaFlag
<1>14. CASE \E p \in Database!Paths : Database!OthersCreate(p) \/ Database!OthersRemove(p)
  BY <1>0, <1>14 DEF Database!OthersCreate, Database!OthersRemove
<1> QED
  BY <1>1, <1>2, <1>3, <1>4, <1>5, <1>6, <1>7, <1>8, <1>9, <1>10, <1>11, <1>12, <1>13, <1>14
  DEF Database!Next, Database!Server, Database!Watcher, Database!Media, Database!Paths

(* A file of which no event waits has an object, or is about to: it is to  *)
(* be listed, the watch thread has found it, or its object was deleted and *)
(* it is next.                                                             *)
ToList(p) ==
  \/ media.pc \in {"mount", "readdir"}
  \/ media.pc \in {"list", "insert"} /\ p \in media.todo
  \/ media.pc = "insert" /\ media.path = p
Found(p) == watcher.pc \in {"take", "insert"} /\ watcher.path = p
ToUnlink(p) == server.pc = "unlink" /\ server.path = p
Listed(p) == \E h \in Database!Handles : mObjectDb[h] = p
Accounted(p) == ToList(p) \/ Found(p) \/ ToUnlink(p) \/ Listed(p)

ListedInv == ~clash => \A p \in files : Silent(events, p) => Accounted(p)

LEMMA ListedKept ==
  ASSUME TypedInv, Constants, EventsInv, HandlesInv, ListedInv, Database!Next
  PROVE  ListedInv'
<1> SUFFICES ASSUME ~clash', NEW p \in files', Silent(events', p) PROVE Accounted(p)'
  BY DEF ListedInv
<1> USE DEF Database!dbVars
<1>i. /\ GivenInv /\ ServersInv /\ WatchersInv /\ MediasInv
      /\ p \in files /\ Silent(events, p) => Accounted(p)
  BY ClashStays DEF HandlesInv, ListedInv
<1>t. /\ mObjectDb \in [Database!Handles -> Database!Paths \union {Nobody}]
      /\ Nobody \notin Database!Paths /\ files \subseteq Database!Paths
      /\ server.pc # "idle" => server.path \in Database!Paths /\ server.handle \in Database!Handles
      /\ watcher.pc \in {"insert", "erase"} => watcher.handle \in Database!Handles
      /\ watcher.pc # "idle" => watcher.path \in Database!Paths
      /\ media.pc = "insert" => media.path \in Database!Paths /\ media.handle \in Database!Handles
  BY DEF TypedInv, DatabaseTyped, ServerTyped, WatcherTyped, MediaTyped, Nothing, Database!Idle,
         Constants
<1>e. /\ server.pc # "idle" =>
           server \in [pc : {"insert", "count", "await", "write", "end", "unlink"},
                       path : Database!Paths, handle : Database!Handles]
      /\ watcher.pc # "idle" => watcher \in [pc : {"take", "insert", "erase"}, path : Database!Paths,
                     handle : 0 .. MaxHandle]
      /\ media \in [pc : {"mount", "readdir", "list", "insert", "flag", "idle"},
                path : Database!Paths \union {Nobody}, handle : 0 .. MaxHandle,
                todo : SUBSET Database!Paths]
  BY DEF TypedInv, ServerTyped, WatcherTyped, MediaTyped, Nothing, Database!Idle
(* A file comes or goes.                                                   *)
<1>f. ASSUME NEW q \in Database!Paths, NEW type \in {"create", "delete"}, Told(type, q),
             media' = media, watcher' = watcher, mObjectDb' = mObjectDb,
             server.pc = "unlink" => server' = server \/ server.path = q
      PROVE  Accounted(p)'
  <2>1. CASE media.pc = "mount"
    BY <1>f, <2>1 DEF Accounted, ToList
  <2>2. CASE media.pc # "mount"
    <3>1. p # q
      BY <1>f, <2>2, ToldIsSaid
    <3>2. p \in files /\ Silent(events, p)
      BY <1>f, <3>1, ToldIsSaid
    <3> QED
      BY <1>i, <1>f, <3>1, <3>2 DEF Accounted, ToList, Found, ToUnlink, Listed
  <2> QED
    BY <2>1, <2>2
(* What is erased is not all that the file has.                            *)
<1>g. ASSUME NEW k \in Database!Handles, mObjectDb' = [mObjectDb EXCEPT ![k] = Nobody],
             mObjectDb[k] # p, Listed(p)
      PROVE  Listed(p)'
  BY <1>g, <1>t DEF Listed
(* What is inserted takes nobody's place.                                  *)
<1>k. ASSUME NEW k \in Database!Handles, NEW q \in Database!Paths,
             mObjectDb' = [mObjectDb EXCEPT ![k] = IF mObjectDb[k] = Nobody THEN q ELSE mObjectDb[k]]
      PROVE  /\ p \in files /\ Listed(p) => Listed(p)'
             /\ mObjectDb[k] = Nobody /\ q = p => Listed(p)'
  BY <1>k, <1>t DEF Listed
<1>1. CASE \E q \in HostPaths : Database!BeginSendObject(q)
  <2>1. PICK q \in HostPaths : Database!BeginSendObject(q)
    BY <1>1
  <2> QED
    BY <1>i, <2>1 DEF Database!BeginSendObject, Accounted, ToList, Found, ToUnlink, Listed
<1>2. CASE Database!InsertSent
  <2>1. p \in files /\ Silent(events, p) /\ UNCHANGED <<media, watcher>> /\ server.pc = "insert"
    BY <1>2 DEF Database!InsertSent
  <2>2. Listed(p) => Listed(p)'
    BY <1>2, <1>k, <1>t, <2>1 DEF Database!InsertSent, Database!Insert
  <2> QED
    BY <1>i, <2>1, <2>2 DEF Accounted, ToList, Found, ToUnlink
<1>3. CASE Database!CountHandle \/ Database!Abandon \/ Database!NoDataComes \/ Database!SendSucceeds
  <2>1. /\ p \in files /\ Silent(events, p) /\ UNCHANGED <<media, watcher, mObjectDb>>
        /\ server.pc # "unlink"
    BY <1>3 DEF Database!CountHandle, Database!Abandon, Database!NoDataComes, Database!SendSucceeds
  <2> QED
    BY <1>i, <2>1 DEF Accounted, ToList, Found, ToUnlink, Listed
<1>4. CASE Database!SendObject \/ Database!SendFails \/ Database!DeletePath
  <2>1. /\ server.path \in Database!Paths /\ UNCHANGED <<media, watcher, mObjectDb>>
        /\ server.pc = "unlink" => Database!DeletePath
    BY <1>4, <1>t DEF Database!SendObject, Database!SendFails, Database!DeletePath
  <2>2. CASE Told("create", server.path) \/ Told("delete", server.path)
    BY <1>f, <2>1, <2>2
  <2>3. CASE UNCHANGED <<files, events>> /\ (Database!DeletePath => server.path \notin files)
    <3>1. p \in files /\ Silent(events, p)
      BY <2>3
    <3>2. ToUnlink(p) => FALSE
      BY <2>1, <2>3, <3>1 DEF ToUnlink
    <3> QED
      BY <1>i, <2>1, <3>1, <3>2 DEF Accounted, ToList, Found, ToUnlink, Listed
  <2> QED
    BY <1>4, <2>2, <2>3, FileChanges DEF Database!SendObject, Database!SendFails, Database!DeletePath
<1>5. CASE Database!EndFailedSend
  <2>1. p \in files /\ Silent(events, p) /\ UNCHANGED <<media, watcher>> /\ server.pc = "end"
    BY <1>5 DEF Database!EndFailedSend
  <2>2. mObjectDb[server.handle] # p
    BY <1>i, <1>t, <2>1 DEF ServersInv, Sent, TypedInv, ServerTyped
  <2>3. Listed(p) => Listed(p)'
    BY <1>5, <1>g, <1>t, <2>1, <2>2 DEF Database!EndFailedSend, Database!Erase
  <2> QED
    BY <1>i, <2>1, <2>3 DEF Accounted, ToList, Found, ToUnlink
<1>6. CASE \E h \in Database!Handles : Database!DeleteObject(h)
  <2>1. PICK h \in Database!Handles : Database!DeleteObject(h)
    BY <1>6
  <2>2. /\ p \in files /\ Silent(events, p) /\ UNCHANGED <<media, watcher>> /\ server.pc = "idle"
        /\ mObjectDb' = [mObjectDb EXCEPT ![h] = Nobody]
        /\ server'.pc = "unlink" /\ server'.path = mObjectDb[h]
    BY <2>1 DEF Database!DeleteObject, Database!Erase
  <2>3. CASE mObjectDb[h] = p
    BY <2>2, <2>3 DEF Accounted, ToUnlink
  <2>4. CASE mObjectDb[h] # p
    <3>1. Listed(p) => Listed(p)'
      BY <1>g, <2>2, <2>4
    <3> QED
      BY <1>i, <2>2, <3>1 DEF Accounted, ToList, Found, ToUnlink
  <2> QED
    BY <2>3, <2>4
<1>7. CASE Database!ReadEvent
  <2>1. /\ events \in Seq(Events) /\ events # << >> /\ events' = Tail(events) /\ files' = files
        /\ watcher' = Database!Lookup(Head(events).type, Head(events).path)
        /\ watcher.pc = "idle" /\ UNCHANGED <<media, server, mObjectDb>>
        /\ Tells(events, files)
    BY <1>7 DEF Database!ReadEvent, TypedInv, DatabaseTyped, EventsInv
  <2> DEFINE h == Head(events)
  <2>2. CASE p = h.path
    <3>1. h.type = "create"
      BY <2>1, <2>2, TellsTail DEF Says
    <3>2. mMediaFlag # 0
      BY DEF Constants, TypedInv, MediaTyped
    <3> HIDE DEF h
    <3>3. CASE Database!Known(p) = {}
      <4>1. watcher' = [pc |-> "take", path |-> p, handle |-> 0]
        BY <2>1, <2>2, <3>1, <3>2, <3>3 DEF Database!Lookup, h
      <4> QED
        BY <4>1 DEF Accounted, Found
    <3>4. CASE Database!Known(p) # {}
      BY <2>1, <3>4 DEF Accounted, Listed, Database!Known
    <3> QED
      BY <3>3, <3>4
  <2>3. CASE p # h.path
    <3>1. p \in files /\ Silent(events, p)
      BY <2>1, <2>3, TellsTail
    <3> QED
      BY <1>i, <2>1, <3>1 DEF Accounted, ToList, Found, ToUnlink, Listed
  <2> QED
    BY <2>2, <2>3
<1>8. CASE Database!TakeHandle
  <2>1. /\ p \in files /\ Silent(events, p) /\ UNCHANGED <<media, server, mObjectDb>>
        /\ watcher'.pc = "insert" /\ watcher'.path = watcher.path
    BY <1>8, <1>e DEF Database!TakeHandle
  <2> QED
    BY <1>i, <2>1 DEF Accounted, ToList, Found, ToUnlink, Listed
<1>9. CASE Database!InsertFound
  <2>1. p \in files /\ Silent(events, p) /\ UNCHANGED <<media, server>> /\ watcher.pc = "insert"
    BY <1>9 DEF Database!InsertFound
  <2>2. /\ Listed(p) => Listed(p)'
        /\ watcher.path = p => Listed(p)'
    BY <1>9, <1>k, <1>t, <1>i, <2>1 DEF Database!InsertFound, Database!Insert, WatchersInv
  <2> QED
    BY <1>i, <2>1, <2>2 DEF Accounted, ToList, Found, ToUnlink
<1>10. CASE Database!EraseGone
  <2>1. p \in files /\ Silent(events, p) /\ UNCHANGED <<media, server>> /\ watcher.pc = "erase"
    BY <1>10 DEF Database!EraseGone
  <2>2. watcher.path # p
    BY <2>1 DEF EventsInv
  <2>3. mObjectDb[watcher.handle] # p
    BY <1>i, <1>t, <2>1, <2>2 DEF WatchersInv
  <2>4. Listed(p) => Listed(p)'
    BY <1>10, <1>g, <1>t, <2>1, <2>3 DEF Database!EraseGone, Database!Erase
  <2> QED
    BY <1>i, <2>1, <2>4 DEF Accounted, ToList, Found, ToUnlink
<1>11. CASE Database!Mount \/ Database!ReadDirectory
  <2>1. /\ p \in files /\ \/ media'.pc = "readdir"
                          \/ media'.pc = "list" /\ media'.todo = files
    BY <1>11, <1>e DEF Database!Mount, Database!ReadDirectory
  <2> QED
    BY <2>1 DEF Accounted, ToList
<1>12. CASE \E q \in Database!Paths : Database!ListNext(q)
  <2>1. PICK q \in Database!Paths : Database!ListNext(q)
    BY <1>12
  <2>2. /\ p \in files /\ Silent(events, p) /\ UNCHANGED <<watcher, server, mObjectDb>> /\ media.pc = "list"
        /\ media'.pc = "insert" /\ media'.path = q /\ media'.todo = media.todo \ {q}
    BY <1>e, <2>1 DEF Database!ListNext
  <2> QED
    BY <1>i, <2>2 DEF Accounted, ToList, Found, ToUnlink, Listed
<1>13. CASE Database!InsertListed
  <2>1. /\ p \in files /\ Silent(events, p) /\ UNCHANGED <<watcher, server>> /\ media.pc = "insert"
        /\ media'.pc = "list" /\ media'.todo = media.todo
    BY <1>13, <1>e DEF Database!InsertListed
  <2>2. /\ Listed(p) => Listed(p)'
        /\ media.path = p => Listed(p)'
    BY <1>13, <1>k, <1>t, <1>i, <2>1 DEF Database!InsertListed, Database!Insert, MediasInv
  <2> QED
    BY <1>i, <2>1, <2>2 DEF Accounted, ToList, Found, ToUnlink
<1>14. CASE Database!AddStorage \/ Database!SetMediaFlag
  <2>1. /\ p \in files /\ Silent(events, p) /\ UNCHANGED <<watcher, server, mObjectDb>>
        /\ (media.pc = "list" /\ media.todo = {}) \/ media.pc = "flag"
    BY <1>14 DEF Database!AddStorage, Database!SetMediaFlag
  <2>2. ~ToList(p)
    BY <2>1 DEF ToList
  <2> QED
    BY <1>i, <2>1, <2>2 DEF Accounted, Found, ToUnlink, Listed
<1>15. CASE \E q \in Database!Paths : (q \in LocalPaths /\ Database!OthersCreate(q)) \/ Database!OthersRemove(q)
  <2>1. PICK q \in Database!Paths : (q \in LocalPaths /\ Database!OthersCreate(q)) \/ Database!OthersRemove(q)
    BY <1>15
  <2>2. /\ Told("create", q) \/ Told("delete", q)
        /\ UNCHANGED <<media, watcher, mObjectDb, server>>
    BY <2>1, FileChanges DEF Database!OthersCreate, Database!OthersRemove
  <2> QED
    BY <1>f, <2>2
<1> QED
  BY <1>1, <1>2, <1>3, <1>4, <1>5, <1>6, <1>7, <1>8, <1>9, <1>10, <1>11, <1>12, <1>13, <1>14, <1>15
  DEF Database!Next, Database!Server, Database!Watcher, Database!Media, Database!Paths

(* What is to be listed and has not changed since has no object yet, and   *)
(* nobody is about to give it one, or to remove it.                        *)
UnlistedInv ==
  /\ media.pc = "insert" => media.path \notin media.todo
  /\ \A p \in Database!Paths \ loose :
       ToList(p) =>
         /\ ~Listed(p) /\ Silent(events, p) /\ watcher.path # p /\ server.path # p
         /\ media.pc \in {"list", "insert"} => p \in files

LEMMA UnlistedKept ==
  ASSUME TypedInv, Constants, EventsInv, UnlistedInv, Database!Next
  PROVE  UnlistedInv'
<1> USE DEF Database!dbVars
<1>t. /\ mObjectDb \in [Database!Handles -> Database!Paths \union {Nobody}]
      /\ Nobody \notin Database!Paths /\ events \in Seq(Events)
      /\ server.pc # "idle" => server.path \in Database!Paths /\ server.handle \in Database!Handles
      /\ server.pc \notin {"idle", "unlink"} => media.pc \in {"flag", "idle"}
      /\ watcher.pc \in {"insert", "erase"} => watcher.handle \in Database!Handles
      /\ media.pc = "insert" => media.path \in Database!Paths /\ media.handle \in Database!Handles
      /\ media \in [pc : {"mount", "readdir", "list", "insert", "flag", "idle"},
                path : Database!Paths \union {Nobody}, handle : 0 .. MaxHandle,
                todo : SUBSET Database!Paths]
      /\ watcher.pc # "idle" => watcher \in [pc : {"take", "insert", "erase"}, path : Database!Paths,
                     handle : 0 .. MaxHandle]
      /\ media.pc = "mount" => events = << >>
  BY DEF TypedInv, DatabaseTyped, ServerTyped, WatcherTyped, MediaTyped, Nothing, Database!Idle,
         Constants
<1>o. (media.pc = "insert" => media.path \notin media.todo)'
  <2>1. media' = media \/ Database!Media
    BY DEF Database!Next, Database!Server, Database!BeginSendObject, Database!InsertSent,
         Database!CountHandle, Database!Abandon, Database!SendObject, Database!NoDataComes,
         Database!SendSucceeds, Database!SendFails, Database!EndFailedSend, Database!DeleteObject,
         Database!DeletePath, Database!Watcher, Database!ReadEvent, Database!TakeHandle,
         Database!InsertFound, Database!EraseGone, Database!OthersCreate, Database!OthersRemove
  <2>2. CASE Database!Media
    <3>1. CASE \E p \in Database!Paths : Database!ListNext(p)
      BY <1>t, <3>1 DEF Database!ListNext
    <3>2. CASE ~(\E p \in Database!Paths : Database!ListNext(p))
      BY <1>t, <2>2, <3>2 DEF Database!Media, Database!Mount, Database!ReadDirectory,
         Database!InsertListed, Database!AddStorage, Database!SetMediaFlag
    <3> QED
      BY <3>1, <3>2
  <2> QED
    BY <2>1, <2>2 DEF UnlistedInv
<1> SUFFICES ASSUME NEW p \in Database!Paths, p \notin loose', ToList(p)'
             PROVE  /\ ~Listed(p)' /\ Silent(events', p) /\ watcher'.path # p /\ server'.path # p
                    /\ media'.pc \in {"list", "insert"} => p \in files'
  BY <1>o DEF UnlistedInv
<1>n. Nobody # p
  BY <1>t
<1>u. p \notin loose /\ ToList(p) =>
        /\ ~Listed(p) /\ Silent(events, p) /\ watcher.path # p /\ server.path # p
        /\ media.pc \in {"list", "insert"} => p \in files
  BY DEF UnlistedInv
<1>k. ASSUME NEW k \in Database!Handles, NEW q, q # p, ~Listed(p),
             mObjectDb' = [mObjectDb EXCEPT ![k] = IF mObjectDb[k] = Nobody THEN q ELSE mObjectDb[k]]
      PROVE  ~Listed(p)'
  BY <1>k, <1>t DEF Listed
<1>g. ASSUME NEW k \in Database!Handles, mObjectDb' = [mObjectDb EXCEPT ![k] = Nobody], ~Listed(p)
      PROVE  ~Listed(p)'
  BY <1>g, <1>t, <1>n DEF Listed
<1>1. CASE \/ \E q \in HostPaths : Database!BeginSendObject(q)
           \/ Database!InsertSent \/ Database!CountHandle \/ Database!Abandon \/ Database!SendObject
           \/ Database!NoDataComes \/ Database!SendSucceeds \/ Database!SendFails \/ Database!EndFailedSend
  <2>1. media' = media /\ media.pc \in {"flag", "idle"}
    BY <1>1, <1>t DEF Database!BeginSendObject, Database!InsertSent,
         Database!CountHandle, Database!Abandon, Database!SendObject, Database!NoDataComes,
         Database!SendSucceeds, Database!SendFails, Database!EndFailedSend
  <2> QED
    BY <2>1 DEF ToList
<1>2. CASE \E h \in Database!Handles : Database!DeleteObject(h)
  <2>1. PICK h \in Database!Handles : Database!DeleteObject(h)
    BY <1>2
  <2>2. /\ UNCHANGED <<media, watcher, files, events, loose>>
        /\ mObjectDb' = [mObjectDb EXCEPT ![h] = Nobody]
        /\ server'.path = mObjectDb[h]
    BY <2>1 DEF Database!DeleteObject, Database!Erase
  <2>3. p \notin loose /\ ToList(p)
    BY <2>2 DEF ToList
  <2>4. mObjectDb[h] # p
    BY <1>u, <2>3 DEF Listed
  <2> QED
    BY <1>g, <1>u, <2>2, <2>3, <2>4
<1>3. CASE Database!DeletePath
  <2>1. /\ UNCHANGED <<media, watcher, mObjectDb, loose>> /\ server'.path = Nobody
        /\ server.path \in Database!Paths
        /\ UNCHANGED <<files, events>> \/ Told("delete", server.path)
    BY <1>3, <1>t, FileChanges DEF Database!DeletePath, Database!Idle
  <2>2. p \notin loose /\ ToList(p)
    BY <2>1 DEF ToList
  <2>3. server.path # p
    BY <1>u, <2>2
  <2>4. /\ Silent(events', p) <=> Silent(events, p)
        /\ p \in files' <=> p \in files
    BY <2>1, <2>3, ToldIsSaid
  <2> QED
    BY <1>n, <1>u, <2>1, <2>2, <2>4 DEF Listed
<1>4. CASE Database!ReadEvent
  <2>1. /\ events # << >> /\ events' = Tail(events)
        /\ watcher' = Database!Lookup(Head(events).type, Head(events).path)
        /\ UNCHANGED <<media, server, mObjectDb, loose, files>>
    BY <1>4 DEF Database!ReadEvent
  <2>2. p \notin loose /\ ToList(p)
    BY <2>1 DEF ToList
  <2>3. Head(events).path # p
    <3>1. 1 \in 1 .. Len(events) /\ Head(events) = events[1]
      BY <1>t, <2>1, HeadTailProperties, EmptySeq
    <3> QED
      BY <1>u, <2>2, <3>1 DEF Silent
  <2>4. Silent(events', p)
    BY <1>t, <1>u, <2>1, <2>2, <2>3, TellsTail DEF EventsInv
  <2>5. watcher'.path # p
    BY <1>n, <2>1, <2>3 DEF Database!Lookup, Database!Idle
  <2> QED
    BY <1>u, <2>1, <2>2, <2>4, <2>5 DEF Listed
<1>5. CASE Database!TakeHandle
  <2>1. UNCHANGED <<media, server, mObjectDb, loose, files, events>> /\ watcher'.path = watcher.path
    BY <1>5, <1>t DEF Database!TakeHandle
  <2> QED
    BY <1>u, <2>1 DEF Listed, ToList
<1>6. CASE Database!InsertFound \/ Database!EraseGone
  <2>1. UNCHANGED <<media, server, loose, files, events>> /\ watcher'.path = Nobody
    BY <1>6 DEF Database!InsertFound, Database!EraseGone, Database!Idle
  <2>2. p \notin loose /\ ToList(p)
    BY <2>1 DEF ToList
  <2>3. ~Listed(p)'
    BY <1>6, <1>t, <1>k, <1>g, <1>u, <2>2 DEF Database!InsertFound, Database!EraseGone, Database!Insert, Database!Erase
  <2> QED
    BY <1>n, <1>u, <2>1, <2>2, <2>3
<1>7. CASE Database!Mount
  <2>1. UNCHANGED <<server, loose, files, events, mObjectDb, watcher>> /\ media.pc = "mount" /\ media'.pc = "readdir"
    BY <1>7, <1>t DEF Database!Mount
  <2> QED
    BY <1>u, <2>1 DEF Listed, ToList
<1>8. CASE Database!ReadDirectory
  <2>1. /\ UNCHANGED <<server, loose, files, events, mObjectDb, watcher>> /\ media.pc = "readdir"
        /\ media'.pc = "list" /\ media'.todo = files
    BY <1>8, <1>t DEF Database!ReadDirectory
  <2> QED
    BY <1>u, <2>1 DEF Listed, ToList
<1>9. CASE \E q \in Database!Paths : Database!ListNext(q)
  <2>1. PICK q \in Database!Paths : Database!ListNext(q)
    BY <1>9
  <2>2. /\ UNCHANGED <<server, loose, files, events, mObjectDb, watcher>> /\ media.pc = "list"
        /\ media'.pc = "insert" /\ media'.todo = media.todo \ {q} /\ media'.path = q /\ q \in media.todo
    BY <1>t, <2>1 DEF Database!ListNext
  <2> QED
    BY <1>u, <2>2 DEF Listed, ToList
<1>10. CASE Database!InsertListed
  <2>1. /\ UNCHANGED <<server, loose, files, events, watcher>> /\ media.pc = "insert"
        /\ media'.pc = "list" /\ media'.todo = media.todo
    BY <1>10, <1>t DEF Database!InsertListed
  <2>2. p \in media.todo /\ p # media.path /\ p \notin loose /\ ToList(p)
    BY <2>1 DEF ToList, UnlistedInv
  <2>3. ~Listed(p)'
    BY <1>10, <1>t, <1>k, <1>u, <2>1, <2>2 DEF Database!InsertListed, Database!Insert
  <2> QED
    BY <1>u, <2>1, <2>2, <2>3
<1>11. CASE Database!AddStorage \/ Database!SetMediaFlag
  <2>1. media'.pc \in {"flag", "idle"}
    BY <1>11, <1>t DEF Database!AddStorage, Database!SetMediaFlag
  <2> QED
    BY <2>1 DEF ToList
<1>12. CASE \E q \in Database!Paths : (q \in LocalPaths /\ Database!OthersCreate(q)) \/ Database!OthersRemove(q)
  <2>1. PICK q \in Database!Paths : (q \in LocalPaths /\ Database!OthersCreate(q)) \/ Database!OthersRemove(q)
    BY <1>12
  <2>2. /\ Told("create", q) \/ Told("delete", q)
        /\ UNCHANGED <<media, watcher, mObjectDb, server>>
        /\ loose' = Database!Loosened(q)
    BY <2>1, FileChanges DEF Database!OthersCreate, Database!OthersRemove
  <2>3. p \notin loose /\ ToList(p)
    BY <2>2 DEF ToList, Database!Loosened
  <2>4. CASE media.pc = "mount"
    BY <1>t, <1>u, <2>2, <2>3, <2>4 DEF Told, Listed
  <2>5. CASE media.pc # "mount"
    <3>1. p # q
      BY <2>2, <2>3, <2>5 DEF ToList, Database!Loosened
    <3>2. (Silent(events', p) <=> Silent(events, p)) /\ (p \in files' <=> p \in files)
      BY <2>2, <3>1, ToldIsSaid
    <3> QED
      BY <1>u, <2>2, <2>3, <3>2 DEF Listed
  <2> QED
    BY <2>4, <2>5
<1> QED
  BY <1>1, <1>2, <1>3, <1>4, <1>5, <1>6, <1>7, <1>8, <1>9, <1>10, <1>11, <1>12
  DEF Database!Next, Database!Server, Database!Watcher, Database!Media, Database!Paths

(* The objects of a path, those that are about to be erased left out and   *)
(* one that was found put in, are no more than the file, there or coming,  *)
(* and the events of its removal that wait.  A file may well have two: one *)
(* for what was removed and is still to be told of, one for what is sent.  *)
Kept(p) ==
  {h \in Database!Handles : mObjectDb[h] = p /\ ~(watcher.pc = "erase" /\ watcher.handle = h)}
Removal(p) == {[type |-> "delete", path |-> p]}
Coming(p) == p \in files \/ (server.pc \in {"count", "await"} /\ server.path = p)
Covered(K, found, removals, coming) ==
  Cardinality(K) + (IF found THEN 1 ELSE 0) <= removals + (IF coming THEN 1 ELSE 0)

BalanceInv ==
  \A p \in Database!Paths \ loose :
    Covered(Kept(p), Found(p), Times(events, Removal(p)), Coming(p))

LEMMA CoveredStill ==
  ASSUME NEW K, IsFiniteSet(K), NEW L, L \subseteq K, NEW d \in Nat, NEW e \in Nat,
         NEW w, NEW v, NEW f, NEW g, Covered(K, w, d, f),
         v => w, d <= e, f => g \/ d + 1 <= e
  PROVE  Covered(L, v, e, g)
<1>1. Cardinality(L) \in Nat /\ Cardinality(K) \in Nat /\ Cardinality(L) <= Cardinality(K)
  BY NoMore
<1> DEFINE k == Cardinality(K)
           l == Cardinality(L)
<1> HIDE DEF k, l
<1>2. l + (IF v THEN 1 ELSE 0) <= k + (IF w THEN 1 ELSE 0)
  BY <1>1 DEF k, l
<1>3. d + (IF f THEN 1 ELSE 0) <= e + (IF g THEN 1 ELSE 0)
  OBVIOUS
<1>4. k + (IF w THEN 1 ELSE 0) <= d + (IF f THEN 1 ELSE 0)
  BY DEF Covered, k
<1>5. k \in Nat /\ l \in Nat
  BY <1>1 DEF k, l
<1> QED
  BY <1>2, <1>3, <1>4, <1>5 DEF Covered, l

LEMMA CoveredMoved ==
  ASSUME NEW K, IsFiniteSet(K), NEW x, NEW L, L \subseteq K \union {x}, NEW d \in Nat,
         NEW f, Covered(K, TRUE, d, f)
  PROVE  Covered(L, FALSE, d, f)
<1>1. /\ Cardinality(L) \in Nat /\ Cardinality(L) <= Cardinality(K) + 1
      /\ Cardinality(K) \in Nat
  BY OneMore, NoMore
<1> QED
  BY <1>1 DEF Covered

LEMMA CoveredMore ==
  ASSUME NEW K, IsFiniteSet(K), NEW x, NEW L, L \subseteq K \union {x}, NEW d \in Nat,
         NEW w, NEW v, Covered(K, w, d, FALSE), v => w
  PROVE  Covered(L, v, d, TRUE)
<1>1. /\ Cardinality(L) \in Nat /\ Cardinality(L) <= Cardinality(K) + 1
      /\ Cardinality(K) \in Nat
  BY OneMore, NoMore
<1> QED
  BY <1>1 DEF Covered

LEMMA CoveredLess ==
  ASSUME NEW K, IsFiniteSet(K), NEW x \in K, NEW L, L \subseteq K \ {x}, NEW d \in Nat, NEW e \in Nat,
         NEW f, Covered(K, FALSE, d, f), d = e + 1
  PROVE  Covered(L, FALSE, e, f)
<1>1. Cardinality(L) \in Nat /\ Cardinality(K) \in Nat /\ Cardinality(L) + 1 <= Cardinality(K)
  BY OneLess, NoMore
<1> QED
  BY <1>1 DEF Covered

LEMMA CoveredNone ==
  ASSUME NEW d \in Nat, NEW f, NEW v, v => f \/ d > 0
  PROVE  Covered({}, v, d, f)
<1>1. Cardinality({}) = 0
  BY FS_EmptySet
<1> QED
  BY <1>1 DEF Covered

LEMMA CoveredOne ==
  ASSUME NEW x, NEW L, L \subseteq {x}, NEW d \in Nat
  PROVE  Covered(L, FALSE, d, TRUE)
<1>1. IsFiniteSet({}) /\ Cardinality({}) = 0 /\ L \subseteq {} \union {x}
  BY FS_EmptySet
<1>2. Cardinality(L) \in Nat /\ Cardinality(L) <= 0 + 1
  <2> HIDE <1>1
  <2>1. Cardinality(L) \in Nat /\ Cardinality(L) <= Cardinality({}) + 1
    BY <1>1, OneMore
  <2> QED
    BY <1>1, <2>1
<1> QED
  BY <1>2 DEF Covered

(* If the last event of a path is not that it was made, it is a removal.   *)
LEMMA RemovalWaits ==
  ASSUME NEW q \in Seq(Events), NEW f, Tells(q, f), NEW p, p \notin f, ~Silent(q, p)
  PROVE  Times(q, Removal(p)) > 0
<1> DEFINE T == {i \in 1 .. Len(q) : q[i].path = p}
<1>1. Len(q) \in Nat /\ T \subseteq Nat /\ T # {} /\ \A i \in T : i <= Len(q)
  BY DEF Silent
<1>2. PICK i \in T : \A j \in T : j <= i
  <2> HIDE DEF T
  <2> QED
    BY <1>1, Greatest
<1>3. i \in 1 .. Len(q) /\ q[i] \in Events /\ q[i].path = p
  OBVIOUS
<1>4. Latest(q, i)
  <2> SUFFICES ASSUME NEW j \in i + 1 .. Len(q), q[j].path = p PROVE FALSE
    BY <1>3 DEF Latest
  <2>1. j \in T
    BY <1>1, <1>3
  <2> QED
    BY <1>2, <1>3, <2>1
<1>5. q[i].type = "delete"
  BY <1>3, <1>4 DEF Tells, Says, Events
<1>6. q[i] \in Removal(p)
  BY <1>3, <1>5 DEF Events, Removal
<1> QED
  BY <1>3, <1>6, TimesNone, TimesIsNat

LEMMA BalanceKept ==
  ASSUME TypedInv, Constants, EventsInv, UnlistedInv, BalanceInv, Database!Next
  PROVE  BalanceInv'
<1> SUFFICES ASSUME NEW p \in Database!Paths, p \notin loose'
             PROVE  Covered(Kept(p)', Found(p)', Times(events', Removal(p)), Coming(p)')
  BY DEF BalanceInv, Removal
<1> USE DEF Database!dbVars
<1> DEFINE R == Removal(p)
           K == Kept(p)
           d == Times(events, R)
           e == Times(events', R)
<1>t. /\ mObjectDb \in [Database!Handles -> Database!Paths \union {Nobody}]
      /\ Nobody \notin Database!Paths /\ events \in Seq(Events) /\ Nobody # p
      /\ server.pc # "idle" =>
           server \in [pc : {"insert", "count", "await", "write", "end", "unlink"},
                       path : Database!Paths, handle : Database!Handles]
      /\ server.pc \in {"insert", "count", "await", "end"} => server.path \in Database!Paths \ files
      /\ server.pc # "idle" => media.pc # "mount"
      /\ watcher.pc \in {"insert", "erase"} => watcher.handle \in Database!Handles
      /\ watcher.pc # "idle" => watcher \in [pc : {"take", "insert", "erase"}, path : Database!Paths,
                     handle : 0 .. MaxHandle]
      /\ media.pc = "insert" => media.path \in Database!Paths /\ media.handle \in Database!Handles
      /\ mMediaFlag # 0
  BY DEF TypedInv, DatabaseTyped, ServerTyped, WatcherTyped, MediaTyped, Nothing, Database!Idle,
         Constants, Database!Paths
<1>n. d \in Nat /\ IsFiniteSet(K)
  <2>1. IsFiniteSet(Database!Handles)
    BY FS_Interval DEF Database!Handles, Constants
  <2>2. K \subseteq Database!Handles
    BY DEF Kept
  <2> QED
    BY <1>t, <2>1, <2>2, FS_Subset, TimesIsNat
<1>b. p \notin loose => Covered(K, Found(p), d, Coming(p))
  BY DEF BalanceInv
<1>l. p \notin loose
  <2>1. CASE Database!Server
    BY <2>1 DEF Database!Server, Database!BeginSendObject, Database!InsertSent,
       Database!CountHandle, Database!Abandon, Database!SendObject, Database!NoDataComes,
       Database!SendSucceeds, Database!SendFails, Database!EndFailedSend, Database!DeleteObject,
       Database!DeletePath
  <2>2. CASE Database!Watcher
    BY <2>2 DEF Database!Watcher, Database!ReadEvent, Database!TakeHandle, Database!InsertFound,
       Database!EraseGone
  <2>3. CASE Database!Media
    <3>1. CASE \E q \in Database!Paths : Database!ListNext(q)
      BY <3>1 DEF Database!ListNext
    <3>2. CASE ~(\E q \in Database!Paths : Database!ListNext(q))
      BY <2>3, <3>2 DEF Database!Media, Database!Mount, Database!ReadDirectory,
         Database!InsertListed, Database!AddStorage, Database!SetMediaFlag
    <3> QED
      BY <3>1, <3>2
  <2>4. CASE \/ \E q \in LocalPaths : Database!OthersCreate(q)
             \/ \E q \in Database!Paths : Database!OthersRemove(q)
    BY <2>4 DEF Database!OthersCreate, Database!OthersRemove, Database!Loosened
  <2> QED
    BY <2>1, <2>2, <2>3, <2>4 DEF Database!Next
<1> HIDE DEF R, K, d, e
(* Nobody inserts, and no event is read.                                   *)
<1>s. ASSUME Kept(p)' \subseteq K, Found(p)' => Found(p), events' = events, Coming(p) => Coming(p)'
      PROVE  Covered(Kept(p)', Found(p)', e, Coming(p)')
  <2>1. e = d
    BY <1>s DEF d, e
  <2> QED
    BY <1>b, <1>l, <1>n, <1>s, <2>1, CoveredStill
<1>f. ASSUME NEW q \in Database!Paths, NEW type \in {"create", "delete"}, Told(type, q),
             media.pc # "mount", Kept(p)' = K, watcher' = watcher,
             q # p => (Coming(p) => Coming(p)'), type = "create" => Coming(q)'
      PROVE  Covered(Kept(p)', Found(p)', e, Coming(p)')
  <2>1. events' = Append(events, [type |-> type, path |-> q]) /\ [type |-> type, path |-> q] \in Events
    BY <1>f DEF Told, Events
  <2>2. e = d + (IF [type |-> type, path |-> q] \in R THEN 1 ELSE 0)
    BY <1>t, <2>1, TimesAppend DEF d, e
  <2>3. [type |-> type, path |-> q] \in R <=> type = "delete" /\ q = p
    BY DEF R, Removal
  <2>4. d <= e /\ e \in Nat /\ (type = "delete" /\ q = p => d + 1 <= e)
    BY <1>n, <2>2, <2>3
  <2>5. Coming(p) => Coming(p)' \/ d + 1 <= e
    BY <1>f, <2>4
  <2>6. Found(p)' => Found(p)
    BY <1>f DEF Found
  <2> QED
    BY <1>b, <1>f, <1>l, <1>n, <2>4, <2>5, <2>6, CoveredStill
<1>1. CASE \E q \in HostPaths : Database!BeginSendObject(q)
  <2>1. /\ UNCHANGED <<mObjectDb, watcher, events, files>> /\ server.pc = "idle"
    BY <1>1 DEF Database!BeginSendObject
  <2> QED
    BY <1>s, <2>1 DEF Kept, K, Found, Coming, e, R
<1>2. CASE Database!InsertSent
  <2>1. /\ UNCHANGED <<watcher, events, files>> /\ server.pc = "insert" /\ server.handle \in Database!Handles
        /\ mObjectDb' = [mObjectDb EXCEPT ![server.handle] =
                           IF mObjectDb[server.handle] = Nobody THEN server.path ELSE mObjectDb[server.handle]]
        /\ server'.pc = "count" /\ server'.path = server.path /\ server.path \notin files
    BY <1>2, <1>t DEF Database!InsertSent, Database!Insert
  <2>2. CASE server.path = p
    <3>1. Kept(p)' \subseteq K \union {server.handle}
      BY <1>t, <2>1, <2>2 DEF Kept, K
    <3>2. ~Coming(p) /\ Coming(p)' = TRUE /\ e = d
      BY <2>1, <2>2 DEF Coming, d, e
    <3>3. (Found(p)' => Found(p)) /\ Covered(K, Found(p), d, FALSE)
      BY <1>b, <1>l, <2>1, <3>2 DEF Found, Covered
    <3>4. Covered(Kept(p)', Found(p)', d, TRUE)
      BY <1>n, <3>1, <3>3, CoveredMore
    <3>5. Covered(Kept(p)', Found(p)', e, Coming(p)')
      BY <3>2, <3>4 DEF Covered
    <3> QED
      BY <3>5 DEF e, R
  <2>3. CASE server.path # p
    <3>1. Kept(p)' \subseteq K
      BY <1>t, <2>1, <2>3 DEF Kept, K
    <3>2. (Found(p)' => Found(p)) /\ (Coming(p) => Coming(p)')
      BY <2>1, <2>3 DEF Found, Coming
    <3> QED
      BY <1>s, <2>1, <3>1, <3>2 DEF e, R
  <2> QED
    BY <2>2, <2>3
<1>3. CASE Database!CountHandle
  <2>1. /\ UNCHANGED <<mObjectDb, watcher, events, files>> /\ server'.pc = "await" /\ server'.path = server.path
        /\ server.pc = "count"
    BY <1>3, <1>t DEF Database!CountHandle
  <2> QED
    BY <1>s, <2>1 DEF Kept, K, Found, Coming, e, R
<1>4. CASE Database!Abandon \/ Database!NoDataComes
  <2>1. UNCHANGED <<mObjectDb, watcher, events, files>> /\ server.path # p
    BY <1>4 DEF Database!Abandon, Database!NoDataComes
  <2> QED
    BY <1>s, <2>1 DEF Kept, K, Found, Coming, e, R
<1>5. CASE Database!SendObject
  <2>1. /\ UNCHANGED <<mObjectDb, watcher, media>> /\ server.pc = "await" /\ server.path \in Database!Paths \ files
        /\ Told("create", server.path) /\ media.pc # "mount"
    BY <1>5, <1>t, FileChanges DEF Database!SendObject
  <2>2. PICK q \in Database!Paths : q = server.path
    BY <2>1
  <2>3. Told("create", q) /\ files' = files \union {q}
    BY <2>1, <2>2 DEF Told
  <2>4. Coming(q)'
    BY <2>3 DEF Coming
  <2>5. q # p => (Coming(p) => Coming(p)')
    BY <2>1, <2>2, <2>3 DEF Coming
  <2>6. Kept(p)' = K
    BY <2>1 DEF Kept, K
  <2>7. Covered(Kept(p)', Found(p)', e, Coming(p)')
    BY <1>f, <2>1, <2>2, <2>3, <2>4, <2>5, <2>6
  <2> QED
    BY <2>7 DEF e, R
<1>6. CASE Database!SendSucceeds
  <2>1. UNCHANGED <<mObjectDb, watcher, events, files>> /\ server.pc = "write"
    BY <1>6 DEF Database!SendSucceeds
  <2> QED
    BY <1>s, <2>1 DEF Kept, K, Found, Coming, e, R
<1>7. CASE Database!SendFails \/ Database!DeletePath
  <2>1. /\ UNCHANGED <<mObjectDb, watcher, media>> /\ server.pc \in {"write", "unlink"}
        /\ server.path \in Database!Paths /\ media.pc # "mount"
        /\ UNCHANGED <<files, events>> \/ Told("delete", server.path)
    BY <1>7, <1>t, FileChanges DEF Database!SendFails, Database!DeletePath
  <2>2. Kept(p)' = K
    BY <2>1 DEF Kept, K
  <2>3. CASE UNCHANGED <<files, events>>
    <3>1. (Found(p)' => Found(p)) /\ (Coming(p) => Coming(p)')
      BY <2>1, <2>3 DEF Found, Coming
    <3> QED
      BY <1>s, <2>2, <2>3, <3>1 DEF e, R
  <2>4. CASE Told("delete", server.path)
    <3>1. server.path # p => (Coming(p) => Coming(p)')
      BY <2>1, <2>4 DEF Coming, Told
    <3> QED
      BY <1>f, <2>1, <2>2, <2>4, <3>1 DEF e, R
  <2> QED
    BY <2>1, <2>3, <2>4
<1>8. CASE Database!EndFailedSend \/ \E h \in Database!Handles : Database!DeleteObject(h)
  <2>1. UNCHANGED <<watcher, events, files>> /\ server.pc \in {"end", "idle"}
    BY <1>8 DEF Database!EndFailedSend, Database!DeleteObject
  <2>2. \A h \in Database!Handles : mObjectDb'[h] = p => mObjectDb[h] = p
    BY <1>8, <1>t DEF Database!EndFailedSend, Database!DeleteObject, Database!Erase
  <2>3. Kept(p)' \subseteq K
    BY <2>1, <2>2 DEF Kept, K
  <2> QED
    BY <1>s, <2>1, <2>3 DEF Found, Coming, e, R
<1>9. CASE Database!ReadEvent
  <2> DEFINE h == Head(events)
             m == Database!Min(Database!Known(p))
  <2>1. /\ UNCHANGED <<mObjectDb, files, server>> /\ events # << >> /\ events' = Tail(events)
        /\ watcher.pc = "idle" /\ watcher' = Database!Lookup(h.type, h.path)
    BY <1>9 DEF Database!ReadEvent
  <2>2. h \in Events
    BY <1>t, <2>1, HeadTailProperties
  <2>3. d = e + (IF h \in R THEN 1 ELSE 0) /\ e \in Nat
    <3>1. Tail(events) \in Seq(Events)
      BY <1>t, <2>1, HeadTailProperties
    <3> QED
      BY <1>t, <2>1, <3>1, TimesTail, TimesIsNat DEF d, e
  <2> HIDE DEF h
  <2>4. ~Found(p) /\ (Coming(p)' <=> Coming(p)) /\ K = Database!Known(p)
    BY <2>1 DEF Found, Coming, Kept, K, Database!Known
  <2>5. h \in R <=> h.path = p /\ h.type = "delete"
    BY <2>2 DEF R, Removal, Events
  <2>6. Kept(p)' \subseteq K
    BY <2>1, <2>4 DEF Kept, Database!Known
  <2>7. CASE h.path # p
    <3>1. ~Found(p)'
      BY <2>1, <2>7, <1>t DEF Found, Database!Lookup, Database!Idle
    <3>2. e = d
      BY <1>n, <2>3, <2>5, <2>7
    <3> QED
      BY <1>b, <1>l, <1>n, <2>4, <2>6, <3>1, <3>2, CoveredStill DEF e, R
  <2>8. CASE h.path = p /\ h.type = "create"
    <3>0. e = d
      BY <1>n, <2>3, <2>5, <2>8
    <3>1. CASE Database!Known(p) = {}
      <4>1. Kept(p)' = {}
        BY <2>4, <2>6, <3>1
      <4>2. Coming(p)' \/ e > 0
        <5>1. SUFFICES ASSUME p \notin files PROVE e > 0
          BY <2>1 DEF Coming
        <5>2. Tells(events', files) /\ (Silent(events', p) => Says(h, files))
          BY <1>t, <2>1, <2>8, TellsTail DEF h, EventsInv
        <5>3. ~Silent(events', p)
          BY <2>8, <5>1, <5>2 DEF Says
        <5>4. events' \in Seq(Events)
          BY <1>t, <2>1, HeadTailProperties
        <5> QED
          BY <5>1, <5>2, <5>3, <5>4, RemovalWaits DEF e, R
      <4> QED
        BY <2>3, <4>1, <4>2, CoveredNone DEF e, R
    <3>2. CASE Database!Known(p) # {}
      <4>1. ~Found(p)'
        BY <2>1, <2>8, <3>2 DEF Found, Database!Lookup, Database!Idle
      <4> QED
        BY <1>b, <1>l, <1>n, <2>4, <2>6, <3>0, <4>1, CoveredStill DEF e, R
    <3> QED
      BY <3>1, <3>2
  <2>9. CASE h.path = p /\ h.type = "delete"
    <3>0. d = e + 1
      BY <1>n, <2>3, <2>5, <2>9
    <3>f. ~Found(p)'
      BY <2>1, <2>9 DEF Found, Database!Lookup, Database!Idle
    <3>1. CASE Database!Known(p) = {}
      <4>1. Kept(p)' = {}
        BY <2>4, <2>6, <3>1
      <4> QED
        BY <2>3, <3>f, <4>1, CoveredNone DEF e, R
    <3>2. CASE Database!Known(p) # {}
      <4>1. m \in Database!Known(p)
        BY <3>2, LowestIs DEF Database!Known, Database!Handles
      <4> HIDE DEF m
      <4>2. watcher'.pc = "erase" /\ watcher'.handle = m
        BY <1>t, <2>1, <2>9, <3>2 DEF Database!Lookup, m
      <4>3. Kept(p)' \subseteq K \ {m}
        BY <2>6, <4>2 DEF Kept
      <4>4. Covered(K, FALSE, d, Coming(p))
        BY <1>b, <1>l, <2>4 DEF Covered
      <4>5. Covered(Kept(p)', FALSE, e, Coming(p))
        BY <1>n, <2>3, <2>4, <3>0, <4>1, <4>3, <4>4, CoveredLess
      <4> QED
        BY <2>4, <3>f, <4>5 DEF Covered, e, R
    <3> QED
      BY <3>1, <3>2
  <2> QED
    BY <2>2, <2>7, <2>8, <2>9 DEF Events
<1>10. CASE Database!TakeHandle
  <2>1. /\ UNCHANGED <<mObjectDb, events, files, server>> /\ watcher.pc = "take"
        /\ watcher'.pc = "insert" /\ watcher'.path = watcher.path
    BY <1>10, <1>t DEF Database!TakeHandle
  <2> QED
    BY <1>s, <2>1 DEF Kept, K, Found, Coming, e, R
<1>11. CASE Database!InsertFound
  <2>1. /\ UNCHANGED <<events, files, server>> /\ watcher.pc = "insert" /\ watcher'.pc = "idle"
        /\ watcher.handle \in Database!Handles
        /\ mObjectDb' = [mObjectDb EXCEPT ![watcher.handle] =
                           IF mObjectDb[watcher.handle] = Nobody THEN watcher.path ELSE mObjectDb[watcher.handle]]
    BY <1>11, <1>t DEF Database!InsertFound, Database!Insert, Database!Idle
  <2>2. ~Found(p)' /\ (Coming(p)' <=> Coming(p)) /\ e = d
    BY <2>1 DEF Found, Coming, d, e
  <2>3. CASE watcher.path = p
    <3>1. Kept(p)' \subseteq K \union {watcher.handle} /\ Found(p)
      BY <1>t, <2>1, <2>3 DEF Kept, K, Found
    <3>2. Covered(K, TRUE, d, Coming(p))
      BY <1>b, <1>l, <3>1 DEF Covered
    <3>3. Covered(Kept(p)', FALSE, d, Coming(p))
      BY <1>n, <3>1, <3>2, CoveredMoved
    <3>4. Covered(Kept(p)', Found(p)', e, Coming(p)')
      BY <2>2, <3>3 DEF Covered
    <3> QED
      BY <3>4 DEF e, R
  <2>4. CASE watcher.path # p
    <3>1. Kept(p)' \subseteq K
      BY <1>t, <2>1, <2>4 DEF Kept, K
    <3> QED
      BY <1>s, <2>1, <2>2, <3>1 DEF e, R
  <2> QED
    BY <2>3, <2>4
<1>12. CASE Database!EraseGone
  <2>1. /\ UNCHANGED <<events, files, server>> /\ watcher.pc = "erase" /\ watcher'.pc = "idle"
        /\ mObjectDb' = [mObjectDb EXCEPT ![watcher.handle] = Nobody]
    BY <1>12 DEF Database!EraseGone, Database!Erase, Database!Idle
  <2>2. Kept(p)' \subseteq K
    BY <1>t, <2>1 DEF Kept, K
  <2> QED
    BY <1>s, <2>1, <2>2 DEF Found, Coming, e, R
<1>13. CASE \/ Database!Mount \/ Database!ReadDirectory \/ Database!AddStorage \/ Database!SetMediaFlag
            \/ \E q \in Database!Paths : Database!ListNext(q)
  <2>1. UNCHANGED <<mObjectDb, events, files, server, watcher>>
    <3>1. CASE \E q \in Database!Paths : Database!ListNext(q)
      BY <3>1 DEF Database!ListNext
    <3>2. CASE ~(\E q \in Database!Paths : Database!ListNext(q))
      BY <1>13, <3>2 DEF Database!Mount, Database!ReadDirectory, Database!AddStorage, Database!SetMediaFlag
    <3> QED
      BY <3>1, <3>2
  <2> QED
    BY <1>s, <2>1 DEF Kept, K, Found, Coming, e, R
<1>14. CASE Database!InsertListed
  <2>1. /\ UNCHANGED <<events, files, server, watcher>> /\ media.pc = "insert"
        /\ media.handle \in Database!Handles
        /\ mObjectDb' = [mObjectDb EXCEPT ![media.handle] =
                           IF mObjectDb[media.handle] = Nobody THEN media.path ELSE mObjectDb[media.handle]]
    BY <1>14, <1>t DEF Database!InsertListed, Database!Insert
  <2>2. CASE media.path = p
    <3>1. ~Listed(p) /\ watcher.path # p /\ p \in files
      BY <1>l, <2>1, <2>2 DEF UnlistedInv, ToList
    <3>2. Kept(p)' \subseteq {media.handle}
      BY <1>t, <2>1, <3>1 DEF Kept, Listed
    <3>3. ~Found(p)' /\ Coming(p)'
      BY <2>1, <3>1 DEF Found, Coming
    <3>4. Covered(Kept(p)', FALSE, d, TRUE)
      BY <1>n, <3>2, CoveredOne
    <3> QED
      BY <2>1, <3>3, <3>4 DEF Covered, d, R
  <2>3. CASE media.path # p
    <3>1. Kept(p)' \subseteq K
      BY <1>t, <2>1, <2>3 DEF Kept, K
    <3> QED
      BY <1>s, <2>1, <3>1 DEF Found, Coming, e, R
  <2> QED
    BY <2>2, <2>3
<1>15. CASE \E q \in Database!Paths : (q \in LocalPaths /\ Database!OthersCreate(q)) \/ Database!OthersRemove(q)
  <2>1. PICK q \in Database!Paths : (q \in LocalPaths /\ Database!OthersCreate(q)) \/ Database!OthersRemove(q)
    BY <1>15
  <2>2. PICK type \in {"create", "delete"} : Told(type, q)
    BY <2>1, FileChanges DEF Database!OthersCreate, Database!OthersRemove
  <2>3. UNCHANGED <<media, watcher, mObjectDb, server>>
    BY <2>1 DEF Database!OthersCreate, Database!OthersRemove
  <2>4. Kept(p)' = K
    BY <2>3 DEF Kept, K
  <2>5. CASE media.pc = "mount"
    <3>1. K = {} /\ ~Found(p) /\ watcher.pc = "idle"
      BY <1>t, <2>5 DEF TypedInv, MediaTyped, Nothing, Database!Idle, K, Kept, Found
    <3>2. ~Found(p)' /\ events' = events
      BY <2>2, <2>3, <2>5, <3>1 DEF Found, Told
    <3>3. Covered({}, Found(p)', d, Coming(p)')
      BY <1>n, <3>2, CoveredNone
    <3> QED
      BY <2>4, <3>1, <3>2, <3>3 DEF d, R
  <2>6. CASE media.pc # "mount"
    <3>1. q # p => (Coming(p) => Coming(p)')
      BY <2>2, <2>3 DEF Coming, Told
    <3>2. type = "create" => Coming(q)'
      BY <2>2 DEF Coming, Told
    <3> QED
      BY <1>f, <2>2, <2>3, <2>4, <2>6, <3>1, <3>2 DEF e, R
  <2> QED
    BY <2>5, <2>6
<1> QED
  BY <1>1, <1>2, <1>3, <1>4, <1>5, <1>6, <1>7, <1>8, <1>9, <1>10, <1>11, <1>12, <1>13, <1>14, <1>15
  DEF Database!Next, Database!Server, Database!Watcher, Database!Media, Database!Paths, e, R

DbInv ==
  /\ TypedInv /\ EventsInv /\ HandlesInv /\ ListedInv /\ UnlistedInv /\ BalanceInv

LEMMA DbBegins ==
  ASSUME Database!Init, Constants
  PROVE  DbInv
<1>1. /\ events = << >> /\ Len(events) = 0 /\ server.pc = "idle" /\ watcher.pc = "idle" /\ media.pc = "mount"
      /\ watcher.path = Nobody /\ server.path = Nobody
      /\ \A h \in Database!Handles : mObjectDb[h] = Nobody
  BY EmptySeq DEF Database!Init, Database!Idle
<1>2. \A p \in Database!Paths : p # Nobody
  BY DEF Constants
<1>3. EventsInv
  BY <1>1 DEF EventsInv, Tells
<1>4. HandlesInv
  BY <1>1 DEF HandlesInv, GivenInv, ServersInv, WatchersInv, MediasInv, Sent
<1>5. ListedInv
  BY <1>1 DEF ListedInv, Accounted, ToList
<1>6. UnlistedInv
  BY <1>1, <1>2 DEF UnlistedInv, Listed, Silent
<1>7. BalanceInv
  <2> SUFFICES ASSUME NEW p \in Database!Paths \ loose
               PROVE  Covered(Kept(p), Found(p), Times(events, Removal(p)), Coming(p))
    BY DEF BalanceInv
  <2>1. Kept(p) = {} /\ ~Found(p)
    BY <1>1, <1>2 DEF Kept, Found
  <2>2. Times(events, Removal(p)) \in Nat
    BY TimesIsNat, DatabaseBegins DEF TypedInv, DatabaseTyped
  <2> QED
    BY <2>1, <2>2, CoveredNone
<1> QED
  BY <1>3, <1>4, <1>5, <1>6, <1>7, DatabaseBegins DEF DbInv

LEMMA DbKept ==
  ASSUME DbInv, Constants, Database!Next
  PROVE  DbInv'
<1>t. TypedInv
  BY DEF DbInv
<1>1. TypedInv'
  <2>1. CASE Database!Server
    BY <1>t, <2>1, TypedServer
  <2>2. CASE Database!Watcher
    BY <1>t, <2>2, TypedWatcher
  <2>3. CASE Database!Media
    BY <1>t, <2>3, TypedMedia
  <2>4. CASE \E p \in Database!Paths : (p \in LocalPaths /\ Database!OthersCreate(p)) \/ Database!OthersRemove(p)
    BY <1>t, <2>4, TypedOthers
  <2> QED
    BY <2>1, <2>2, <2>3, <2>4 DEF Database!Next, Database!Paths
<1> QED
  BY <1>1, EventsKept, HandlesKept, ListedKept, UnlistedKept, BalanceKept DEF DbInv

LEMMA DbStutters ==
  ASSUME DbInv, UNCHANGED databaseVars
  PROVE  DbInv'
<1> USE DEF databaseVars, DbInv
<1>1. TypedInv'
  BY DEF TypedInv, DatabaseTyped, ServerTyped, WatcherTyped, MediaTyped, Nothing
<1>2. EventsInv'
  BY DEF EventsInv
<1>3. HandlesInv'
  BY DEF HandlesInv, GivenInv, Given, ServersInv, WatchersInv, MediasInv
<1>4. ListedInv'
  BY DEF ListedInv, Accounted, ToList, Found, ToUnlink, Listed
<1>5. UnlistedInv'
  BY DEF UnlistedInv, ToList, Listed
<1>6. BalanceInv'
  BY DEF BalanceInv, Kept, Found, Coming
<1> QED
  BY <1>1, <1>2, <1>3, <1>4, <1>5, <1>6

LEMMA DbPromise ==
  ASSUME DbInv, Constants
  PROVE  Database!TypeOK /\ Database!EveryFileIsListed /\ Database!EveryObjectHasItsFile
<1>t. TypedInv /\ (server.pc # "unlink" \/ server.path # Nobody)
  BY DEF DbInv, TypedInv, ServerTyped, Constants, Nothing, Database!Idle
<1>1. Database!TypeOK
  <2>1. /\ mObjectDb \in [Database!Handles -> Database!Paths \union {Nobody}]
        /\ mHandleId \in 1 .. MaxHandle
        /\ files \subseteq Database!Paths /\ loose \subseteq Database!Paths
        /\ media.todo \subseteq Database!Paths
    BY <1>t DEF TypedInv, DatabaseTyped, MediaTyped, Database!Handles
  <2>2. \A i \in 1 .. Len(events) : events[i] \in [type : {"create", "delete"}, path : Database!Paths]
    <3>1. events \in Seq(Events)
      BY <1>t DEF TypedInv, DatabaseTyped
    <3>2. \A i \in 1 .. Len(events) : events[i] \in Events
      BY <3>1
    <3> QED
      BY <3>2 DEF Events
  <2>3. \A t \in {server, watcher} :
          /\ t.pc = "idle" <=> t = Database!Idle
          /\ t.path \in Database!Paths \union {Nobody} /\ t.handle \in 0 .. MaxHandle
    <3>1. Database!Handles \subseteq 0 .. MaxHandle /\ 0 \in 0 .. MaxHandle
      BY DEF Database!Handles, Constants
    <3>2. /\ server.pc = "idle" <=> server = Database!Idle
          /\ server.path \in Database!Paths \union {Nobody} /\ server.handle \in 0 .. MaxHandle
      <4>1. CASE server = Nothing
        <5>1. server = [pc |-> "idle", path |-> Nobody, handle |-> 0]
          BY <4>1 DEF Nothing, Database!Idle
        <5>2. server.pc = "idle" /\ server.path = Nobody /\ server.handle = 0
          BY <5>1
        <5> QED
          BY <3>1, <4>1, <5>2 DEF Nothing
      <4>2. CASE server \in [pc : {"insert", "count", "await", "write", "end", "unlink"},
                             path : Database!Paths, handle : Database!Handles]
        <5>1. server.pc # "idle" /\ server.path \in Database!Paths /\ server.handle \in 0 .. MaxHandle
          BY <3>1, <4>2
        <5>2. server # Database!Idle
          BY <5>1 DEF Database!Idle
        <5> QED
          BY <5>1, <5>2
      <4> QED
        BY <1>t, <4>1, <4>2 DEF TypedInv, ServerTyped
    <3>3. /\ watcher.pc = "idle" <=> watcher = Database!Idle
          /\ watcher.path \in Database!Paths \union {Nobody} /\ watcher.handle \in 0 .. MaxHandle
      BY <1>t, <3>1 DEF TypedInv, WatcherTyped, Nothing, Database!Idle
    <3> QED
      BY <3>2, <3>3
  <2>4. mMediaFlag \in MediaFlag .. MediaFlag + 1
    <3>1. MediaFlag \in Nat /\ (mMediaFlag = MediaFlag \/ mMediaFlag = MediaFlag + 1)
      BY <1>t DEF TypedInv, MediaTyped, Constants
    <3> QED
      BY <3>1
  <2> QED
    BY <2>1, <2>2, <2>3, <2>4 DEF Database!TypeOK
<1>s. Database!AtRest => /\ \A p : Silent(events, p) /\ ~Found(p) /\ ~ToUnlink(p) /\ ~ToList(p)
                        /\ watcher.pc = "idle" /\ events = << >>
  BY EmptySeq DEF Database!AtRest, Silent, Found, ToUnlink, ToList, Database!Idle
<1>2. Database!EveryFileIsListed
  BY <1>s DEF DbInv, ListedInv, Accounted, Listed, Database!EveryFileIsListed, Database!Known
<1>3. Database!EveryObjectHasItsFile
  <2> SUFFICES ASSUME Database!AtRest, server = Database!Idle, NEW p \in Database!Paths \ loose,
                      Database!Known(p) # {}, p \notin files
               PROVE  FALSE
    BY DEF Database!EveryObjectHasItsFile
  <2>1. Kept(p) = Database!Known(p) /\ ~Found(p) /\ ~Coming(p)
    BY <1>s DEF Kept, Database!Known, Coming, Database!Idle
  <2>2. Times(events, Removal(p)) = 0
    BY <1>s, TimesEmpty
  <2>3. Cardinality(Database!Known(p)) <= 0
    <3>1. Covered(Kept(p), Found(p), Times(events, Removal(p)), Coming(p))
      BY DEF DbInv, BalanceInv
    <3>2. Cardinality(Kept(p)) + 0 <= 0 + 0
      BY <2>1, <2>2, <3>1 DEF Covered
    <3>3. IsFiniteSet(Database!Handles) /\ Kept(p) \subseteq Database!Handles
      BY FS_Interval DEF Database!Handles, Constants, Kept
    <3>4. Cardinality(Kept(p)) \in Nat
      BY <3>3, FS_Subset, FS_CardinalityType
    <3> QED
      BY <2>1, <3>2, <3>4
  <2>4. IsFiniteSet(Database!Known(p))
    <3>1. IsFiniteSet(Database!Handles) /\ Database!Known(p) \subseteq Database!Handles
      BY FS_Interval DEF Database!Handles, Constants, Database!Known
    <3> QED
      BY <3>1, FS_Subset
  <2>5. Cardinality(Database!Known(p)) \in Nat
    BY <2>4, FS_CardinalityType
  <2>6. Cardinality(Database!Known(p)) = 0
    BY <2>3, <2>5
  <2> QED
    BY <2>4, <2>6, FS_EmptySet
<1> QED
  BY <1>1, <1>2, <1>3

(* With another storage there already, and no file that both the host and  *)
(* other programs make, the daemon's objects follow the files whatever the *)
(* server's, the watch and the media thread and other programs do, and in  *)
(* whatever order (MyMtpDatabase, inotifyWatchHandler, addExternalStorage). *)
THEOREM ObjectsFollowFilesAlways ==
  ASSUME MediaFlag # 0, HostPaths \intersect LocalPaths = {}
  PROVE  MediaSpec => []ObjectsFollowFiles
<1>0. Constants
  BY MtpAssumption DEF Constants, Database!MtpDatabaseAssumption, Database!Paths
<1>1. MediaInit => DbInv
  BY <1>0, DbBegins DEF MediaInit
<1>2. DbInv /\ [MediaNext]_<<vars, tagVars, parameterVars, databaseVars, folderVars,
                     deviceVars, packetVars, regionVars, sampleVars, used>> => DbInv'
  <2> SUFFICES ASSUME DbInv, [MediaNext]_<<vars, tagVars, parameterVars, databaseVars, folderVars,
                     deviceVars, packetVars, regionVars, sampleVars, used>>
               PROVE  DbInv'
    OBVIOUS
  <2>1. CASE Database!Next
    BY <1>0, <2>1, DbKept
  <2>2. CASE UNCHANGED databaseVars
    BY <2>2, DbStutters
  <2> QED
    BY <2>1, <2>2 DEF MediaNext, OfMetadata, OfTags, OfParameters, OfDatabase, OfFolders, OfDevice,
                      OfPackets, OfRegion, OfSamples
<1>3. DbInv => ObjectsFollowFiles
  BY <1>0, DbPromise DEF ObjectsFollowFiles
<1> QED
  BY <1>1, <1>2, <1>3, PTL DEF MediaSpec

=============================================================================
