----------------------------- MODULE MtpServer -----------------------------
(***************************************************************************)
(* The server of the MTP daemon, av/media/mtp/MtpServer.cpp: the loop of   *)
(* run(), which reads a request, for some its data, handles it and writes  *)
(* data and a response, and what the handlers keep: the session, the       *)
(* storages, the object that is being sent and the edits of objects.  A    *)
(* host sends one request after another over the USB driver and may cancel *)
(* the one it waits for at any time; other threads add and remove storages *)
(* and stop the server.                                                    *)
(***************************************************************************)
EXTENDS Integers, Sequences, FiniteSets, FiniteSetsExt, SequencesExt, TLC

CONSTANTS
  NumHandles,  \* bound: objects
  MaxSize,     \* bound: the size of a file
  NumIds       \* bound: transaction ids, which are used again

ASSUME MtpServerAssumption ==
  NumHandles \in Nat \ {0} /\ MaxSize \in Nat /\ NumIds \in Nat \ {0, 1}

Handles == 1 .. NumHandles
Sizes == 0 .. MaxSize
Ids == 0 .. NumIds - 1
Invalid == 0   \* kInvalidObjectHandle, or a handle nobody was given

(* Operations by what their handlers ask for and give.  Queries make data  *)
(* and change nothing, as does GetObject, whose data the driver takes from *)
(* the file; four requests have a data phase that run() reads, two one     *)
(* that the handler reads.                                                 *)
SessionQueries == {"GetStorageIDs", "GetObjectHandles"}
StorageQueries == {"GetObjectHandles", "GetObjectInfo"}
Queries == SessionQueries \union StorageQueries \union {"GetDeviceInfo"}
DataIn == {"SendObjectInfo", "SendFolderInfo", "SetObjectPropValue"}
DataToHandler == {"SendObject", "SendPartialObject"}
NeedStorage ==
  StorageQueries \union DataIn \union DataToHandler \union {"DeleteObject", "GetObject"}

(* Parameters: an object, where and how much; few: there are not enough.   *)
Request(op, h, offset, length) ==
  [op |-> op, few |-> FALSE, handle |-> h, offset |-> offset, length |-> length]
Requests ==
  {Request(op, Invalid, 0, 0) :
     op \in Queries \union {"OpenSession", "CloseSession", "SendFolderInfo", "SendObject"}}
  \union {[Request("BeginEditObject", Invalid, 0, 0) EXCEPT !.few = TRUE]}
  \union {Request("SendObjectInfo", Invalid, 0, n) : n \in Sizes}
  \union {Request(op, h, 0, 0) : h \in Handles,
            op \in {"SetObjectPropValue", "GetObject", "DeleteObject",
                    "BeginEditObject", "EndEditObject"}}
  \union {Request("TruncateObject", h, n, 0) : h \in Handles, n \in Sizes}
  \union {Request("SendPartialObject", h, r[1], r[2]) : h \in Handles,
            r \in {r \in Sizes \X Sizes : r[1] + r[2] <= MaxSize}}
Nothing == Request("none", Invalid, 0, 0)

VARIABLES
  host,       \* what the host does, and the id of its last request
  toDevice,   \* containers on their way to the server
  toHost,     \* containers on their way to the host
  driver,     \* "ready", "offline" or, before it has told, "canceled"
  pc,         \* where run() is
  request,    \* mRequest: the request and its id
  mData,      \* "empty", "received" from the host or "made" for it
  mSessionOpen,
  mStorages,  \* whether there is one
  mSendObjectHandle,
  objects,    \* the database: the state and the size of each object
  files,      \* the size of the file of each object
  mObjectEditList,
  mNeedStop,
  late,       \* history: whether a handler took a cancellation for an error
  cut         \* history: objects open for edit of which a part was not written
              \* whole and answered as if it had been

usbVars == <<host, toDevice, toHost, driver>>
loopVars == <<pc, request, mData>>
editVars == <<mObjectEditList, cut>>
objectVars == <<objects, files, editVars>>
stateVars == <<mSessionOpen, mSendObjectHandle, objectVars>>
otherVars == <<mStorages, mNeedStop>>
vars == <<usbVars, loopVars, stateVars, otherVars, late>>

NoRequest == [cmd |-> Nothing, id |-> 0]
NoObject == [state |-> "none", size |-> 0]

Init ==
  /\ host = [pc |-> "idle", id |-> 0]
  /\ toDevice = <<>> /\ toHost = <<>> /\ driver = "ready"
  /\ pc = "request" /\ request = NoRequest
  /\ mData = "empty"
  /\ mSessionOpen = FALSE /\ mStorages \in BOOLEAN
  /\ mSendObjectHandle = Invalid
  /\ files = [h \in Handles |-> 0]
  /\ objects = [h \in Handles |-> NoObject]
  /\ mObjectEditList = <<>>
  /\ mNeedStop = FALSE /\ late = FALSE /\ cut = {}

-----------------------------------------------------------------------------
(* The host, which waits for the response to a request before the next one *)

HostRequests(r) ==
  /\ host.pc = "idle" /\ driver = "ready"
  /\ host' = [pc |-> IF r.op \in DataIn \union DataToHandler THEN "data" ELSE "wait",
              id |-> (host.id + 1) % NumIds]
  /\ toDevice' = Append(toDevice, [type |-> "command", id |-> host'.id, cmd |-> r])
  /\ UNCHANGED <<toHost, driver, loopVars, stateVars, otherVars, late>>

HostSendsData ==
  /\ host.pc = "data"
  /\ host' = [host EXCEPT !.pc = "wait"]
  /\ toDevice' = Append(toDevice, [type |-> "data", id |-> host.id, cmd |-> Nothing])
  /\ UNCHANGED <<toHost, driver, loopVars, stateVars, otherVars, late>>

HostReceives ==
  /\ host.pc = "wait" /\ toHost # <<>>
  /\ toHost' = Tail(toHost)
  /\ host' = IF Head(toHost).type = "response" /\ Head(toHost).id = host.id
             THEN [host EXCEPT !.pc = "idle"] ELSE host
  /\ UNCHANGED <<toDevice, driver, loopVars, stateVars, otherVars, late>>

(* The driver drops what is on its way; a call that is blocked fails, and  *)
(* so does the next one, after which the driver is ready again.            *)
HostCancels ==
  /\ host.pc \in {"data", "wait"} /\ driver = "ready"
  /\ host' = [host EXCEPT !.pc = "idle"]
  /\ toDevice' = <<>> /\ toHost' = <<>>
  /\ driver' \in IF pc \in {"request", "data", "receive", "transfer", "sendfile"}
                 THEN {"blocked", "canceled"} ELSE {"canceled"}
  /\ UNCHANGED <<loopVars, stateVars, otherVars, late>>

Unplug ==
  /\ driver # "offline"
  /\ driver' = "offline"
  /\ host' = [host EXCEPT !.pc = "gone"]
  /\ toDevice' = <<>> /\ toHost' = <<>>
  /\ UNCHANGED <<loopVars, stateVars, otherVars, late>>

(* A call of the driver that fails with ECANCELED.                         *)
Canceled ==
  /\ driver \in {"blocked", "canceled"}
  /\ driver' = IF driver = "blocked" THEN "canceled" ELSE "ready"

(* A call that succeeds: it reads the next container, or writes one.       *)
Reads(type) ==
  /\ driver = "ready" /\ toDevice # <<>> /\ Head(toDevice).type = type
  /\ toDevice' = Tail(toDevice)
Writes(type, made) ==
  /\ driver = "ready"
  /\ toHost' = Append(toHost, [type |-> type, id |-> request.id, made |-> made])

-----------------------------------------------------------------------------
(* run() *)

(* Back to the top: nothing reads the old request and data again.          *)
Top ==
  /\ pc' = IF mNeedStop THEN "exit" ELSE "request"
  /\ request' = NoRequest /\ mData' = "empty"

ReadRequest ==
  /\ pc = "request" /\ Reads("command")
  /\ request' = [cmd |-> Head(toDevice).cmd, id |-> Head(toDevice).id]
  /\ IF request'.cmd.op \in DataIn
     THEN pc' = "data" /\ UNCHANGED mData
     ELSE pc' = "handle" /\ mData' = "empty"
  /\ UNCHANGED <<host, toHost, driver, stateVars, otherVars, late>>

(* A data phase no handler has read: as a request it is malformed, and the *)
(* loop ends unless errno is ECANCELED still, or of the wrong type, which  *)
(* handleRequest() leaves without a response.                              *)
ReadStrayData ==
  /\ pc = "request" /\ Reads("data")
  /\ \/ Top
     \/ pc' = "exit" /\ UNCHANGED <<request, mData>>
  /\ mSendObjectHandle' \in {mSendObjectHandle, Invalid}
  /\ UNCHANGED <<host, toHost, driver, mSessionOpen, objectVars, otherVars, late>>

ReadData ==
  /\ pc = "data" /\ Reads("data")
  /\ mData' = "received"
  /\ pc' = "handle"
  /\ UNCHANGED <<host, toHost, driver, request, stateVars, otherVars, late>>

(* Any of run()'s own calls that fails: ECANCELED or another error.        *)
CallFails ==
  /\ pc \in {"request", "data", "send", "respond"}
  /\ \/ Canceled /\ Top
     \/ driver = "offline" /\ pc' = "exit" /\ UNCHANGED <<driver, request, mData>>
  /\ UNCHANGED <<host, toDevice, toHost, stateVars, otherVars, late>>

SendData ==
  /\ pc = "send" /\ Writes("data", mData = "made")
  /\ pc' = "respond"
  /\ UNCHANGED <<host, toDevice, driver, request, mData, stateVars, otherVars, late>>

Respond ==
  /\ pc = "respond" /\ Writes("response", FALSE)
  /\ Top
  /\ UNCHANGED <<host, toDevice, driver, stateVars, otherVars, late>>

(* endSendObject() of an object that is there: its size is its file's.     *)
Committed(hs) ==
  [h \in Handles |-> IF h \in hs /\ objects[h].state # "none"
                     THEN [state |-> "kept", size |-> files[h]] ELSE objects[h]]
Edited == {mObjectEditList[i].handle : i \in DOMAIN mObjectEditList}

(* The open edits are committed at the end; a variant drops them.          *)
ExitDropping ==
  /\ pc = "exit"
  /\ pc' = "ended" /\ mObjectEditList' = <<>> /\ cut' = {}
  /\ UNCHANGED <<usbVars, request, mData, mSessionOpen, mSendObjectHandle,
                 objects, files, otherVars, late>>

Exit ==
  /\ pc = "exit"
  /\ pc' = "ended" /\ mObjectEditList' = <<>> /\ cut' = {}
  /\ objects' = Committed(Edited)
  /\ UNCHANGED <<usbVars, request, mData, mSessionOpen, mSendObjectHandle,
                 files, otherVars, late>>

-----------------------------------------------------------------------------
(* handleRequest() *)

cmd == request.cmd

(* Nothing reads the parameters of the request after its handler.          *)
Done == request' = [request EXCEPT !.cmd = Nothing]

(* The handler returns: run() sends the data there is and a response.      *)
ReturnsWith(data) ==
  /\ mData' = data
  /\ pc' = IF data # "empty" /\ cmd.op \notin DataIn THEN "send" ELSE "respond"
  /\ Done
  /\ UNCHANGED <<usbVars, otherVars, late>>
Returns == ReturnsWith(mData)

(* TRANSACTION_CANCELLED: no response; a variant sends one.                *)
CanceledAnswering == Canceled /\ pc' = "respond" /\ mData' = "empty" /\ UNCHANGED request
ReturnsCanceled == Canceled /\ Top

(* "FIXME - need to delete mSendObjectHandle from the database"            *)
Begins(op) == pc = "handle" /\ cmd.op = op
Forget == mSendObjectHandle' = Invalid

(* The early returns of the handlers without a data phase left to read; a  *)
(* variant forgets to respond.                                             *)
Refuses ==
  \/ cmd.few
  \/ cmd.op \in SessionQueries /\ ~mSessionOpen
  \/ cmd.op \in NeedStorage /\ ~mStorages
RefuseSilently ==
  /\ pc = "handle" /\ cmd.op \notin DataToHandler /\ Refuses
  /\ Top /\ Forget
  /\ UNCHANGED <<usbVars, mSessionOpen, objectVars, otherVars, late>>

Refuse ==
  /\ pc = "handle" /\ cmd.op \notin DataToHandler /\ Refuses
  /\ Returns /\ Forget
  /\ UNCHANGED <<mSessionOpen, objectVars>>

Answers(op) == Begins(op) /\ ~Refuses

(* Queries make data, unless the database has none to give; properties of  *)
(* objects are the database's.                                             *)
Query ==
  /\ \E op \in Queries : Answers(op)
  /\ \/ ReturnsWith("made") \/ Returns
  /\ Forget /\ UNCHANGED <<mSessionOpen, objectVars>>

SetObjectPropValue ==
  /\ Answers("SetObjectPropValue")
  /\ Returns
  /\ Forget /\ UNCHANGED <<mSessionOpen, objectVars>>

OpenSession ==
  /\ Answers("OpenSession")
  /\ Returns
  /\ mSessionOpen' = TRUE
  /\ Forget /\ UNCHANGED objectVars

CloseSession ==
  /\ Answers("CloseSession")
  /\ Returns
  /\ mSessionOpen' = FALSE
  /\ Forget /\ UNCHANGED objectVars

(* A new object, unless the storage, the name or the database refuse it: a *)
(* file, whose data comes with SendObject, or a folder, which is ended as  *)
(* soon as it is made, and left as it is if it cannot be made.             *)
SendObjectInfo ==
  /\ Answers("SendObjectInfo")
  /\ \/ Returns /\ mSendObjectHandle' = Invalid /\ UNCHANGED objectVars
     \/ \E h \in Handles \ Edited :
          /\ objects[h].state = "none"
          /\ objects' = [objects EXCEPT ![h] = [state |-> "begun", size |-> cmd.length]]
          /\ files' = [files EXCEPT ![h] = 0]
          /\ mSendObjectHandle' = h
          /\ Returns /\ UNCHANGED editVars
  /\ UNCHANGED mSessionOpen

SendFolderInfo ==
  /\ Answers("SendFolderInfo")
  /\ \/ Returns /\ UNCHANGED objects
     \/ \E h \in Handles \ Edited, made \in BOOLEAN :
          /\ objects[h].state = "none"
          /\ objects' = [objects EXCEPT
                           ![h] = [state |-> IF made THEN "folder" ELSE "begun", size |-> 0]]
          /\ Returns
  /\ Forget /\ UNCHANGED <<mSessionOpen, files, editVars>>

(* The object goes before its file; an edit of it stays open.              *)
DeleteObject ==
  /\ Answers("DeleteObject")
  /\ Returns
  /\ objects' = [objects EXCEPT ![cmd.handle] = NoObject]
  /\ Forget /\ UNCHANGED <<mSessionOpen, files, editVars>>

GetObject ==
  /\ Answers("GetObject")
  /\ IF objects[cmd.handle].state = "none" THEN Returns
     ELSE /\ pc' = "sendfile"
          /\ UNCHANGED <<usbVars, request, mData, otherVars, late>>
  /\ Forget /\ UNCHANGED <<mSessionOpen, objectVars>>

(* The driver sends the file, with a header of its own, or fails.          *)
SendFile ==
  /\ pc = "sendfile"
  /\ \/ Writes("data", TRUE) /\ pc' = "respond" /\ Done /\ UNCHANGED <<driver, mData>>
     \/ ReturnsCanceled /\ UNCHANGED toHost
     \/ pc' = "respond" /\ Done /\ UNCHANGED <<driver, toHost, mData>>
  /\ UNCHANGED <<host, toDevice, stateVars, otherVars, late>>

(* SendObject.  Without a storage, or an object that was begun, it returns *)
(* before it reads the data phase; the first leaves what was begun.        *)
Discard == objects' = [h \in Handles |-> IF h = mSendObjectHandle THEN NoObject ELSE objects[h]]

SendObject ==
  /\ Begins("SendObject")
  /\ IF ~mStorages THEN Returns /\ UNCHANGED mSendObjectHandle
     ELSE IF mSendObjectHandle = Invalid THEN Returns /\ UNCHANGED mSendObjectHandle
     ELSE /\ pc' = "receive"
          /\ UNCHANGED <<usbVars, request, mData, otherVars, late, mSendObjectHandle>>
  /\ UNCHANGED <<mSessionOpen, objectVars>>

(* Where the edit of the request's object is, if it is open for edit.      *)
IsOpen == cmd.handle \in Edited
Edit ==
  LET found == {i \in DOMAIN mObjectEditList : mObjectEditList[i].handle = cmd.handle}
  IN CHOOSE i \in found : \A j \in found : i <= j
WithEdit(size) == mObjectEditList' = [mObjectEditList EXCEPT ![Edit].size = size]

(* SendPartialObject, refused before it reads its data if the object is    *)
(* not open for edit or the data would begin past its end.                 *)
SendPartialObject ==
  /\ Begins("SendPartialObject")
  /\ IF Refuses \/ ~IsOpen \/ cmd.offset > mObjectEditList[Edit].size THEN Returns
     ELSE /\ pc' = "receive"
          /\ UNCHANGED <<usbVars, request, mData, otherVars, late>>
  /\ Forget /\ UNCHANGED <<mSessionOpen, objectVars>>

(* mData.read(): the first part of the data.  The file of a new object is  *)
(* created; if it cannot be, the rest of the data may stay unread.         *)
Receive ==
  /\ pc = "receive" /\ Reads("data")
  /\ mData' = "received" /\ pc' = "transfer"
  /\ UNCHANGED <<host, toHost, driver, request, stateVars, otherVars, late>>

CreateFails ==
  /\ pc = "receive" /\ cmd.op = "SendObject"
  /\ driver = "ready" /\ toDevice # <<>> /\ toDevice' \in {toDevice, Tail(toDevice)}
  /\ mData' = "empty" /\ pc' = "respond" /\ Done
  /\ Discard /\ Forget
  /\ UNCHANGED <<host, toHost, driver, mSessionOpen, files, editVars,
                 otherVars, late>>

(* Any failure to read is an error, a cancellation too.                    *)
ReceiveFails ==
  /\ pc = "receive"
  /\ \/ Canceled /\ late' = TRUE
     \/ driver = "offline" /\ UNCHANGED <<driver, late>>
  /\ pc' = "respond" /\ Done
  /\ IF cmd.op = "SendObject" THEN Discard /\ Forget ELSE UNCHANGED <<objects, mSendObjectHandle>>
  /\ UNCHANGED <<host, toDevice, toHost, mData, mSessionOpen, files,
                 editVars, otherVars>>

(* write() puts the first part of the data into the file, and the rest, if *)
(* there is any, is the driver's to transfer.  A write() that is cut short *)
(* is no failure: nothing is left for the driver, the object is kept, and  *)
(* has the size its file has got.                                          *)
ObjectSent ==
  /\ pc = "transfer" /\ cmd.op = "SendObject"
  /\ \E n \in 0 .. objects[mSendObjectHandle].size :
       /\ files' = [files EXCEPT ![mSendObjectHandle] = n]
       /\ objects' = [objects EXCEPT ![mSendObjectHandle] = [state |-> "kept", size |-> n]]
  /\ ReturnsWith("empty")
  /\ Forget /\ UNCHANGED <<mSessionOpen, editVars>>

ObjectLost ==
  /\ pc = "transfer" /\ cmd.op = "SendObject"
  /\ \/ ReturnsCanceled
     \/ pc' = "respond" /\ mData' = "empty" /\ Done /\ UNCHANGED driver
  /\ Discard /\ Forget
  /\ UNCHANGED <<host, toDevice, toHost, mSessionOpen, files, editVars,
                 otherVars, late>>

(* What is transferred changes the size of the edit, unless it fails.  A   *)
(* pwrite() of the first part of the data that is cut short is no failure: *)
(* the edit grows by all of the data.                                      *)
Grown(size, n) == IF n = 0 THEN size ELSE Max({size, cmd.offset + n})

(* Of data that should have made the file longer not all was written; or   *)
(* all was, up to where the edit takes the file to end.                    *)
CutShort(n) == n < cmd.length /\ files[cmd.handle] < cmd.offset + cmd.length
MadeWhole(n) == 0 < n /\ n = cmd.length /\ mObjectEditList[Edit].size <= cmd.offset + n

PartSent ==
  /\ pc = "transfer" /\ cmd.op = "SendPartialObject"
  /\ \E n \in 0 .. cmd.length :
       /\ files' = [files EXCEPT ![cmd.handle] = Grown(@, n)]
       /\ cut' = IF CutShort(n) THEN cut \union {cmd.handle}
                 ELSE IF MadeWhole(n) THEN cut \ {cmd.handle} ELSE cut
  /\ WithEdit(Grown(mObjectEditList[Edit].size, cmd.length))
  /\ ReturnsWith("empty")
  /\ UNCHANGED <<mSessionOpen, mSendObjectHandle, objects>>

PartLost ==
  /\ pc = "transfer" /\ cmd.op = "SendPartialObject"
  /\ \E n \in 0 .. cmd.length :
       files' = [files EXCEPT ![cmd.handle] = Grown(@, n)]
  /\ \/ ReturnsCanceled /\ UNCHANGED <<host, toDevice, toHost, otherVars, late>>
     \/ Returns
  /\ UNCHANGED <<mSessionOpen, mSendObjectHandle, objects, editVars>>

TruncateObject ==
  /\ Answers("TruncateObject")
  /\ \/ Returns /\ UNCHANGED <<files, editVars>>
     \/ /\ IsOpen
        /\ files' = [files EXCEPT ![cmd.handle] = cmd.offset]
        /\ WithEdit(cmd.offset) /\ cut' = cut \ {cmd.handle}
        /\ Returns
  /\ Forget /\ UNCHANGED <<mSessionOpen, objects>>

(* An object is open for edit once; its file may not open.                 *)
BeginEditObject ==
  /\ Answers("BeginEditObject")
  /\ \/ Returns /\ UNCHANGED editVars
     \/ /\ ~IsOpen /\ objects[cmd.handle].state = "kept"
        /\ mObjectEditList' =
             Append(mObjectEditList, [handle |-> cmd.handle, size |-> files[cmd.handle]])
        /\ Returns /\ UNCHANGED cut
  /\ Forget /\ UNCHANGED <<mSessionOpen, objects, files>>

EndEditObject ==
  /\ Answers("EndEditObject")
  /\ IF ~IsOpen THEN Returns /\ UNCHANGED <<objects, editVars>>
     ELSE /\ objects' = Committed({cmd.handle})
          /\ mObjectEditList' = RemoveAt(mObjectEditList, Edit)
          /\ cut' = cut \ {cmd.handle}
          /\ Returns
  /\ Forget /\ UNCHANGED <<mSessionOpen, files>>

HandleRequest ==
  \/ Refuse \/ Query \/ SetObjectPropValue \/ OpenSession \/ CloseSession
  \/ SendObjectInfo \/ SendFolderInfo \/ DeleteObject \/ GetObject \/ SendFile
  \/ SendObject \/ SendPartialObject \/ Receive \/ CreateFails \/ ReceiveFails
  \/ ObjectSent \/ ObjectLost \/ PartSent \/ PartLost
  \/ TruncateObject \/ BeginEditObject \/ EndEditObject

-----------------------------------------------------------------------------
(* Other threads: addStorage() and removeStorage() take mMutex, stop() not *)

ChangeStorages ==
  /\ pc \notin {"receive", "transfer", "sendfile"}
  /\ mStorages' = ~mStorages
  /\ UNCHANGED <<usbVars, loopVars, stateVars, mNeedStop, late>>

Stop ==
  /\ ~mNeedStop /\ mNeedStop' = TRUE
  /\ UNCHANGED <<usbVars, loopVars, stateVars, mStorages, late>>

-----------------------------------------------------------------------------
Run == ReadRequest \/ ReadStrayData \/ ReadData \/ CallFails \/ SendData \/ Respond \/ Exit

Next ==
  \/ \E r \in Requests : HostRequests(r)
  \/ HostSendsData \/ HostReceives \/ HostCancels \/ Unplug
  \/ Run \/ HandleRequest
  \/ ChangeStorages \/ Stop

(* A host that has begun a request goes on with it, and the server's       *)
(* thread, whose calls of the driver return, does too.                     *)
Fairness == WF_vars(Run \/ HandleRequest) /\ WF_vars(HostSendsData) /\ WF_vars(HostReceives)

Spec == Init /\ [][Next]_vars /\ Fairness

-----------------------------------------------------------------------------
(* Properties *)

(* The calls under way, the objects and the edits are what they should be, *)
(* an object is open for edit at most once, and no edit is open, and no    *)
(* request under way, when the server has ended.                           *)
TypeOK ==
  /\ driver \in {"ready", "blocked", "canceled", "offline"}
  /\ mSendObjectHandle \in Handles \union {Invalid}
  /\ objects \in [Handles -> [state : {"none", "begun", "kept", "folder"}, size : Sizes]]
  /\ files \in [Handles -> Sizes]
  /\ mObjectEditList \in Seq([handle : Handles, size : Sizes])
  /\ Cardinality(Edited) = Len(mObjectEditList)
  /\ pc = "ended" => mObjectEditList = <<>>
  /\ cut \subseteq Handles

(* What the host gets belongs to the request it waits for, and nothing     *)
(* comes after the response: whoever cancels a request hears no more of it *)
(* (but for a handler that takes the cancellation for an error).           *)
AnswersAreInStep ==
  ~late => \A i \in DOMAIN toHost :
    /\ host.pc # "idle" /\ toHost[i].id = host.id
    /\ toHost[i].type = "response" <=> i = Len(toHost) /\ pc \notin {"send", "respond", "sendfile"}

(* Both, as it takes the right state for the answers to be the right ones. *)
AnswersKeepStep == TypeOK /\ AnswersAreInStep

(* The database knows the size of each file that is not being written,     *)
(* whatever was refused, lost, cut short or cancelled, and after the end   *)
(* too.  And an edit never believes its file larger than it is, so that no *)
(* data is accepted past its end: whatever failed or was cancelled since   *)
(* it began, but for a pwrite() that was cut short and taken for success   *)
(* since its size was last known.                                          *)
SizesAreCurrent ==
  /\ \A h \in Handles \ Edited : objects[h].state = "kept" /\ pc # "exit" =>
       objects[h].size = files[h]
  /\ \A i \in DOMAIN mObjectEditList :
       LET h == mObjectEditList[i].handle IN
       h \notin cut => mObjectEditList[i].size <= files[h]

(* "reset so we don't attempt to send this back": the data the host gets   *)
(* is made for it.                                                         *)
NothingIsSentBack == \A i \in DOMAIN toHost : toHost[i].type = "data" => toHost[i].made

(* A request is answered, unless the server ends.                          *)
EveryRequestIsAnswered == host.pc = "wait" ~> host.pc # "wait" \/ pc = "ended"

=============================================================================
