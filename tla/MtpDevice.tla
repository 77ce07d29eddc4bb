----------------------------- MODULE MtpDevice -----------------------------
(* The host's side of MTP (MtpDevice.cpp, with the packets of MtpPacket,   *)
(* MtpDataPacket and MtpRequestPacket): one operation at a time, under     *)
(* mMutex, each a request, a data phase or none, and a response.  The      *)
(* device and the bus are external: a request that was sent is answered,   *)
(* and what a broken bus is asked for fails.                               *)
EXTENDS Integers, Sequences

CONSTANTS
  MaxRequests,  \* bound of the requests
  MaxLength     \* most buffers of data an object has

MtpDeviceAssumption == MaxRequests \in Nat /\ MaxLength \in Nat
None == 0

VARIABLES
  session,         \* openSession() has succeeded
  transactionId,
  receivedResponse,
  response,        \* the request whose response mResponse has
  pipe,            \* the packets the device has sent and nobody has read
  broken,          \* the bus
  result,          \* of the last operation: the requests whose data it returns,
                   \* or writes out
  mData,           \* the requests whose data is in the packet
  header,          \* what readObject() took for the data header: see ReadObject
  outOfStep,       \* an operation returned before its response was read
  op, remaining,   \* the object that is read: its request, its buffers to come
  queued, toWrite, req,  \* the buffers of mRequestIn1 and 2: see ReadObject
  unwritten        \* its buffers that are not written out yet

dataVars == <<remaining, queued, toWrite, req, unwritten>>
deviceVars == <<session, transactionId, receivedResponse, response, pipe,
                broken, result, mData, header, outOfStep, op, dataVars>>

Init ==
  /\ session = FALSE /\ transactionId = 0
  /\ receivedResponse = FALSE /\ response = None
  /\ pipe = <<>> /\ broken = FALSE /\ result = {} /\ outOfStep = FALSE
  /\ mData = {} /\ header = "data"
  /\ op = None /\ remaining = 0 /\ queued = None /\ toWrite = None
  /\ req = 1 /\ unwritten = 0

Packet(type, id) == [type |-> type, id |-> id]
Answer(id, hasData) ==
  (IF hasData THEN <<Packet("data", id)>> ELSE <<>>) \o <<Packet("response", id)>>

Idle == op = None /\ session /\ transactionId <= MaxRequests
BusWorks == ~ broken
NextTransaction == transactionId' = transactionId + 1 /\ header' = "data"

(* readResponse(), given what there is to read after the data phase and    *)
(* whether readData() has come upon the response already.                  *)
ReadResponse(toRead, received) ==
  /\ receivedResponse' = FALSE
  /\ IF received THEN UNCHANGED response /\ pipe' = toRead
     ELSE response' = Head(toRead).id /\ pipe' = Tail(toRead)
-----------------------------------------------------------------------------
(* The first request has no number; another program may have the session.  *)
OpenSession ==
  /\ op = None /\ ~ session /\ BusWorks
  /\ session' = TRUE /\ transactionId' = 1
  /\ UNCHANGED <<receivedResponse, response, pipe, broken, result, mData,
                 header, outOfStep, op, dataVars>>

BusBreaks ==
  /\ BusWorks
  /\ broken' = TRUE
  /\ UNCHANGED <<session, transactionId, receivedResponse, response, pipe,
                 result, mData, header, outOfStep, op, dataVars>>

(* An operation whose request is not sent returns nothing, nor does one of *)
(* those below, readObject() apart, on whose way the bus breaks.           *)
Fail ==
  /\ Idle /\ broken
  /\ receivedResponse' = FALSE /\ result' = {} /\ NextTransaction
  /\ UNCHANGED <<session, response, pipe, broken, mData, outOfStep, op, dataVars>>

(* getDeviceInfo(), getStorageIDs(), getObjectInfo() and the others that   *)
(* read data.  A response in its place ends the data phase and the         *)
(* operation; data that is refused or cannot be parsed is not returned.    *)
GetData(hasData, parsed) ==
  /\ Idle /\ BusWorks
  /\ NextTransaction
  /\ LET toRead == pipe \o Answer(transactionId, hasData)
         first  == Head(toRead)
     IN /\ mData' = {first.id}
        /\ IF first.type = "response"
          THEN /\ receivedResponse' = TRUE /\ response' = first.id
               /\ pipe' = Tail(toRead) /\ result' = {}
          ELSE /\ ReadResponse(Tail(toRead), FALSE)
               /\ result' = IF parsed THEN {first.id} ELSE {}
  /\ UNCHANGED <<session, broken, outOfStep, op, dataVars>>

(* deleteObject(), and sendObject(), which reads the response whether or   *)
(* not the request was sent.                                               *)
WithoutDataIn ==
  /\ Idle /\ BusWorks
  /\ NextTransaction
  /\ ReadResponse(pipe \o Answer(transactionId, FALSE), FALSE)
  /\ result' = {}
  /\ UNCHANGED <<session, broken, mData, outOfStep, op, dataVars>>

(* The information is put into mData without a reset, and sendData() takes *)
(* the 0 of MtpDataPacket::write() for a failure: the response is not read.*)
SendObjectInfo ==
  /\ Idle /\ BusWorks
  /\ NextTransaction
  /\ receivedResponse' = FALSE
  /\ pipe' = pipe \o Answer(transactionId, FALSE)
  /\ result' = {}
  /\ mData' = mData \union {transactionId}
  /\ outOfStep' = TRUE
  /\ UNCHANGED <<session, response, broken, op, dataVars>>
-----------------------------------------------------------------------------
(* readObject(): the header comes with the first data, which is written    *)
(* out; then two buffers take turns: one is filled while the other is      *)
(* written.  Three actions are a pass of the loop.                         *)
ReadObject(hasData) ==
  /\ Idle /\ BusWorks
  /\ transactionId' = transactionId + 1 /\ header' = "awaited"
  /\ receivedResponse' = FALSE
  /\ op' = transactionId /\ result' = {}
  /\ pipe' = pipe \o Answer(transactionId, hasData)
  /\ remaining' = 0 /\ unwritten' = 0
  /\ queued' = None /\ toWrite' = None /\ req' = 1
  /\ UNCHANGED <<session, response, broken, mData, outOfStep>>

(* Whatever comes is the header: a response has no more data to come, and  *)
(* what it has for parameters is written out.                              *)
ReadHeader(buffers) ==
  /\ header = "awaited" /\ BusWorks
  /\ header' = Head(pipe).type
  /\ mData' = {Head(pipe).id} /\ result' = mData'
  /\ remaining' = IF header' = "data" THEN buffers ELSE 0
  /\ unwritten' = remaining'
  /\ pipe' = Tail(pipe)
  /\ UNCHANGED <<session, transactionId, receivedResponse, response,
                 broken, outOfStep, op, queued, toWrite, req>>

(* The error, a negative number, is taken for success: what is in the      *)
(* packet since an earlier operation is written out, and no more comes.    *)
HeaderFails ==
  /\ header = "awaited" /\ broken
  /\ header' = "nothing"
  /\ result' = mData
  /\ UNCHANGED <<session, transactionId, receivedResponse, response, pipe,
                 broken, mData, outOfStep, op, dataVars>>

(* The object is not of the size that was expected, or cannot be written,  *)
(* or the bus breaks: what is left of its data and response stays where it *)
(* is.                                                                     *)
GiveUp ==
  /\ op # None /\ header # "awaited"
  /\ op' = None
  /\ queued' = None /\ toWrite' = None
  /\ pipe' = IF header = "data" /\ remaining > 0 THEN <<Packet("data", op)>> \o pipe ELSE pipe
  /\ outOfStep' = (outOfStep \/ pipe' # <<>>)
  /\ UNCHANGED <<session, transactionId, receivedResponse, response, broken,
                 result, mData, header, remaining, req, unwritten>>

QueueRead ==
  /\ op # None /\ BusWorks
  /\ queued = None /\ remaining > 0
  /\ queued' = req
  /\ UNCHANGED <<session, transactionId, receivedResponse, response, pipe,
                 broken, result, mData, header, outOfStep, op, remaining, toWrite,
                 req, unwritten>>

WriteOut ==
  /\ op # None /\ toWrite # None
  /\ queued # None \/ remaining = 0
  /\ toWrite' = None /\ unwritten' = unwritten - 1
  /\ UNCHANGED <<session, transactionId, receivedResponse, response, pipe,
                 broken, result, mData, header, outOfStep, op, remaining, queued, req>>

WaitForReadInPlace(empty) ==
  /\ op # None /\ BusWorks
  /\ queued # None /\ toWrite = None
  /\ queued' = None
  /\ IF empty THEN UNCHANGED <<toWrite, remaining>>
     ELSE toWrite' = queued /\ remaining' = remaining - 1
  /\ UNCHANGED <<session, transactionId, receivedResponse, response, pipe,
                 broken, result, mData, header, outOfStep, op, req, unwritten>>

(* An empty packet fills no buffer, and its buffer is queued again.        *)
WaitForRead(empty) ==
  /\ op # None /\ BusWorks
  /\ queued # None /\ toWrite = None
  /\ queued' = None
  /\ IF empty THEN UNCHANGED <<toWrite, remaining, req>>
     ELSE /\ toWrite' = queued /\ remaining' = remaining - 1
          /\ req' = IF req = 1 THEN 2 ELSE 1
  /\ UNCHANGED <<session, transactionId, receivedResponse, response, pipe,
                 broken, result, mData, header, outOfStep, op, unwritten>>

(* It waits for a response that was taken for the header.                  *)
EndOfObject ==
  /\ op # None /\ header # "awaited" /\ BusWorks
  /\ remaining = 0 /\ toWrite = None
  /\ pipe # <<>> /\ ReadResponse(pipe, FALSE)
  /\ op' = None
  /\ UNCHANGED <<session, transactionId, broken, result, mData, header, outOfStep,
                 dataVars>>
-----------------------------------------------------------------------------
Next ==
  \/ OpenSession \/ BusBreaks \/ Fail
  \/ \E hasData, parsed \in BOOLEAN : GetData(hasData, parsed)
  \/ WithoutDataIn \/ SendObjectInfo
  \/ \E hasData \in BOOLEAN : ReadObject(hasData)
  \/ \E buffers \in 0 .. MaxLength : ReadHeader(buffers)
  \/ HeaderFails \/ GiveUp \/ QueueRead \/ WriteOut \/ EndOfObject
  \/ \E empty \in BOOLEAN : WaitForRead(empty)

Spec == Init /\ [][Next]_deviceVars
-----------------------------------------------------------------------------
(* Until an operation leaves its response unread, which sendObjectInfo()   *)
(* always does and readObject() may when it gives up, every operation      *)
(* returns, or writes out, the data of its own request and no other, and   *)
(* takes the response of its own request.  Nor does one wait for what does *)
(* not come.  Set apart are a readObject() that took a response for the    *)
(* data header, and one that got no header.  And a buffer is never filled  *)
(* while it is written, none is written twice or left out.                 *)
OperationsAreInStep ==
  /\ ~ outOfStep =>
       /\ header # "nothing" => result \subseteq {transactionId - 1}
       /\ op # None /\ header \in {"awaited", "data"} => pipe # <<>>
       /\ op = None =>
            /\ pipe = <<>>
            /\ \/ response = transactionId - 1 \/ transactionId <= 1
               \/ header = "response" \/ broken
  /\ queued # None => queued # toWrite
  /\ op # None => unwritten = remaining + (IF toWrite = None THEN 0 ELSE 1)

=============================================================================
