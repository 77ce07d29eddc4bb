--------------------------- MODULE MtpServerProofs ---------------------------
(***************************************************************************)
(* What the server of the MTP daemon promises, for any number of objects,  *)
(* sizes and transaction ids: the host's answers keep step with its        *)
(* requests, and the database keeps the sizes of the files.                *)
(*                                                                         *)
(* The first needs ServerInv: as long as no handler took a cancellation    *)
(* for an error and the driver is ready, the request the host waits for is *)
(* the only command on its way, or the one that is being served, with no   *)
(* response on its way, or has been answered, with the response last.  The *)
(* second needs ObjectsInv: an object that is being sent was begun and is  *)
(* not open for edit, and data is received only for one or the other, and  *)
(* of the edits only those of which a part was cut short may be larger     *)
(* than their file.                                                        *)
(***************************************************************************)
EXTENDS MtpServer, CountingLemmas

-----------------------------------------------------------------------------
(* Invariants of the exchange                                              *)

Commanded(q) == {i \in DOMAIN q : q[i].type = "command"}

Idle == {"request", "exit", "ended"}
Handling == {"data", "handle", "receive", "transfer", "sendfile"}
Working == Handling \union {"send", "respond"}

Containers == [type : {"command", "data"}, id : Ids, cmd : Requests \union {Nothing}]
Replies == [type : {"data", "response"}, id : Ids, made : BOOLEAN]

(* What is on its way, and what the server does.                           *)
ContainersInv ==
  /\ host \in [pc : {"idle", "data", "wait", "gone"}, id : Ids]
  /\ driver \in {"ready", "blocked", "canceled", "offline"}
  /\ toDevice \in Seq(Containers) /\ toHost \in Seq(Replies)
  /\ \A i \in Commanded(toDevice) : toDevice[i].cmd \in Requests
  /\ request \in [cmd : Requests \union {Nothing}, id : Ids]
  /\ pc \in Idle \union Working
  /\ pc \in Handling => request.cmd \in Requests
  /\ driver # "ready" => toDevice = <<>> /\ toHost = <<>> /\ host.pc \in {"idle", "gone"}
  /\ driver = "offline" <=> host.pc = "gone"

(* The request the host waits for has not been read, is being served or    *)
(* has been answered.                                                      *)
Unread ==
  /\ pc \in Idle /\ toHost = <<>>
  /\ \E k \in DOMAIN toDevice : Commanded(toDevice) = {k} /\ toDevice[k].id = host.id
Served ==
  /\ pc \in Working /\ request.id = host.id /\ Commanded(toDevice) = {}
  /\ \A i \in DOMAIN toHost : toHost[i].type = "data" /\ toHost[i].id = host.id
  /\ toHost # <<>> => pc = "respond"
Answered ==
  /\ pc \in Idle /\ toHost # <<>> /\ Commanded(toDevice) = {}
  /\ \A i \in DOMAIN toHost :
       toHost[i].id = host.id /\ (toHost[i].type = "response" <=> i = Len(toHost))
Unasked == pc \in Idle /\ toHost = <<>> /\ Commanded(toDevice) = {}

StepInv ==
  ~late /\ driver = "ready" =>
    IF host.pc = "idle" THEN Unasked ELSE Unread \/ Served \/ Answered

ServerInv == ContainersInv /\ StepInv

-----------------------------------------------------------------------------
(* Containers and requests                                                 *)

LEMMA CommandedInTail ==
  ASSUME NEW S, NEW q \in Seq(S), q # <<>>
  PROVE  /\ Tail(q) \in Seq(S)
         /\ \A i : i \in Commanded(Tail(q)) <=> i \in DOMAIN q /\ i + 1 \in Commanded(q)
         /\ \A i \in DOMAIN Tail(q) : i + 1 \in DOMAIN q /\ Tail(q)[i] = q[i + 1]
<1>1. /\ Tail(q) \in Seq(S) /\ Len(Tail(q)) = Len(q) - 1 /\ Len(q) \in Nat /\ Len(q) > 0
      /\ \A i \in 1 .. Len(Tail(q)) : Tail(q)[i] = q[i + 1]
  BY HeadTailProperties
<1>2. DOMAIN q = 1 .. Len(q) /\ DOMAIN Tail(q) = 1 .. Len(Tail(q))
  BY <1>1
<1> HIDE DEF Commanded
<1>3. \A i \in DOMAIN Tail(q) : i + 1 \in DOMAIN q /\ Tail(q)[i] = q[i + 1]
  BY <1>1, <1>2
<1>4. ASSUME NEW i PROVE i \in Commanded(Tail(q)) <=> i \in DOMAIN q /\ i + 1 \in Commanded(q)
  BY <1>1, <1>2, <1>3 DEF Commanded
<1> QED
  BY <1>1, <1>3, <1>4

LEMMA CommandedInAppend ==
  ASSUME NEW S, NEW q \in Seq(S), NEW c \in S
  PROVE  /\ Append(q, c) \in Seq(S) /\ Len(Append(q, c)) = Len(q) + 1 /\ Len(q) \in Nat
         /\ DOMAIN q = 1 .. Len(q) /\ DOMAIN Append(q, c) = 1 .. Len(q) + 1
         /\ \A i \in DOMAIN q : Append(q, c)[i] = q[i]
         /\ Append(q, c)[Len(q) + 1] = c /\ Append(q, c) # <<>>
         /\ Commanded(Append(q, c))
              = Commanded(q) \union (IF c.type = "command" THEN {Len(q) + 1} ELSE {})
<1>1. /\ Append(q, c) \in Seq(S) /\ Len(Append(q, c)) = Len(q) + 1 /\ Len(q) \in Nat
      /\ \A i \in 1 .. Len(q) : Append(q, c)[i] = q[i]
      /\ Append(q, c)[Len(q) + 1] = c
  BY AppendProperties
<1>2. DOMAIN q = 1 .. Len(q) /\ DOMAIN Append(q, c) = 1 .. Len(q) + 1
  BY <1>1
<1>3. Append(q, c) # <<>>
  BY <1>1
<1>4. ASSUME NEW i
      PROVE  i \in Commanded(Append(q, c))
               <=> i \in Commanded(q) \/ (c.type = "command" /\ i = Len(q) + 1)
  BY <1>1, <1>2 DEF Commanded
<1> QED
  BY <1>1, <1>2, <1>3, <1>4

(* A read takes the head, which is a command or is not.                    *)
LEMMA ReadTakes ==
  ASSUME ContainersInv, NEW type, Reads(type)
  PROVE  /\ toDevice # <<>> /\ toDevice' = Tail(toDevice) /\ toDevice' \in Seq(Containers)
         /\ Head(toDevice) = toDevice[1] /\ 1 \in DOMAIN toDevice /\ toDevice[1].type = type
         /\ driver = "ready" /\ Head(toDevice) \in Containers
         /\ \A i \in Commanded(toDevice') : toDevice'[i].cmd \in Requests
         /\ Commanded(toDevice) = {} => Commanded(toDevice') = {}
         /\ type # "command" => \A k \in DOMAIN toDevice : Commanded(toDevice) = {k}
              => k - 1 \in DOMAIN toDevice' /\ Commanded(toDevice') = {k - 1}
                 /\ toDevice'[k - 1] = toDevice[k]
         /\ type = "command" => \A k \in DOMAIN toDevice : Commanded(toDevice) = {k}
              => k = 1 /\ Commanded(toDevice') = {}
<1>1. /\ toDevice # <<>> /\ toDevice' = Tail(toDevice) /\ driver = "ready"
      /\ Head(toDevice).type = type /\ toDevice \in Seq(Containers)
      /\ \A i \in Commanded(toDevice) : toDevice[i].cmd \in Requests
  BY DEF Reads, ContainersInv
<1>2. /\ Len(toDevice) \in Nat /\ Len(toDevice) > 0 /\ DOMAIN toDevice = 1 .. Len(toDevice)
      /\ Head(toDevice) = toDevice[1] /\ DOMAIN Tail(toDevice) = 1 .. Len(toDevice) - 1
  BY <1>1, HeadTailProperties
<1>3. /\ Tail(toDevice) \in Seq(Containers)
      /\ \A i : i \in Commanded(Tail(toDevice))
                  <=> i \in DOMAIN toDevice /\ i + 1 \in Commanded(toDevice)
      /\ \A i \in DOMAIN Tail(toDevice) :
           i + 1 \in DOMAIN toDevice /\ Tail(toDevice)[i] = toDevice[i + 1]
  BY <1>1, CommandedInTail
<1>4. \A i \in Commanded(toDevice') : i \in DOMAIN toDevice' /\ toDevice'[i].cmd \in Requests
  <2>1. SUFFICES ASSUME NEW i \in Commanded(toDevice')
                 PROVE  i \in DOMAIN toDevice' /\ toDevice'[i].cmd \in Requests
    OBVIOUS
  <2>2. i \in DOMAIN toDevice'
    BY DEF Commanded
  <2>3. i + 1 \in Commanded(toDevice) /\ toDevice'[i] = toDevice[i + 1]
    BY <1>1, <1>3, <2>2
  <2> QED
    BY <1>1, <2>2, <2>3
<1>5. Commanded(toDevice) = {} => Commanded(toDevice') = {}
  BY <1>1, <1>3
<1>6. ASSUME NEW k \in DOMAIN toDevice, Commanded(toDevice) = {k}
      PROVE  /\ type # "command" => k - 1 \in DOMAIN toDevice' /\ Commanded(toDevice') = {k - 1}
                                    /\ toDevice'[k - 1] = toDevice[k]
             /\ type = "command" => k = 1 /\ Commanded(toDevice') = {}
  <2>1. toDevice[k].type = "command" /\ (type = "command" => 1 \in Commanded(toDevice))
    BY <1>1, <1>2, <1>6 DEF Commanded
  <2>2. CASE type = "command"
    BY <1>1, <1>2, <1>3, <1>6, <2>1, <2>2
  <2>3. CASE type # "command"
    <3>1. k # 1 /\ k - 1 \in 1 .. Len(toDevice) - 1 /\ (k - 1) + 1 = k
      <4>1. toDevice[1].type = type
        BY <1>1, <1>2
      <4>2. k # 1
        BY <2>1, <2>3, <4>1
      <4>3. k \in 1 .. Len(toDevice)
        BY <1>2
      <4> QED
        BY <1>2, <4>2, <4>3
    <3>2. \A i : i \in Commanded(Tail(toDevice)) <=> i \in DOMAIN toDevice /\ i + 1 = k
      BY <1>3, <1>6
    <3>3. Commanded(Tail(toDevice)) = {k - 1}
      BY <1>2, <3>1, <3>2
    <3> QED
      BY <1>1, <1>2, <1>3, <2>3, <3>1, <3>3
  <2> QED
    BY <2>2, <2>3
<1>7. Head(toDevice) \in Containers
  BY <1>1, HeadTailProperties
<1>8. toDevice' \in Seq(Containers) /\ 1 \in DOMAIN toDevice /\ toDevice[1].type = type
  BY <1>1, <1>2, <1>3
<1>9. type # "command" => \A k \in DOMAIN toDevice : Commanded(toDevice) = {k}
        => k - 1 \in DOMAIN toDevice' /\ Commanded(toDevice') = {k - 1}
           /\ toDevice'[k - 1] = toDevice[k]
  BY <1>6
<1>10. type = "command" => \A k \in DOMAIN toDevice : Commanded(toDevice) = {k}
         => k = 1 /\ Commanded(toDevice') = {}
  BY <1>6
<1>11. \A i \in Commanded(toDevice') : toDevice'[i].cmd \in Requests
  BY <1>4
<1> QED
  BY <1>1, <1>2, <1>5, <1>7, <1>8, <1>9, <1>10, <1>11

LEMMA RequestIs ==
  ASSUME NEW r \in Requests
  PROVE  /\ r.offset \in Sizes /\ r.length \in Sizes
         /\ r.op = "SendPartialObject" => r.offset + r.length <= MaxSize
         /\ r.op \in {"DeleteObject", "GetObject", "EndEditObject", "TruncateObject",
                      "SendPartialObject"} \/ (r.op = "BeginEditObject" /\ ~r.few)
              => r.handle \in Handles
<1>1. 0 \in Sizes /\ MaxSize \in Nat
  BY MtpServerAssumption DEF Sizes
<1>2. CASE \E op \in Queries \union {"OpenSession", "CloseSession", "SendFolderInfo", "SendObject"} :
             r = Request(op, Invalid, 0, 0)
  BY <1>1, <1>2 DEF Request, Queries, SessionQueries, StorageQueries
<1>3. CASE r = [Request("BeginEditObject", Invalid, 0, 0) EXCEPT !.few = TRUE]
  BY <1>1, <1>3 DEF Request
<1>4. CASE \E n \in Sizes : r = Request("SendObjectInfo", Invalid, 0, n)
  BY <1>1, <1>4 DEF Request
<1>5. CASE \E h \in Handles, op \in {"SetObjectPropValue", "GetObject", "DeleteObject",
                                     "BeginEditObject", "EndEditObject"} :
             r = Request(op, h, 0, 0)
  BY <1>1, <1>5 DEF Request
<1>6. CASE \E h \in Handles, n \in Sizes : r = Request("TruncateObject", h, n, 0)
  BY <1>1, <1>6 DEF Request
<1>7. CASE \E h \in Handles, p \in {p \in Sizes \X Sizes : p[1] + p[2] <= MaxSize} :
             r = Request("SendPartialObject", h, p[1], p[2])
  BY <1>1, <1>7 DEF Request
<1> QED
  BY <1>2, <1>3, <1>4, <1>5, <1>6, <1>7 DEF Requests

-----------------------------------------------------------------------------
(* Steps of the host and the server keep step.                             *)

LEMMA TopIs ==
  ASSUME Top
  PROVE  pc' \in Idle /\ pc' # "ended" /\ request' = NoRequest
         /\ request' \in [cmd : Requests \union {Nothing}, id : Ids]
<1>1. 0 \in Ids
  BY MtpServerAssumption DEF Ids
<1> QED
  BY <1>1 DEF Top, Idle, NoRequest

LEMMA PhasesDiffer == \A p \in Working : p \notin Idle
  BY DEF Working, Handling, Idle

(* The parameters of the request are there as long as a handler needs them.*)
Serving ==
  \/ request' = request /\ (pc \in Handling \/ pc' \notin Handling)
  \/ Done /\ pc' \notin Handling

LEMMA ServingIs ==
  ASSUME ServerInv, Serving
  PROVE  /\ request' \in [cmd : Requests \union {Nothing}, id : Ids] /\ request'.id = request.id
         /\ pc' \in Handling => request'.cmd \in Requests
<1>1. /\ request \in [cmd : Requests \union {Nothing}, id : Ids]
      /\ pc \in Handling => request.cmd \in Requests
  BY DEF ServerInv, ContainersInv
<1>2. CASE request' = request /\ (pc \in Handling \/ pc' \notin Handling)
  BY <1>1, <1>2
<1>3. CASE Done /\ pc' \notin Handling
  BY <1>1, <1>3 DEF Done
<1> QED
  BY <1>2, <1>3 DEF Serving

(* A step within a handler that has no part in the exchange.               *)
LEMMA Quiet ==
  ASSUME ServerInv, Serving, UNCHANGED <<usbVars, late>>,
         pc \in Working, pc # "respond", pc' \in Working
  PROVE  ServerInv'
<1>1. ContainersInv'
  BY ServingIs DEF ServerInv, ContainersInv, usbVars
<1>2. StepInv'
  <2>1. CASE late \/ driver # "ready"
    BY <2>1 DEF StepInv, usbVars
  <2>2. CASE ~late /\ driver = "ready"
    <3>1. host.pc # "idle" /\ Served
      BY <2>2, PhasesDiffer DEF ServerInv, StepInv, Unasked, Unread, Answered
    <3>2. Served'
      BY <3>1, ServingIs DEF Served, usbVars
    <3> QED
      BY <3>1, <3>2 DEF StepInv, usbVars
  <2> QED
    BY <2>1, <2>2
<1> QED
  BY <1>1, <1>2 DEF ServerInv

LEMMA QuietOthers ==
  ASSUME ServerInv, UNCHANGED <<usbVars, request, pc, late>>
  PROVE  ServerInv'
  BY DEF ServerInv, ContainersInv, StepInv, Unread, Served, Answered, Unasked, usbVars

LEMMA CanceledKeeps ==
  ASSUME ServerInv, Canceled, Top, UNCHANGED <<host, toDevice, toHost, late>>
  PROVE  ServerInv'
<1>1. /\ driver \in {"blocked", "canceled"} /\ driver' \in {"canceled", "ready"}
      /\ toDevice = <<>> /\ toHost = <<>> /\ host.pc = "idle"
  BY DEF Canceled, ServerInv, ContainersInv
<1>2. ContainersInv'
  BY <1>1, TopIs, PhasesDiffer DEF ServerInv, ContainersInv, Working
<1>3. Commanded(<<>>) = {}
  BY DEF Commanded
<1>4. StepInv'
  BY <1>1, <1>3, TopIs DEF StepInv, Unasked
<1> QED
  BY <1>2, <1>4 DEF ServerInv

LEMMA HostRequestsKeeps ==
  ASSUME ServerInv, NEW r \in Requests, HostRequests(r)
  PROVE  ServerInv'
<1> DEFINE c == [type |-> "command", id |-> host'.id, cmd |-> r]
<1>1. /\ host.pc = "idle" /\ driver = "ready" /\ toDevice' = Append(toDevice, c)
      /\ host'.pc \in {"data", "wait"}
      /\ host' = [pc |-> host'.pc, id |-> (host.id + 1) % NumIds]
      /\ UNCHANGED <<toHost, driver, pc, request, late>>
  BY DEF HostRequests, loopVars
<1>2. host'.id \in Ids
  <2>1. host.id \in 0 .. NumIds - 1 /\ NumIds \in Nat /\ NumIds > 0
    BY MtpServerAssumption DEF ServerInv, ContainersInv, Ids
  <2>2. host.id + 1 \in Nat
    BY <2>1
  <2>3. (host.id + 1) % NumIds \in 0 .. NumIds - 1
    BY <2>1, <2>2
  <2> QED
    BY <1>1, <2>3 DEF Ids
<1>3. c \in Containers /\ toDevice \in Seq(Containers)
  BY <1>2 DEF Containers, ServerInv, ContainersInv
<1>4. /\ toDevice' \in Seq(Containers) /\ Len(toDevice) \in Nat
      /\ DOMAIN toDevice = 1 .. Len(toDevice) /\ DOMAIN toDevice' = 1 .. Len(toDevice) + 1
      /\ \A i \in DOMAIN toDevice : toDevice'[i] = toDevice[i]
      /\ toDevice'[Len(toDevice) + 1] = c
      /\ Commanded(toDevice') = Commanded(toDevice) \union {Len(toDevice) + 1}
  <2> HIDE DEF c
  <2>1. c.type = "command"
    BY DEF c
  <2> QED
    BY <1>1, <1>3, <2>1, CommandedInAppend
<1>5. \A i \in Commanded(toDevice') : toDevice'[i].cmd \in Requests
  <2>1. \A i \in Commanded(toDevice) : i \in DOMAIN toDevice /\ toDevice[i].cmd \in Requests
    BY DEF ServerInv, ContainersInv, Commanded
  <2> QED
    BY <1>4, <2>1
<1>6. ContainersInv'
  BY <1>1, <1>2, <1>4, <1>5 DEF ServerInv, ContainersInv
<1>7. StepInv'
  <2>1. SUFFICES ASSUME ~late PROVE Unread'
    BY <1>1 DEF StepInv
  <2>2. Unasked
    BY <1>1, <2>1 DEF ServerInv, StepInv
  <2>3. Commanded(toDevice') = {Len(toDevice) + 1} /\ Len(toDevice) + 1 \in DOMAIN toDevice'
    BY <1>4, <2>2 DEF Unasked
  <2> QED
    BY <1>1, <1>4, <2>2, <2>3 DEF Unasked, Unread
<1> QED
  BY <1>6, <1>7 DEF ServerInv

LEMMA HostSendsDataKeeps ==
  ASSUME ServerInv, HostSendsData
  PROVE  ServerInv'
<1> DEFINE c == [type |-> "data", id |-> host.id, cmd |-> Nothing]
<1>1. /\ host.pc = "data" /\ driver = "ready" /\ toDevice' = Append(toDevice, c)
      /\ host' = [pc |-> "wait", id |-> host.id] /\ host'.pc = "wait" /\ host'.id = host.id
      /\ UNCHANGED <<toHost, driver, pc, request, late>>
  BY DEF HostSendsData, loopVars, ServerInv, ContainersInv
<1>2. c \in Containers /\ toDevice \in Seq(Containers) /\ c.type # "command"
  BY DEF Containers, ServerInv, ContainersInv
<1>3. /\ toDevice' \in Seq(Containers)
      /\ DOMAIN toDevice = 1 .. Len(toDevice) /\ DOMAIN toDevice' = 1 .. Len(toDevice) + 1
      /\ \A i \in DOMAIN toDevice : toDevice'[i] = toDevice[i] /\ i \in DOMAIN toDevice'
      /\ Commanded(toDevice') = Commanded(toDevice)
  <2> HIDE DEF c
  <2>1. /\ toDevice' \in Seq(Containers) /\ Len(toDevice) \in Nat
        /\ DOMAIN toDevice = 1 .. Len(toDevice) /\ DOMAIN toDevice' = 1 .. Len(toDevice) + 1
        /\ \A i \in DOMAIN toDevice : toDevice'[i] = toDevice[i]
        /\ Commanded(toDevice')
             = Commanded(toDevice) \union (IF c.type = "command" THEN {Len(toDevice) + 1} ELSE {})
    BY <1>1, <1>2, CommandedInAppend
  <2>2. \A i \in DOMAIN toDevice : i \in DOMAIN toDevice'
    BY <2>1
  <2> QED
    BY <1>2, <2>1, <2>2
<1>4. \A i \in Commanded(toDevice') : toDevice'[i].cmd \in Requests
  <2>1. \A i \in Commanded(toDevice) : i \in DOMAIN toDevice /\ toDevice[i].cmd \in Requests
    BY DEF ServerInv, ContainersInv, Commanded
  <2> QED
    BY <1>3, <2>1
<1>5. ContainersInv'
  BY <1>1, <1>3, <1>4 DEF ServerInv, ContainersInv
<1>6. StepInv'
  <2>1. SUFFICES ASSUME ~late PROVE (Unread \/ Served \/ Answered)'
    BY <1>1 DEF StepInv
  <2>2. Unread \/ Served \/ Answered
    BY <1>1, <2>1 DEF ServerInv, StepInv
  <2>3. CASE Unread
    BY <1>1, <1>3, <2>3 DEF Unread
  <2>4. CASE Served
    BY <1>1, <1>3, <2>4 DEF Served
  <2>5. CASE Answered
    BY <1>1, <1>3, <2>5 DEF Answered
  <2> QED
    BY <2>2, <2>3, <2>4, <2>5
<1> QED
  BY <1>5, <1>6 DEF ServerInv

LEMMA HostReceivesKeeps ==
  ASSUME ServerInv, HostReceives
  PROVE  ServerInv'
<1>1. /\ host.pc = "wait" /\ driver = "ready" /\ toHost # <<>> /\ toHost' = Tail(toHost)
      /\ toHost \in Seq(Replies)
      /\ host' = IF Head(toHost).type = "response" /\ Head(toHost).id = host.id
                 THEN [pc |-> "idle", id |-> host.id] ELSE host
      /\ UNCHANGED <<toDevice, driver, pc, request, late>>
  BY DEF HostReceives, loopVars, ServerInv, ContainersInv
<1>2. /\ Len(toHost) \in Nat /\ Len(toHost) > 0 /\ DOMAIN toHost = 1 .. Len(toHost)
      /\ Head(toHost) = toHost[1] /\ toHost' \in Seq(Replies) /\ Len(toHost') = Len(toHost) - 1
      /\ DOMAIN toHost' = 1 .. Len(toHost) - 1
      /\ \A i \in 1 .. Len(toHost) - 1 : toHost'[i] = toHost[i + 1]
  <2>1. /\ Len(toHost) \in Nat /\ Len(toHost) > 0 /\ toHost' \in Seq(Replies)
        /\ Len(toHost') = Len(toHost) - 1 /\ Head(toHost) = toHost[1]
        /\ \A i \in 1 .. Len(toHost') : toHost'[i] = toHost[i + 1]
    BY <1>1, HeadTailProperties
  <2> QED
    BY <1>1, <2>1
<1>3. ContainersInv'
  BY <1>1, <1>2 DEF ServerInv, ContainersInv
<1>4. StepInv'
  <2>1. SUFFICES ASSUME ~late
                 PROVE  IF host'.pc = "idle" THEN Unasked' ELSE (Unread \/ Served \/ Answered)'
    BY <1>1 DEF StepInv
  <2>2. Served \/ Answered
    BY <1>1, <2>1 DEF ServerInv, StepInv, Unread
  <2>3. CASE Served
    <3>1. Head(toHost).type = "data" /\ host' = host /\ pc = "respond"
      BY <1>1, <1>2, <2>3 DEF Served
    <3>2. \A i \in DOMAIN toHost' : toHost'[i].type = "data" /\ toHost'[i].id = host.id
      BY <1>2, <2>3 DEF Served
    <3> QED
      BY <1>1, <2>3, <3>1, <3>2 DEF Served
  <2>4. CASE Answered
    <3>1. CASE Len(toHost) = 1
      <4>1. Head(toHost).type = "response" /\ Head(toHost).id = host.id
        BY <1>2, <2>4, <3>1 DEF Answered
      <4>2. toHost' = <<>>
        BY <1>2, <3>1
      <4> QED
        BY <1>1, <2>4, <4>1, <4>2 DEF Answered, Unasked
    <3>2. CASE Len(toHost) # 1
      <4>1. host' = host
        BY <1>1, <1>2, <2>4, <3>2 DEF Answered
      <4>2. toHost' # <<>>
        BY <1>2, <3>2
      <4>3. \A i \in DOMAIN toHost' :
              toHost'[i].id = host.id /\ (toHost'[i].type = "response" <=> i = Len(toHost'))
        <5>1. SUFFICES ASSUME NEW i \in 1 .. Len(toHost) - 1
                       PROVE  /\ toHost'[i].id = host.id
                              /\ toHost'[i].type = "response" <=> i = Len(toHost) - 1
          BY <1>2
        <5>2. i + 1 \in DOMAIN toHost /\ toHost'[i] = toHost[i + 1]
          BY <1>2
        <5>3. i + 1 = Len(toHost) <=> i = Len(toHost) - 1
          BY <1>2
        <5> QED
          BY <2>4, <5>2, <5>3 DEF Answered
      <4> QED
        BY <1>1, <2>4, <4>1, <4>2, <4>3 DEF Answered
    <3> QED
      BY <3>1, <3>2
  <2> QED
    BY <2>2, <2>3, <2>4
<1> QED
  BY <1>3, <1>4 DEF ServerInv

LEMMA HostLeavesKeeps ==
  ASSUME ServerInv, HostCancels \/ Unplug
  PROVE  ServerInv'
<1>1. /\ toDevice' = <<>> /\ toHost' = <<>> /\ driver' \in {"blocked", "canceled", "offline"}
      /\ host'.pc \in {"idle", "gone"} /\ host' = [pc |-> host'.pc, id |-> host.id]
      /\ driver' = "offline" <=> host'.pc = "gone"
      /\ UNCHANGED <<pc, request, late>>
  BY DEF HostCancels, Unplug, loopVars, ServerInv, ContainersInv
<1>2. ContainersInv'
  BY <1>1 DEF ServerInv, ContainersInv, Commanded
<1> QED
  BY <1>1, <1>2 DEF ServerInv, StepInv

LEMMA ReadRequestKeeps ==
  ASSUME ServerInv, ReadRequest
  PROVE  ServerInv'
<1>1. /\ pc = "request" /\ Reads("command")
      /\ request' = [cmd |-> Head(toDevice).cmd, id |-> Head(toDevice).id]
      /\ pc' \in {"data", "handle"} /\ UNCHANGED <<host, toHost, driver, late>>
  BY DEF ReadRequest
<1>2. ContainersInv
  BY DEF ServerInv
<1>3. /\ toDevice' \in Seq(Containers) /\ Head(toDevice) = toDevice[1] /\ 1 \in DOMAIN toDevice
      /\ toDevice[1].type = "command" /\ driver = "ready" /\ toDevice[1] \in Containers
      /\ \A i \in Commanded(toDevice') : toDevice'[i].cmd \in Requests
      /\ \A k \in DOMAIN toDevice : Commanded(toDevice) = {k}
           => k = 1 /\ Commanded(toDevice') = {}
  BY <1>1, <1>2, ReadTakes
<1>4. 1 \in Commanded(toDevice)
  BY <1>3 DEF Commanded
<1>5. request'.cmd \in Requests /\ request'.id \in Ids /\ request'.id = toDevice[1].id
      /\ request' = [cmd |-> request'.cmd, id |-> request'.id]
  BY <1>1, <1>2, <1>3, <1>4 DEF ContainersInv, Containers
<1>6. pc' \in Working
  BY <1>1 DEF Working, Handling
<1>7. ContainersInv'
  BY <1>1, <1>2, <1>3, <1>5, <1>6 DEF ContainersInv
<1>8. StepInv'
  <2>1. SUFFICES ASSUME ~late PROVE host.pc # "idle" /\ Served'
    BY <1>1 DEF StepInv
  <2>2. host.pc # "idle" /\ Unread
    <3>1. pc \notin Working /\ Commanded(toDevice) # {}
      BY <1>1, <1>4 DEF Working, Handling
    <3> QED
      BY <1>3, <2>1, <3>1 DEF ServerInv, StepInv, Unasked, Served, Answered
  <2>3. PICK k \in DOMAIN toDevice : Commanded(toDevice) = {k} /\ toDevice[k].id = host.id
    BY <2>2 DEF Unread
  <2>4. k = 1 /\ Commanded(toDevice') = {}
    BY <1>3, <2>3
  <2>5. toHost = <<>>
    BY <2>2 DEF Unread
  <2> QED
    BY <1>1, <1>5, <1>6, <2>2, <2>3, <2>4, <2>5 DEF Served
<1> QED
  BY <1>7, <1>8 DEF ServerInv

LEMMA ReadStrayDataKeeps ==
  ASSUME ServerInv, ReadStrayData
  PROVE  ServerInv'
<1>1. /\ pc = "request" /\ Reads("data") /\ pc' \in Idle
      /\ request' \in [cmd : Requests \union {Nothing}, id : Ids]
      /\ UNCHANGED <<host, toHost, driver, late>>
  <2>1. /\ pc = "request" /\ Reads("data") /\ UNCHANGED <<host, toHost, driver, late>>
        /\ Top \/ (pc' = "exit" /\ request' = request)
    BY DEF ReadStrayData
  <2> QED
    BY <2>1, TopIs DEF Idle, ServerInv, ContainersInv
<1>2. ContainersInv
  BY DEF ServerInv
<1>3. /\ toDevice' \in Seq(Containers) /\ driver = "ready"
      /\ \A i \in Commanded(toDevice') : toDevice'[i].cmd \in Requests
      /\ Commanded(toDevice) = {} => Commanded(toDevice') = {}
      /\ \A k \in DOMAIN toDevice : Commanded(toDevice) = {k}
           => k - 1 \in DOMAIN toDevice' /\ Commanded(toDevice') = {k - 1}
              /\ toDevice'[k - 1] = toDevice[k]
  BY <1>1, <1>2, ReadTakes
<1>4. ContainersInv'
  BY <1>1, <1>2, <1>3, PhasesDiffer DEF ContainersInv, Working
<1>5. StepInv'
  <2>1. SUFFICES ASSUME ~late
                 PROVE  IF host.pc = "idle" THEN Unasked' ELSE (Unread \/ Served \/ Answered)'
    BY <1>1 DEF StepInv
  <2>2. CASE host.pc = "idle"
    BY <1>1, <1>3, <2>1, <2>2 DEF ServerInv, StepInv, Unasked
  <2>3. CASE host.pc # "idle" /\ Unread
    <3>1. PICK k \in DOMAIN toDevice : Commanded(toDevice) = {k} /\ toDevice[k].id = host.id
      BY <2>3 DEF Unread
    <3>2. k - 1 \in DOMAIN toDevice' /\ Commanded(toDevice') = {k - 1}
          /\ toDevice'[k - 1].id = host'.id
      BY <1>1, <1>3, <3>1
    <3> QED
      BY <1>1, <2>3, <3>2 DEF Unread
  <2>4. CASE host.pc # "idle" /\ Answered
    BY <1>1, <1>3, <2>4 DEF Answered
  <2>5. ~Served
    BY <1>1 DEF Served, Working, Handling
  <2> QED
    BY <1>3, <2>1, <2>2, <2>3, <2>4, <2>5 DEF ServerInv, StepInv
<1> QED
  BY <1>4, <1>5 DEF ServerInv

(* A handler, or run() for it, reads a data phase, or what there is of it. *)
LEMMA TakeKeeps ==
  ASSUME ServerInv, pc \in Working, pc # "respond", pc' \in Working, driver = "ready",
         toDevice' = toDevice \/ (toDevice # <<>> /\ toDevice' = Tail(toDevice)),
         Serving, UNCHANGED <<host, toHost, driver, late>>
  PROVE  ServerInv'
<1>1. toDevice \in Seq(Containers) /\ \A i \in Commanded(toDevice) : toDevice[i].cmd \in Requests
  BY DEF ServerInv, ContainersInv
<1>2. /\ toDevice' \in Seq(Containers)
      /\ \A i \in Commanded(toDevice') : toDevice'[i].cmd \in Requests
      /\ Commanded(toDevice) = {} => Commanded(toDevice') = {}
  <2>1. CASE toDevice' = toDevice
    BY <1>1, <2>1
  <2>2. CASE toDevice # <<>> /\ toDevice' = Tail(toDevice)
    <3>1. /\ toDevice' \in Seq(Containers)
          /\ \A i : i \in Commanded(toDevice')
                      <=> i \in DOMAIN toDevice /\ i + 1 \in Commanded(toDevice)
          /\ \A i \in DOMAIN toDevice' :
               i + 1 \in DOMAIN toDevice /\ toDevice'[i] = toDevice[i + 1]
      BY <1>1, <2>2, CommandedInTail
    <3>2. \A i \in Commanded(toDevice') : i \in DOMAIN toDevice'
      BY DEF Commanded
    <3>3. \A i \in Commanded(toDevice') : toDevice'[i].cmd \in Requests
      BY <1>1, <3>1, <3>2
    <3>4. Commanded(toDevice) = {} => Commanded(toDevice') = {}
      BY <3>1
    <3> QED
      BY <3>1, <3>3, <3>4
  <2> QED
    BY <2>1, <2>2
<1>3. ContainersInv'
  BY <1>2, ServingIs DEF ServerInv, ContainersInv
<1>4. StepInv'
  <2>1. SUFFICES ASSUME ~late PROVE host.pc # "idle" /\ Served'
    BY DEF StepInv
  <2>2. host.pc # "idle" /\ Served
    BY <2>1, PhasesDiffer DEF ServerInv, StepInv, Unasked, Unread, Answered
  <2> QED
    BY <1>2, <2>2, ServingIs DEF Served
<1> QED
  BY <1>3, <1>4 DEF ServerInv

(* Going offline, or back to the top with nothing on its way.              *)
LEMMA OfflineKeeps ==
  ASSUME ServerInv, driver = "offline", Serving, UNCHANGED <<usbVars, late>>,
         pc' \in Idle \/ (pc' \in Working /\ pc \in Working)
  PROVE  ServerInv'
<1>1. ContainersInv'
  BY ServingIs, PhasesDiffer DEF ServerInv, ContainersInv, usbVars
<1>2. StepInv'
  BY DEF StepInv, usbVars
<1> QED
  BY <1>1, <1>2 DEF ServerInv

LEMMA CallFailsKeeps ==
  ASSUME ServerInv, CallFails
  PROVE  ServerInv'
<1>1. CASE Canceled /\ Top
  BY <1>1, CanceledKeeps DEF CallFails
<1>2. CASE driver = "offline" /\ pc' = "exit" /\ UNCHANGED <<driver, request, mData>>
  <2>1. pc' \in Idle /\ Serving /\ UNCHANGED <<usbVars, late>>
    BY <1>2 DEF CallFails, Idle, usbVars, Serving, Handling
  <2> QED
    BY <1>2, <2>1, OfflineKeeps
<1> QED
  BY <1>1, <1>2 DEF CallFails

(* What a write appends.                                                   *)
LEMMA WriteAppends ==
  ASSUME ServerInv, NEW type \in {"data", "response"}, NEW made \in BOOLEAN, Writes(type, made)
  PROVE  /\ driver = "ready" /\ toHost' \in Seq(Replies) /\ toHost' # <<>>
         /\ Len(toHost') = Len(toHost) + 1 /\ Len(toHost) \in Nat
         /\ DOMAIN toHost' = 1 .. Len(toHost) + 1 /\ DOMAIN toHost = 1 .. Len(toHost)
         /\ \A i \in 1 .. Len(toHost) : toHost'[i] = toHost[i]
         /\ toHost'[Len(toHost) + 1] = [type |-> type, id |-> request.id, made |-> made]
<1> DEFINE c == [type |-> type, id |-> request.id, made |-> made]
<1>1. driver = "ready" /\ toHost' = Append(toHost, c)
  BY DEF Writes
<1>2. c \in Replies /\ toHost \in Seq(Replies)
  BY DEF ServerInv, ContainersInv, Replies
<1> HIDE DEF c
<1>3. /\ toHost' \in Seq(Replies) /\ Len(toHost') = Len(toHost) + 1 /\ Len(toHost) \in Nat
      /\ \A i \in 1 .. Len(toHost) : toHost'[i] = toHost[i]
      /\ toHost'[Len(toHost) + 1] = c
  BY <1>1, <1>2, AppendProperties
<1>4. DOMAIN toHost = 1 .. Len(toHost) /\ DOMAIN toHost' = 1 .. Len(toHost')
  BY <1>2, <1>3
<1>5. toHost' # <<>>
  BY <1>3
<1> QED
  BY <1>1, <1>3, <1>4, <1>5 DEF c

LEMMA DataKeeps ==
  ASSUME ServerInv, pc \in {"send", "sendfile"}, NEW made \in BOOLEAN, Writes("data", made),
         pc' = "respond", Serving, UNCHANGED <<host, toDevice, driver, late>>
  PROVE  ServerInv'
<1>1. /\ driver = "ready" /\ toHost' \in Seq(Replies)
      /\ Len(toHost) \in Nat /\ DOMAIN toHost' = 1 .. Len(toHost) + 1
      /\ DOMAIN toHost = 1 .. Len(toHost)
      /\ \A i \in 1 .. Len(toHost) : toHost'[i] = toHost[i]
      /\ toHost'[Len(toHost) + 1] = [type |-> "data", id |-> request.id, made |-> made]
  BY WriteAppends
<1>2. pc \in Working /\ pc' \in Working /\ request'.id = request.id
  BY ServingIs DEF Working, Handling
<1>3. ContainersInv'
  BY <1>1, <1>2, ServingIs DEF ServerInv, ContainersInv
<1>4. StepInv'
  <2>1. SUFFICES ASSUME ~late PROVE host.pc # "idle" /\ Served'
    BY <1>1 DEF StepInv
  <2>2. host.pc # "idle" /\ Served
    BY <1>1, <1>2, <2>1, PhasesDiffer DEF ServerInv, StepInv, Unasked, Unread, Answered
  <2>3. \A i \in 1 .. Len(toHost) + 1 : toHost'[i].type = "data" /\ toHost'[i].id = host.id
    <3>1. SUFFICES ASSUME NEW i \in 1 .. Len(toHost) + 1
                   PROVE  toHost'[i].type = "data" /\ toHost'[i].id = host.id
      OBVIOUS
    <3>2. CASE i = Len(toHost) + 1
      BY <1>1, <2>2, <3>2 DEF Served
    <3>3. CASE i \in 1 .. Len(toHost)
      BY <1>1, <2>2, <3>3 DEF Served
    <3> QED
      BY <1>1, <3>2, <3>3
  <2> QED
    BY <1>1, <1>2, <2>2, <2>3 DEF Served
<1> QED
  BY <1>3, <1>4 DEF ServerInv

LEMMA RespondKeeps ==
  ASSUME ServerInv, Respond
  PROVE  ServerInv'
<1>0. /\ pc = "respond" /\ Writes("response", FALSE) /\ Top
      /\ UNCHANGED <<host, toDevice, driver, late>>
  BY DEF Respond
<1>1. /\ driver = "ready" /\ toHost' \in Seq(Replies) /\ toHost' # <<>>
      /\ Len(toHost') = Len(toHost) + 1
      /\ Len(toHost) \in Nat /\ DOMAIN toHost' = 1 .. Len(toHost) + 1
      /\ DOMAIN toHost = 1 .. Len(toHost)
      /\ \A i \in 1 .. Len(toHost) : toHost'[i] = toHost[i]
      /\ toHost'[Len(toHost) + 1] = [type |-> "response", id |-> request.id, made |-> FALSE]
  BY <1>0, WriteAppends
<1>2. pc \in Working /\ pc' \in Idle /\ request' \in [cmd : Requests \union {Nothing}, id : Ids]
  BY <1>0, TopIs DEF Working
<1>3. ContainersInv'
  BY <1>0, <1>1, <1>2, PhasesDiffer DEF ServerInv, ContainersInv, Working
<1>4. StepInv'
  <2>1. SUFFICES ASSUME ~late PROVE host.pc # "idle" /\ Answered'
    BY <1>0, <1>1 DEF StepInv
  <2>2. host.pc # "idle" /\ Served
    BY <1>1, <1>2, <2>1, PhasesDiffer DEF ServerInv, StepInv, Unasked, Unread, Answered
  <2>3. \A i \in 1 .. Len(toHost) + 1 :
          toHost'[i].id = host.id /\ (toHost'[i].type = "response" <=> i = Len(toHost) + 1)
    <3>1. SUFFICES ASSUME NEW i \in 1 .. Len(toHost) + 1
                   PROVE  /\ toHost'[i].id = host.id
                          /\ toHost'[i].type = "response" <=> i = Len(toHost) + 1
      OBVIOUS
    <3>2. CASE i = Len(toHost) + 1
      BY <1>1, <2>2, <3>2 DEF Served
    <3>3. CASE i \in 1 .. Len(toHost)
      BY <1>1, <2>2, <3>3 DEF Served
    <3> QED
      BY <1>1, <3>2, <3>3
  <2> QED
    BY <1>0, <1>1, <1>2, <2>2, <2>3 DEF Served, Answered
<1> QED
  BY <1>3, <1>4 DEF ServerInv

(* What the handlers do to the exchange.                                   *)

LEMMA ReturnsAreQuiet ==
  ASSUME ServerInv, pc \in Working, pc # "respond", NEW data, ReturnsWith(data)
  PROVE  ServerInv'
<1>1. pc' \in Working /\ Serving /\ UNCHANGED <<usbVars, late>>
  BY DEF ReturnsWith, otherVars, Working, Handling, Serving
<1> QED
  BY <1>1, Quiet

LEMMA HandlersReturn ==
  ASSUME Refuse \/ Query \/ SetObjectPropValue \/ OpenSession \/ CloseSession \/ SendObjectInfo
         \/ SendFolderInfo \/ DeleteObject \/ TruncateObject \/ BeginEditObject \/ EndEditObject
  PROVE  pc = "handle" /\ \E data : ReturnsWith(data)
<1>1. CASE Refuse
  BY <1>1 DEF Refuse, Returns
<1>2. CASE Query
  BY <1>2 DEF Query, Answers, Begins, Returns
<1>3. CASE SetObjectPropValue
  BY <1>3 DEF SetObjectPropValue, Answers, Begins, Returns
<1>4. CASE OpenSession
  BY <1>4 DEF OpenSession, Answers, Begins, Returns
<1>5. CASE CloseSession
  BY <1>5 DEF CloseSession, Answers, Begins, Returns
<1>6. CASE SendObjectInfo
  BY <1>6 DEF SendObjectInfo, Answers, Begins, Returns
<1>7. CASE SendFolderInfo
  BY <1>7 DEF SendFolderInfo, Answers, Begins, Returns
<1>8. CASE DeleteObject
  BY <1>8 DEF DeleteObject, Answers, Begins, Returns
<1>9. CASE TruncateObject
  BY <1>9 DEF TruncateObject, Answers, Begins, Returns
<1>10. CASE BeginEditObject
  BY <1>10 DEF BeginEditObject, Answers, Begins, Returns
<1>11. CASE EndEditObject
  BY <1>11 DEF EndEditObject, Answers, Begins, Returns
<1> QED
  BY <1>1, <1>2, <1>3, <1>4, <1>5, <1>6, <1>7, <1>8, <1>9, <1>10, <1>11

LEMMA HandleRequestKeeps ==
  ASSUME ServerInv, HandleRequest
  PROVE  ServerInv'
<1>0. /\ {"handle", "receive", "transfer", "sendfile"} \subseteq Handling
      /\ Handling \subseteq Working /\ "respond" \in Working \ Handling
  BY DEF Working, Handling
<1>1. CASE Refuse \/ Query \/ SetObjectPropValue \/ OpenSession \/ CloseSession \/ SendObjectInfo
           \/ SendFolderInfo \/ DeleteObject \/ TruncateObject \/ BeginEditObject \/ EndEditObject
  <2>1. PICK data : ReturnsWith(data)
    BY <1>1, HandlersReturn
  <2>2. pc \in Working /\ pc # "respond"
    BY <1>0, <1>1, HandlersReturn
  <2> QED
    BY <2>1, <2>2, ReturnsAreQuiet
<1>2. CASE GetObject \/ SendObject \/ SendPartialObject
  <2>1. pc = "handle" /\ pc \in Working /\ pc # "respond"
    BY <1>0, <1>2 DEF GetObject, SendObject, SendPartialObject, Answers, Begins
  <2>2. \/ ReturnsWith(mData)
        \/ pc' \in Working /\ Serving /\ UNCHANGED <<usbVars, late>>
    BY <1>0, <1>2, <2>1 DEF GetObject, SendObject, SendPartialObject, Returns, Serving
  <2> QED
    BY <2>1, <2>2, ReturnsAreQuiet, Quiet
<1>3. CASE SendFile
  <2>1. pc = "sendfile" /\ UNCHANGED <<host, toDevice, late>>
    BY <1>3 DEF SendFile
  <2>2. CASE Writes("data", TRUE) /\ pc' = "respond" /\ Done /\ UNCHANGED <<driver, mData>>
    BY <1>0, <2>1, <2>2, DataKeeps DEF Serving
  <2>3. CASE ReturnsCanceled /\ UNCHANGED toHost
    BY <2>1, <2>3, CanceledKeeps DEF ReturnsCanceled
  <2>4. CASE pc' = "respond" /\ Done /\ UNCHANGED <<driver, toHost, mData>>
    BY <1>0, <2>1, <2>4, Quiet DEF usbVars, Serving
  <2> QED
    BY <1>3, <2>2, <2>3, <2>4 DEF SendFile
<1>4. CASE Receive
  <2>1. /\ pc = "receive" /\ pc' = "transfer" /\ driver = "ready"
        /\ toDevice # <<>> /\ toDevice' = Tail(toDevice)
        /\ UNCHANGED <<host, toHost, driver, request, late>>
    BY <1>4 DEF Receive, Reads
  <2> QED
    BY <1>0, <2>1, TakeKeeps DEF Serving
<1>5. CASE CreateFails
  <2>1. /\ pc = "receive" /\ pc' = "respond" /\ driver = "ready"
        /\ toDevice' = toDevice \/ (toDevice # <<>> /\ toDevice' = Tail(toDevice))
        /\ Done /\ UNCHANGED <<host, toHost, driver, late>>
    BY <1>5 DEF CreateFails
  <2> QED
    BY <1>0, <2>1, TakeKeeps DEF Serving
<1>6. CASE ReceiveFails
  <2>1. pc = "receive" /\ pc' = "respond" /\ Serving /\ UNCHANGED <<host, toDevice, toHost>>
    BY <1>0, <1>6 DEF ReceiveFails, Serving
  <2>2. CASE driver = "offline" /\ UNCHANGED <<driver, late>>
    BY <1>0, <2>1, <2>2, OfflineKeeps DEF usbVars
  <2>3. CASE Canceled /\ late' = TRUE
    <3>1. driver' \in {"canceled", "ready"} /\ driver # "ready" /\ driver # "offline"
      BY <2>3 DEF Canceled
    <3>2. ContainersInv'
      BY <1>0, <2>1, <3>1, ServingIs DEF ServerInv, ContainersInv
    <3>3. StepInv'
      BY <2>3 DEF StepInv
    <3> QED
      BY <3>2, <3>3 DEF ServerInv
  <2> QED
    BY <1>6, <2>2, <2>3 DEF ReceiveFails
<1>7. CASE ObjectSent \/ PartSent
  <2>1. pc = "transfer" /\ ReturnsWith("empty")
    BY <1>7 DEF ObjectSent, PartSent
  <2> QED
    BY <1>0, <2>1, ReturnsAreQuiet
<1>8. CASE ObjectLost
  <2>1. pc = "transfer" /\ UNCHANGED <<host, toDevice, toHost, late>>
    BY <1>8 DEF ObjectLost
  <2>2. CASE ReturnsCanceled
    BY <2>1, <2>2, CanceledKeeps DEF ReturnsCanceled
  <2>3. CASE pc' = "respond" /\ mData' = "empty" /\ Done /\ UNCHANGED driver
    BY <1>0, <2>1, <2>3, Quiet DEF usbVars, Serving
  <2> QED
    BY <1>8, <2>2, <2>3 DEF ObjectLost
<1>9. CASE PartLost
  <2>1. pc = "transfer"
    BY <1>9 DEF PartLost
  <2>2. CASE ReturnsCanceled /\ UNCHANGED <<host, toDevice, toHost, otherVars, late>>
    BY <2>2, CanceledKeeps DEF ReturnsCanceled
  <2>3. CASE ReturnsWith(mData)
    BY <1>0, <2>1, <2>3, ReturnsAreQuiet
  <2> QED
    BY <1>9, <2>2, <2>3 DEF PartLost, Returns
<1> QED
  BY <1>1, <1>2, <1>3, <1>4, <1>5, <1>6, <1>7, <1>8, <1>9 DEF HandleRequest

LEMMA RunKeeps ==
  ASSUME ServerInv, Run
  PROVE  ServerInv'
<1>1. CASE ReadData
  <2>1. /\ pc = "data" /\ pc' = "handle" /\ driver = "ready"
        /\ toDevice # <<>> /\ toDevice' = Tail(toDevice)
        /\ UNCHANGED <<host, toHost, driver, request, late>>
    BY <1>1 DEF ReadData, Reads
  <2>2. pc \in Working /\ pc' \in Working /\ Serving
    BY <2>1 DEF Working, Handling, Serving
  <2> QED
    BY <2>1, <2>2, TakeKeeps
<1>2. CASE SendData
  <2>1. /\ pc = "send" /\ Writes("data", mData = "made") /\ pc' = "respond"
        /\ UNCHANGED <<host, toDevice, driver, request, late>>
    BY <1>2 DEF SendData
  <2>2. (mData = "made") \in BOOLEAN /\ Serving
    BY <2>1 DEF Serving, Handling
  <2> QED
    BY <2>1, <2>2, DataKeeps
<1>3. CASE Exit
  <2>1. pc = "exit" /\ pc' = "ended" /\ UNCHANGED <<usbVars, request, late>>
    BY <1>3 DEF Exit
  <2>2. pc \in Idle /\ pc' \in Idle /\ pc \notin Working /\ pc' \notin Working
    BY <2>1 DEF Idle, Working, Handling
  <2> QED
    BY <2>1, <2>2 DEF ServerInv, ContainersInv, StepInv, Unread, Served, Answered, Unasked,
                       usbVars, Working
<1> QED
  BY <1>1, <1>2, <1>3, ReadRequestKeeps, ReadStrayDataKeeps, CallFailsKeeps, RespondKeeps DEF Run

LEMMA ServerBegins == Init => ServerInv
<1>1. SUFFICES ASSUME Init PROVE ServerInv
  OBVIOUS
<1>2. 0 \in Ids
  BY MtpServerAssumption DEF Ids
<1>3. Commanded(toDevice) = {}
  BY <1>1 DEF Init, Commanded
<1> QED
  BY <1>1, <1>2, <1>3 DEF Init, ServerInv, ContainersInv, StepInv, Unasked, NoRequest, Idle,
                            Working, Handling

LEMMA ServerStep == ServerInv /\ [Next]_vars => ServerInv'
<1>1. SUFFICES ASSUME ServerInv, [Next]_vars PROVE ServerInv'
  OBVIOUS
<1>2. CASE UNCHANGED vars
  BY <1>1, <1>2, QuietOthers DEF vars, usbVars, loopVars
<1>3. CASE \E r \in Requests : HostRequests(r)
  BY <1>1, <1>3, HostRequestsKeeps
<1>4. CASE ChangeStorages \/ Stop
  BY <1>1, <1>4, QuietOthers DEF ChangeStorages, Stop, loopVars
<1> QED
  BY <1>1, <1>2, <1>3, <1>4, HostSendsDataKeeps, HostReceivesKeeps, HostLeavesKeeps, RunKeeps,
    HandleRequestKeeps DEF Next

(* What the host gets.                                                     *)
LEMMA ServerAnswersInStep == ServerInv => AnswersAreInStep
<1>1. SUFFICES ASSUME ServerInv, ~late, NEW i \in DOMAIN toHost
               PROVE  /\ host.pc # "idle" /\ toHost[i].id = host.id
                      /\ toHost[i].type = "response"
                           <=> i = Len(toHost) /\ pc \notin {"send", "respond", "sendfile"}
  BY DEF AnswersAreInStep
<1>2. toHost # <<>> /\ driver = "ready"
  BY <1>1 DEF ServerInv, ContainersInv
<1>3. host.pc # "idle" /\ (Served \/ Answered)
  BY <1>1, <1>2 DEF ServerInv, StepInv, Unasked, Unread
<1>4. CASE Served
  BY <1>1, <1>2, <1>3, <1>4 DEF Served
<1>5. CASE Answered
  BY <1>1, <1>3, <1>5 DEF Answered, Idle
<1> QED
  BY <1>3, <1>4, <1>5

-----------------------------------------------------------------------------
(* Objects, their files and the edits of them                              *)

Edits == [handle : Handles, size : Sizes]
HandlesOf(l) == {l[i].handle : i \in DOMAIN l}

(* An object is open for edit once, and no edit is larger than its file    *)
(* but for those of which a part was cut short.                            *)
ListOK(l, f, c) ==
  /\ l \in Seq(Edits)
  /\ \A i, j \in DOMAIN l : l[i].handle = l[j].handle => i = j
  /\ \A i \in DOMAIN l : l[i].handle \notin c => l[i].size <= f[l[i].handle]

(* What is being sent was begun and is not open for edit; and the database *)
(* has the size of what is kept and not open for edit.                     *)
ObjectsOK(o, f, l, s) ==
  /\ o \in [Handles -> [state : {"none", "begun", "kept", "folder"}, size : Sizes]]
  /\ f \in [Handles -> Sizes]
  /\ s \in Handles \union {Invalid}
  /\ s # Invalid => o[s].state = "begun" /\ s \notin HandlesOf(l)
  /\ \A h \in Handles \ HandlesOf(l) : o[h].state = "kept" => o[h].size = f[h]

ObjectsInv ==
  /\ ListOK(mObjectEditList, files, cut) /\ cut \subseteq Handles
  /\ ObjectsOK(objects, files, mObjectEditList, mSendObjectHandle)
  /\ pc = "ended" => mObjectEditList = <<>>
  /\ pc \in {"receive", "transfer"} =>
       \/ cmd.op = "SendObject" /\ mSendObjectHandle # Invalid
       \/ cmd.op = "SendPartialObject" /\ IsOpen

LEMMA Forgetting ==
  ASSUME NEW o, NEW f, NEW l, NEW s, ObjectsOK(o, f, l, s)
  PROVE  ObjectsOK(o, f, l, Invalid)
  BY DEF ObjectsOK

(* A step that leaves the objects alone, but may forget what is being sent.*)
LEMMA ObjectsLeft ==
  ASSUME ObjectsInv, UNCHANGED objectVars, mSendObjectHandle' \in {mSendObjectHandle, Invalid},
         pc' \notin {"ended", "receive", "transfer"}
  PROVE  ObjectsInv'
<1>1. ObjectsOK(objects', files', mObjectEditList', mSendObjectHandle')
  BY Forgetting DEF ObjectsInv, objectVars, editVars
<1> QED
  BY <1>1 DEF ObjectsInv, objectVars, editVars

LEMMA ObjectsUntouched ==
  ASSUME ObjectsInv, UNCHANGED <<stateVars, request, pc>>
  PROVE  ObjectsInv'
<1>1. UNCHANGED <<objects, files, mObjectEditList, cut, mSendObjectHandle, pc>> /\ cmd' = cmd
      /\ IsOpen' = IsOpen
  BY DEF stateVars, objectVars, editVars, cmd, IsOpen, Edited
<1> QED
  BY <1>1 DEF ObjectsInv

(* getEditObject()                                                         *)
LEMMA EditIsFound ==
  ASSUME ObjectsInv, IsOpen
  PROVE  /\ Edit \in DOMAIN mObjectEditList /\ mObjectEditList[Edit].handle = cmd.handle
         /\ mObjectEditList[Edit] \in Edits /\ cmd.handle \in Handles
<1> DEFINE found == {i \in DOMAIN mObjectEditList : mObjectEditList[i].handle = cmd.handle}
<1>1. mObjectEditList \in Seq(Edits)
  BY DEF ObjectsInv, ListOK
<1>2. found \subseteq Nat /\ found # {}
  <2>1. DOMAIN mObjectEditList \subseteq Nat
    BY <1>1
  <2>2. PICK i \in DOMAIN mObjectEditList : cmd.handle = mObjectEditList[i].handle
    BY DEF IsOpen, Edited
  <2> QED
    BY <2>1, <2>2
<1>3. \E i \in found : \A j \in found : i <= j
  <2> HIDE DEF found
  <2> QED
    BY <1>2, Least
<1>4. Edit \in found
  BY <1>3 DEF Edit
<1>5. Edit \in DOMAIN mObjectEditList /\ mObjectEditList[Edit].handle = cmd.handle
  BY <1>4
<1>6. mObjectEditList[Edit] \in Edits
  BY <1>1, <1>5
<1>7. mObjectEditList[Edit].handle \in Handles
  BY <1>6 DEF Edits
<1> QED
  BY <1>5, <1>6, <1>7

(* A size written into an edit, with the file at least as large or what    *)
(* was written cut short, and no other file touched.                       *)
LEMMA EditChanges ==
  ASSUME NEW l, NEW o, NEW f, NEW s, NEW c, ListOK(l, f, c), ObjectsOK(o, f, l, s),
         NEW k \in DOMAIN l, NEW n \in Sizes, NEW size \in Sizes,
         NEW d, c \subseteq d \union {l[k].handle}, n <= size \/ l[k].handle \in d
  PROVE  /\ ListOK([l EXCEPT ![k].size = n], [f EXCEPT ![l[k].handle] = size], d)
         /\ ObjectsOK(o, [f EXCEPT ![l[k].handle] = size], [l EXCEPT ![k].size = n], s)
<1> DEFINE m == [l EXCEPT ![k].size = n]
           g == [f EXCEPT ![l[k].handle] = size]
<1>1. /\ l \in Seq(Edits) /\ f \in [Handles -> Sizes] /\ l[k] \in Edits
      /\ \A i \in DOMAIN l : l[i] \in Edits
  BY DEF ListOK, ObjectsOK
<1>2. /\ [l[k] EXCEPT !.size = n] \in Edits /\ [l[k] EXCEPT !.size = n].handle = l[k].handle
      /\ [l[k] EXCEPT !.size = n].size = n /\ l[k].handle \in Handles
  BY <1>1 DEF Edits
<1>3. m = [l EXCEPT ![k] = [l[k] EXCEPT !.size = n]]
  OBVIOUS
<1>4. m \in Seq(Edits) /\ DOMAIN m = DOMAIN l
  <2>1. DOMAIN l = 1 .. Len(l) /\ k \in 1 .. Len(l)
    BY <1>1
  <2>2. m \in Seq(Edits) /\ Len(m) = Len(l)
    BY <1>1, <1>2, <1>3, <2>1, ExceptSeq
  <2> QED
    BY <2>1, <2>2
<1>5. /\ \A i \in DOMAIN l : i # k => m[i] = l[i]
      /\ m[k] = [l[k] EXCEPT !.size = n]
  BY <1>3
<1>6. \A i \in DOMAIN l : m[i].handle = l[i].handle
  BY <1>2, <1>5
<1>7. g \in [Handles -> Sizes] /\ g[l[k].handle] = size
      /\ \A h \in Handles : h # l[k].handle => g[h] = f[h]
  BY <1>1, <1>2
<1> HIDE DEF m, g
<1>8. HandlesOf(m) = HandlesOf(l) /\ l[k].handle \in HandlesOf(l)
  BY <1>4, <1>6 DEF HandlesOf
<1>9. \A i \in DOMAIN m : m[i].handle \notin d => m[i].size <= g[m[i].handle]
  <2>1. SUFFICES ASSUME NEW i \in DOMAIN l, m[i].handle \notin d
                 PROVE  m[i].size <= g[m[i].handle]
    BY <1>4
  <2>2. CASE i = k
    BY <1>2, <1>5, <1>7, <2>1, <2>2
  <2>3. CASE i # k
    <3>1. l[i].handle # l[k].handle /\ l[i].handle \in Handles /\ l[i].size <= f[l[i].handle]
      <4>1. l[i].handle # l[k].handle /\ l[i].handle \notin c
        BY <1>6, <2>1, <2>3 DEF ListOK
      <4> QED
        BY <1>1, <4>1 DEF ListOK, Edits
    <3> QED
      BY <1>5, <1>7, <2>3, <3>1
  <2> QED
    BY <2>2, <2>3
<1>10. ListOK(m, g, d)
  BY <1>4, <1>6, <1>9 DEF ListOK
<1>11. ObjectsOK(o, g, m, s)
  <2>1. \A h \in Handles \ HandlesOf(m) : o[h].state = "kept" => o[h].size = g[h]
    BY <1>7, <1>8 DEF ObjectsOK
  <2> QED
    BY <1>7, <1>8, <2>1 DEF ObjectsOK
<1> QED
  BY <1>10, <1>11 DEF m, g

(* The file of what is not open for edit changes with what the database    *)
(* has of it.                                                              *)
LEMMA ObjectChanges ==
  ASSUME NEW l, NEW o, NEW f, NEW s, NEW c, ListOK(l, f, c), ObjectsOK(o, f, l, s),
         NEW h \in Handles \ HandlesOf(l),
         NEW x \in [state : {"none", "begun", "kept", "folder"}, size : Sizes],
         NEW size \in Sizes, x.state = "kept" => x.size = size,
         NEW t \in {h, Invalid}, t # Invalid => x.state = "begun"
  PROVE  /\ ListOK(l, [f EXCEPT ![h] = size], c)
         /\ ObjectsOK([o EXCEPT ![h] = x], [f EXCEPT ![h] = size], l, t)
<1> DEFINE p == [o EXCEPT ![h] = x]
           g == [f EXCEPT ![h] = size]
<1>1. /\ p \in [Handles -> [state : {"none", "begun", "kept", "folder"}, size : Sizes]]
      /\ g \in [Handles -> Sizes] /\ p[h] = x /\ g[h] = size
      /\ \A j \in Handles : j # h => p[j] = o[j] /\ g[j] = f[j]
  BY DEF ObjectsOK
<1> HIDE DEF p, g
<1>2. \A i \in DOMAIN l : l[i].handle \in Handles /\ l[i].handle # h
  <2>1. \A i \in DOMAIN l : l[i] \in Edits
    BY DEF ListOK
  <2>2. \A i \in DOMAIN l : l[i].handle \in Handles /\ l[i].handle \in HandlesOf(l)
    BY <2>1 DEF Edits, HandlesOf
  <2> QED
    BY <2>2
<1>3. ListOK(l, g, c)
  BY <1>1, <1>2 DEF ListOK
<1>4. ObjectsOK(p, g, l, t)
  <2>1. \A j \in Handles \ HandlesOf(l) : p[j].state = "kept" => p[j].size = g[j]
    BY <1>1 DEF ObjectsOK
  <2> QED
    BY <1>1, <2>1 DEF ObjectsOK
<1> QED
  BY <1>3, <1>4 DEF p, g

LEMMA GreaterIs ==
  ASSUME NEW a \in Int, NEW b \in Int
  PROVE  Max({a, b}) = IF a >= b THEN a ELSE b
<1> DEFINE m == IF a >= b THEN a ELSE b
<1>1. m \in {a, b} /\ \A y \in {a, b} : m >= y
  OBVIOUS
<1>2. \A x \in {a, b} : (\A y \in {a, b} : x >= y) => x = m
  OBVIOUS
<1> QED
  BY <1>1, <1>2 DEF Max

LEMMA GrownIs ==
  ASSUME ServerInv, pc \in Handling, cmd.op = "SendPartialObject",
         NEW size \in Sizes, NEW n \in 0 .. cmd.length
  PROVE  /\ Grown(size, n) \in Sizes /\ size <= Grown(size, n)
         /\ cmd.offset + n <= Grown(size, n) \/ n = 0
         /\ \A larger \in Sizes : size <= larger /\ cmd.offset + n <= larger => Grown(size, n) <= larger
         /\ \A larger \in Sizes : size <= larger => Grown(size, n) <= Grown(larger, n)
<1>1. /\ cmd.offset \in 0 .. MaxSize /\ cmd.length \in 0 .. MaxSize
      /\ cmd.offset + cmd.length <= MaxSize /\ MaxSize \in Nat
  BY MtpServerAssumption, RequestIs DEF ServerInv, ContainersInv, cmd, Sizes
<1>2. cmd.offset + n \in 0 .. MaxSize
  BY <1>1
<1>3. \A x \in Sizes :
        Grown(x, n) = IF n = 0 \/ x >= cmd.offset + n THEN x ELSE cmd.offset + n
  <2>1. SUFFICES ASSUME NEW x \in Sizes
                 PROVE  Grown(x, n) = IF n = 0 \/ x >= cmd.offset + n THEN x ELSE cmd.offset + n
    OBVIOUS
  <2>2. x \in Int /\ cmd.offset + n \in Int
    BY <1>1, <1>2 DEF Sizes
  <2> QED
    BY <2>2, GreaterIs DEF Grown
<1> QED
  BY <1>1, <1>2, <1>3 DEF Sizes

LEMMA EditedAre == Edited = HandlesOf(mObjectEditList)
  BY DEF Edited, HandlesOf

LEMMA HandlerLeaves ==
  ASSUME ObjectsInv, NEW data, ReturnsWith(data), UNCHANGED objectVars,
         mSendObjectHandle' \in {mSendObjectHandle, Invalid}
  PROVE  ObjectsInv'
<1>1. pc' \notin {"ended", "receive", "transfer"}
  BY DEF ReturnsWith
<1> QED
  BY <1>1, ObjectsLeft

LEMMA SendInfoKeeps ==
  ASSUME ServerInv, ObjectsInv, SendObjectInfo \/ SendFolderInfo
  PROVE  ObjectsInv'
<1>0. /\ pc = "handle" /\ pc' \notin {"ended", "receive", "transfer"}
      /\ cmd.length \in Sizes /\ 0 \in Sizes
  <2>1. pc = "handle" /\ \E data : ReturnsWith(data)
    BY HandlersReturn
  <2>2. cmd \in Requests
    BY <2>1 DEF ServerInv, ContainersInv, Handling, cmd
  <2> QED
    BY <2>1, <2>2, RequestIs, MtpServerAssumption DEF ReturnsWith, Sizes
<1>1. CASE UNCHANGED objectVars /\ mSendObjectHandle' = Invalid
  BY <1>0, <1>1, ObjectsLeft
<1>2. CASE SendObjectInfo /\ ~UNCHANGED objectVars
  <2>1. PICK h \in Handles \ Edited :
          /\ objects' = [objects EXCEPT ![h] = [state |-> "begun", size |-> cmd.length]]
          /\ files' = [files EXCEPT ![h] = 0]
          /\ mSendObjectHandle' = h
          /\ UNCHANGED editVars
    BY <1>2 DEF SendObjectInfo
  <2> DEFINE x == [state |-> "begun", size |-> cmd.length]
  <2>2. /\ x \in [state : {"none", "begun", "kept", "folder"}, size : Sizes]
        /\ x.state = "begun" /\ h \in Handles \ HandlesOf(mObjectEditList)
    BY <1>0, EditedAre
  <2> HIDE DEF x
  <2>3. /\ ListOK(mObjectEditList, files', cut)
        /\ ObjectsOK(objects', files', mObjectEditList, mSendObjectHandle')
    BY <1>0, <2>1, <2>2, ObjectChanges DEF ObjectsInv, x
  <2> QED
    BY <1>0, <2>1, <2>3 DEF ObjectsInv, editVars
<1>3. CASE SendFolderInfo /\ ~UNCHANGED objectVars
  <2>1. PICK h \in Handles \ Edited, made \in BOOLEAN :
          objects' = [objects EXCEPT ![h] = [state |-> IF made THEN "folder" ELSE "begun", size |-> 0]]
    BY <1>3 DEF SendFolderInfo, objectVars
  <2>2. UNCHANGED <<files, editVars>> /\ mSendObjectHandle' = Invalid
    BY <1>3 DEF SendFolderInfo, Forget
  <2> DEFINE x == [state |-> IF made THEN "folder" ELSE "begun", size |-> 0]
  <2>3. /\ x \in [state : {"none", "begun", "kept", "folder"}, size : Sizes]
        /\ x.state # "kept" /\ h \in Handles \ HandlesOf(mObjectEditList)
    BY <1>0, EditedAre
  <2> HIDE DEF x
  <2>4. files[h] \in Sizes /\ [files EXCEPT ![h] = files[h]] = files
    BY DEF ObjectsInv, ObjectsOK
  <2>5. /\ ListOK(mObjectEditList, [files EXCEPT ![h] = files[h]], cut)
        /\ ObjectsOK([objects EXCEPT ![h] = x], [files EXCEPT ![h] = files[h]], mObjectEditList,
                     Invalid)
    BY <2>3, <2>4, ObjectChanges DEF ObjectsInv
  <2>6. ObjectsOK(objects', files', mObjectEditList', mSendObjectHandle')
    BY <2>1, <2>2, <2>4, <2>5 DEF x, editVars
  <2> QED
    BY <1>0, <2>2, <2>6 DEF ObjectsInv, editVars
<1>4. UNCHANGED objectVars => mSendObjectHandle' = Invalid
  <2>1. CASE SendFolderInfo
    BY <2>1 DEF SendFolderInfo, Forget
  <2>2. CASE SendObjectInfo
    <3>1. CASE \E h \in Handles \ Edited :
                 /\ objects[h].state = "none"
                 /\ objects' = [objects EXCEPT ![h] = [state |-> "begun", size |-> cmd.length]]
      <4>1. PICK h \in Handles \ Edited :
              /\ objects[h].state = "none"
              /\ objects' = [objects EXCEPT ![h] = [state |-> "begun", size |-> cmd.length]]
        BY <3>1
      <4>2. objects'[h].state = "begun"
        BY <4>1 DEF ObjectsInv, ObjectsOK
      <4> QED
        BY <4>1, <4>2 DEF objectVars
    <3> QED
      BY <2>2, <3>1 DEF SendObjectInfo
  <2> QED
    BY <2>1, <2>2
<1> QED
  BY <1>1, <1>2, <1>3, <1>4

LEMMA Losing ==
  ASSUME NEW l, NEW o, NEW f, NEW s, ObjectsOK(o, f, l, s), NEW h,
         NEW p, p = [j \in Handles |-> IF j = h THEN NoObject ELSE o[j]]
  PROVE  ObjectsOK(p, f, l, Invalid)
<1>1. NoObject \in [state : {"none", "begun", "kept", "folder"}, size : Sizes]
      /\ NoObject.state = "none"
  BY MtpServerAssumption DEF NoObject, Sizes
<1> HIDE DEF NoObject
<1>2. p \in [Handles -> [state : {"none", "begun", "kept", "folder"}, size : Sizes]]
  BY <1>1 DEF ObjectsOK
<1>3. \A j \in Handles : p[j] = NoObject \/ p[j] = o[j]
  OBVIOUS
<1>4. \A j \in Handles \ HandlesOf(l) : p[j].state = "kept" => p[j].size = f[j]
  BY <1>1, <1>3 DEF ObjectsOK
<1> QED
  BY <1>2, <1>4 DEF ObjectsOK

LEMMA DeleteObjectKeeps ==
  ASSUME ObjectsInv, DeleteObject
  PROVE  ObjectsInv'
<1>1. /\ objects' = [objects EXCEPT ![cmd.handle] = NoObject]
      /\ mSendObjectHandle' = Invalid /\ UNCHANGED <<files, editVars>>
      /\ pc' \notin {"ended", "receive", "transfer"}
  BY DEF DeleteObject, Forget, Returns, ReturnsWith
<1>2. objects' = [j \in Handles |-> IF j = cmd.handle THEN NoObject ELSE objects[j]]
  BY <1>1 DEF ObjectsInv, ObjectsOK
<1>3. ObjectsOK(objects', files, mObjectEditList, Invalid)
  BY <1>2, Losing DEF ObjectsInv
<1> QED
  BY <1>1, <1>3 DEF ObjectsInv, editVars

(* What was begun is discarded, if sending it failed.                      *)
LEMMA DiscardKeeps ==
  ASSUME ObjectsInv, Discard, Forget, UNCHANGED <<files, editVars>>,
         pc' \notin {"ended", "receive", "transfer"}
  PROVE  ObjectsInv'
<1>1. ObjectsOK(objects', files, mObjectEditList, Invalid)
  BY Losing DEF ObjectsInv, Discard
<1> QED
  BY <1>1 DEF ObjectsInv, Forget, editVars

LEMMA ObjectSentKeeps ==
  ASSUME ObjectsInv, ObjectSent
  PROVE  ObjectsInv'
<1> DEFINE h == mSendObjectHandle
<1>1. /\ pc = "transfer" /\ cmd.op = "SendObject"
      /\ mSendObjectHandle' = Invalid /\ UNCHANGED editVars
      /\ pc' \notin {"ended", "receive", "transfer"}
  BY DEF ObjectSent, Forget, ReturnsWith
<1>2. h \in Handles \ HandlesOf(mObjectEditList)
  BY <1>1 DEF ObjectsInv, ObjectsOK
<1>3. PICK n \in 0 .. objects[h].size :
        /\ files' = [files EXCEPT ![h] = n]
        /\ objects' = [objects EXCEPT ![h] = [state |-> "kept", size |-> n]]
  BY DEF ObjectSent
<1> DEFINE x == [state |-> "kept", size |-> n]
<1>4. n \in Sizes
  <2>1. objects[h].size \in Sizes
    BY <1>2 DEF ObjectsInv, ObjectsOK
  <2> QED
    BY <1>3, <2>1, MtpServerAssumption DEF Sizes
<1>5. /\ x \in [state : {"none", "begun", "kept", "folder"}, size : Sizes]
      /\ x.size = n
  BY <1>4
<1> HIDE DEF x, h
<1>6. /\ ListOK(mObjectEditList, files, cut)
      /\ ObjectsOK(objects, files, mObjectEditList, mSendObjectHandle)
      /\ Invalid \in {h, Invalid}
  BY DEF ObjectsInv
<1>7. /\ ListOK(mObjectEditList, [files EXCEPT ![h] = n], cut)
      /\ ObjectsOK([objects EXCEPT ![h] = x], [files EXCEPT ![h] = n], mObjectEditList, Invalid)
  BY <1>2, <1>4, <1>5, <1>6, ObjectChanges
<1>8. objects' = [objects EXCEPT ![h] = x]
  BY <1>3 DEF x
<1> QED
  BY <1>1, <1>3, <1>7, <1>8 DEF ObjectsInv, editVars

(* An edit of the object in hand: its size and that of the file.           *)
LEMMA EditKeeps ==
  ASSUME ObjectsInv, IsOpen, NEW n \in Sizes, NEW size \in Sizes,
         n <= size \/ cmd.handle \in cut',
         cut \subseteq cut' \union {cmd.handle}, cut' \subseteq cut \union {cmd.handle},
         WithEdit(n), files' = [files EXCEPT ![cmd.handle] = size], UNCHANGED objects,
         mSendObjectHandle' \in {mSendObjectHandle, Invalid},
         pc' \notin {"ended", "receive", "transfer"}
  PROVE  ObjectsInv'
<1>1. /\ Edit \in DOMAIN mObjectEditList /\ mObjectEditList[Edit].handle = cmd.handle
      /\ mObjectEditList' = [mObjectEditList EXCEPT ![Edit].size = n]
  BY EditIsFound DEF WithEdit
<1>2. /\ ListOK(mObjectEditList, files, cut)
      /\ ObjectsOK(objects, files, mObjectEditList, mSendObjectHandle)
  BY DEF ObjectsInv
<1> DEFINE e == Edit
<1>3. /\ e \in DOMAIN mObjectEditList /\ mObjectEditList[e].handle = cmd.handle
      /\ mObjectEditList' = [mObjectEditList EXCEPT ![e].size = n]
  BY <1>1
<1> HIDE DEF e
<1>4. /\ ListOK(mObjectEditList', files', cut')
      /\ ObjectsOK(objects, files', mObjectEditList', mSendObjectHandle)
  BY <1>2, <1>3, EditChanges
<1>5. ObjectsOK(objects', files', mObjectEditList', mSendObjectHandle')
  BY <1>4, Forgetting
<1>6. cut' \subseteq Handles
  BY EditIsFound DEF ObjectsInv
<1> QED
  BY <1>4, <1>5, <1>6 DEF ObjectsInv

(* The file of the object in hand grows and no size is written.            *)
LEMMA FileGrows ==
  ASSUME ObjectsInv, IsOpen, NEW size \in Sizes, files[cmd.handle] <= size,
         files' = [files EXCEPT ![cmd.handle] = size],
         UNCHANGED <<objects, editVars, mSendObjectHandle>>,
         pc' \notin {"ended", "receive", "transfer"}
  PROVE  ObjectsInv'
<1> DEFINE e == Edit
           n == mObjectEditList[e].size
<1>1. /\ e \in DOMAIN mObjectEditList /\ mObjectEditList[e].handle = cmd.handle
      /\ mObjectEditList[e] \in Edits /\ n \in Sizes /\ cmd.handle \in Handles
  BY EditIsFound DEF Edits
<1>2. /\ ListOK(mObjectEditList, files, cut)
      /\ ObjectsOK(objects, files, mObjectEditList, mSendObjectHandle)
  BY DEF ObjectsInv
<1>3. mObjectEditList = [mObjectEditList EXCEPT ![e].size = n]
  <2>1. mObjectEditList \in Seq(Edits) /\ mObjectEditList[e] = [mObjectEditList[e] EXCEPT !.size = n]
    BY <1>1, <1>2 DEF ListOK, Edits
  <2> HIDE DEF e, n
  <2> QED
    BY <2>1
<1>4. n <= size \/ cmd.handle \in cut
  <2>1. n <= files[cmd.handle] \/ cmd.handle \in cut
    BY <1>1, <1>2 DEF ListOK
  <2>2. files[cmd.handle] \in Sizes
    BY <1>1, <1>2 DEF ObjectsOK
  <2> QED
    BY <1>1, <2>1, <2>2, MtpServerAssumption DEF Sizes
<1> HIDE DEF e, n
<1>5. /\ ListOK(mObjectEditList, files', cut)
      /\ ObjectsOK(objects, files', mObjectEditList, mSendObjectHandle)
  <2>1. /\ ListOK([mObjectEditList EXCEPT ![e].size = n],
                  [files EXCEPT ![mObjectEditList[e].handle] = size], cut)
        /\ ObjectsOK(objects, [files EXCEPT ![mObjectEditList[e].handle] = size],
                     [mObjectEditList EXCEPT ![e].size = n], mSendObjectHandle)
    BY <1>1, <1>2, <1>4, EditChanges
  <2> QED
    BY <1>1, <1>3, <2>1
<1> QED
  BY <1>5 DEF ObjectsInv, editVars

(* What a part does, with the size its edit gets and that of its file.     *)
LEMMA PartGrows ==
  ASSUME ServerInv, pc \in Handling, cmd.op = "SendPartialObject", NEW e \in Sizes, NEW f \in Sizes,
         NEW n \in 0 .. cmd.length, ~(n < cmd.length /\ f < cmd.offset + cmd.length),
         e <= f \/ (0 < n /\ n = cmd.length /\ e <= cmd.offset + n)
  PROVE  Grown(e, cmd.length) <= Grown(f, n)
<1>1. /\ cmd.offset \in 0 .. MaxSize /\ cmd.length \in 0 .. MaxSize /\ MaxSize \in Nat
      /\ e \in 0 .. MaxSize /\ f \in 0 .. MaxSize /\ n \in 0 .. MaxSize
  BY MtpServerAssumption, RequestIs DEF ServerInv, ContainersInv, cmd, Sizes
<1>2. cmd.length \in 0 .. cmd.length
  BY <1>1
<1>3. /\ Grown(f, n) \in Sizes /\ f <= Grown(f, n) /\ (cmd.offset + n <= Grown(f, n) \/ n = 0)
      /\ \A larger \in Sizes : f <= larger => Grown(f, n) <= Grown(larger, n)
  BY GrownIs
<1>4. /\ Grown(e, cmd.length) \in Sizes
      /\ \A larger \in Sizes :
           e <= larger /\ cmd.offset + cmd.length <= larger => Grown(e, cmd.length) <= larger
      /\ \A larger \in Sizes : e <= larger => Grown(e, cmd.length) <= Grown(larger, cmd.length)
  BY <1>2, GrownIs
<1> DEFINE g == Grown(f, n)
<1>5. g \in 0 .. MaxSize /\ f <= g
  BY <1>3 DEF Sizes
<1>6. CASE n = cmd.length /\ e <= f
  BY <1>4, <1>6
<1>7. CASE n # cmd.length /\ e <= f
  <2>1. cmd.offset + cmd.length <= f
    BY <1>1, <1>7
  <2>2. e <= g /\ cmd.offset + cmd.length <= g
    <3> HIDE DEF g
    <3> QED
      BY <1>1, <1>5, <1>7, <2>1
  <2> QED
    BY <1>3, <1>4, <2>2
<1>8. CASE 0 < n /\ n = cmd.length /\ e <= cmd.offset + n
  <2>1. cmd.offset + cmd.length <= g
    BY <1>1, <1>3, <1>8
  <2>2. e <= g
    <3> HIDE DEF g
    <3> QED
      BY <1>1, <1>5, <1>8, <2>1
  <2> QED
    BY <1>3, <1>4, <2>1, <2>2
<1> QED
  BY <1>6, <1>7, <1>8

LEMMA PartKeeps ==
  ASSUME ServerInv, ObjectsInv, PartSent \/ PartLost
  PROVE  ObjectsInv'
<1>1. /\ pc = "transfer" /\ cmd.op = "SendPartialObject" /\ IsOpen /\ pc \in Handling
      /\ mObjectEditList[Edit] \in Edits /\ mObjectEditList[Edit].handle = cmd.handle
      /\ cmd.handle \in Handles /\ Edit \in DOMAIN mObjectEditList
      /\ pc' \notin {"ended", "receive", "transfer"}
  <2>1. /\ pc = "transfer" /\ cmd.op = "SendPartialObject"
        /\ pc' \notin {"ended", "receive", "transfer"}
    BY DEF PartSent, PartLost, Returns, ReturnsWith, ReturnsCanceled, Top
  <2>2. IsOpen /\ pc \in Handling
    BY <2>1 DEF ObjectsInv, Handling
  <2> QED
    BY <2>1, <2>2, EditIsFound
<1> DEFINE e == mObjectEditList[Edit].size
           f == files[cmd.handle]
<1>2. /\ cmd.length \in 0 .. cmd.length /\ f \in Sizes /\ e \in Sizes
      /\ e <= f \/ cmd.handle \in cut
  <2>1. cmd \in Requests
    BY <1>1 DEF ServerInv, ContainersInv, cmd
  <2>2. (e <= f \/ cmd.handle \in cut) /\ f \in Sizes
    BY <1>1 DEF ObjectsInv, ListOK, ObjectsOK
  <2> QED
    BY <1>1, <2>1, <2>2, RequestIs, MtpServerAssumption DEF Edits, Sizes
<1>3. CASE PartSent
  <2>1. PICK n \in 0 .. cmd.length :
          /\ files' = [files EXCEPT ![cmd.handle] = Grown(@, n)]
          /\ cut' = IF CutShort(n) THEN cut \union {cmd.handle}
                    ELSE IF MadeWhole(n) THEN cut \ {cmd.handle} ELSE cut
    BY <1>3 DEF PartSent
  <2> DEFINE size == Grown(f, n)
             grown == Grown(e, cmd.length)
  <2>2. size \in Sizes /\ grown \in Sizes
    BY <1>1, <1>2, GrownIs
  <2>3. /\ WithEdit(grown) /\ files' = [files EXCEPT ![cmd.handle] = size]
        /\ UNCHANGED <<objects, mSendObjectHandle>>
    BY <1>3, <2>1 DEF PartSent
  <2>4. grown <= size \/ cmd.handle \in cut'
    <3>1. SUFFICES ASSUME cmd.handle \notin cut' PROVE grown <= size
      OBVIOUS
    <3>2. ~CutShort(n) /\ (e <= f \/ MadeWhole(n))
      BY <1>2, <2>1, <3>1
    <3>3. /\ ~(n < cmd.length /\ f < cmd.offset + cmd.length)
          /\ e <= f \/ (0 < n /\ n = cmd.length /\ e <= cmd.offset + n)
      BY <3>2 DEF CutShort, MadeWhole
    <3> HIDE DEF e, f
    <3> QED
      BY <1>1, <1>2, <3>3, PartGrows
  <2>5. cut \subseteq cut' \union {cmd.handle} /\ cut' \subseteq cut \union {cmd.handle}
    BY <2>1
  <2> HIDE DEF grown, size
  <2> QED
    BY <1>1, <2>2, <2>3, <2>4, <2>5, EditKeeps
<1>4. CASE PartLost
  <2>1. PICK n \in 0 .. cmd.length : files' = [files EXCEPT ![cmd.handle] = Grown(@, n)]
    BY <1>4 DEF PartLost
  <2> DEFINE size == Grown(f, n)
  <2>2. size \in Sizes /\ f <= size
    BY <1>1, <1>2, GrownIs
  <2>3. /\ files' = [files EXCEPT ![cmd.handle] = size]
        /\ UNCHANGED <<objects, editVars, mSendObjectHandle>>
    BY <1>4, <2>1 DEF PartLost
  <2> HIDE DEF size
  <2> QED
    BY <1>1, <2>2, <2>3, FileGrows
<1> QED
  BY <1>3, <1>4

LEMMA TruncateKeeps ==
  ASSUME ServerInv, ObjectsInv, TruncateObject
  PROVE  ObjectsInv'
<1>1. pc = "handle" /\ Returns /\ Forget /\ UNCHANGED objects
  BY DEF TruncateObject, Answers, Begins
<1>2. pc' \notin {"ended", "receive", "transfer"} /\ mSendObjectHandle' = Invalid
  BY <1>1 DEF Returns, ReturnsWith, Forget
<1>3. CASE UNCHANGED <<files, editVars>>
  BY <1>1, <1>2, <1>3, ObjectsLeft DEF objectVars
<1>4. CASE /\ IsOpen /\ files' = [files EXCEPT ![cmd.handle] = cmd.offset]
           /\ WithEdit(cmd.offset) /\ cut' = cut \ {cmd.handle}
  <2>1. cmd.offset \in Sizes /\ cmd.offset <= cmd.offset
    <3>1. cmd \in Requests
      BY <1>1 DEF ServerInv, ContainersInv, Handling, cmd
    <3>2. cmd.offset \in Sizes
      BY <3>1, RequestIs
    <3> QED
      BY <3>2, MtpServerAssumption DEF Sizes
  <2> QED
    BY <1>1, <1>2, <1>4, <2>1, EditKeeps
<1> QED
  BY <1>3, <1>4 DEF TruncateObject

(* An edit begins with the size of the file.                               *)
LEMMA EditBegins ==
  ASSUME NEW l, NEW o, NEW f, NEW s, NEW c, ListOK(l, f, c), ObjectsOK(o, f, l, s),
         NEW h \in Handles \ HandlesOf(l),
         NEW m, m = Append(l, [handle |-> h, size |-> f[h]])
  PROVE  ListOK(m, f, c) /\ ObjectsOK(o, f, m, Invalid)
<1> DEFINE e == [handle |-> h, size |-> f[h]]
<1>1. l \in Seq(Edits) /\ e \in Edits /\ e.handle = h /\ e.size = f[h] /\ e.size <= f[h]
  BY MtpServerAssumption DEF ListOK, ObjectsOK, Edits, Sizes
<1>2. m = Append(l, e)
  OBVIOUS
<1> HIDE DEF e
<1>3. /\ m \in Seq(Edits) /\ Len(m) = Len(l) + 1 /\ Len(l) \in Nat
      /\ \A i \in 1 .. Len(l) : m[i] = l[i]
      /\ m[Len(l) + 1] = e
  BY <1>1, <1>2, AppendProperties
<1>4. DOMAIN l = 1 .. Len(l) /\ DOMAIN m = 1 .. Len(l) + 1
  BY <1>1, <1>3
<1>5. \A i \in DOMAIN l : l[i].handle # h
  BY DEF HandlesOf
<1>6. \A i, j \in DOMAIN m : m[i].handle = m[j].handle => i = j
  <2>1. SUFFICES ASSUME NEW i \in DOMAIN m, NEW j \in DOMAIN m, m[i].handle = m[j].handle
                 PROVE  i = j
    OBVIOUS
  <2>2. \A k \in DOMAIN m : (k \in DOMAIN l /\ m[k] = l[k]) \/ (k = Len(l) + 1 /\ m[k] = e)
    BY <1>3, <1>4
  <2> QED
    BY <1>1, <1>5, <2>1, <2>2 DEF ListOK
<1>7. \A i \in DOMAIN m : m[i].handle \notin c => m[i].size <= f[m[i].handle]
  BY <1>1, <1>3, <1>4 DEF ListOK
<1>8. HandlesOf(l) \subseteq HandlesOf(m)
  <2>1. \A i \in DOMAIN l : i \in DOMAIN m /\ l[i].handle = m[i].handle
    BY <1>3, <1>4
  <2> QED
    BY <2>1 DEF HandlesOf
<1>9. ListOK(m, f, c)
  BY <1>3, <1>6, <1>7 DEF ListOK
<1>10. ObjectsOK(o, f, m, Invalid)
  BY <1>8 DEF ObjectsOK
<1> QED
  BY <1>9, <1>10

LEMMA BeginEditKeeps ==
  ASSUME ServerInv, ObjectsInv, BeginEditObject
  PROVE  ObjectsInv'
<1>1. pc = "handle" /\ Returns /\ Forget /\ UNCHANGED <<objects, files>> /\ ~Refuses
      /\ cmd.op = "BeginEditObject"
  BY DEF BeginEditObject, Answers, Begins
<1>2. pc' \notin {"ended", "receive", "transfer"} /\ mSendObjectHandle' = Invalid
  BY <1>1 DEF Returns, ReturnsWith, Forget
<1>3. CASE UNCHANGED editVars
  BY <1>1, <1>2, <1>3, ObjectsLeft DEF objectVars
<1>4. CASE /\ ~IsOpen /\ UNCHANGED cut
           /\ mObjectEditList' =
                Append(mObjectEditList, [handle |-> cmd.handle, size |-> files[cmd.handle]])
  <2>1. cmd \in Requests /\ ~cmd.few
    BY <1>1 DEF ServerInv, ContainersInv, Handling, cmd, Refuses
  <2>2. cmd.handle \in Handles \ HandlesOf(mObjectEditList)
    BY <1>1, <1>4, <2>1, RequestIs, EditedAre DEF IsOpen
  <2>3. /\ ListOK(mObjectEditList, files, cut)
        /\ ObjectsOK(objects, files, mObjectEditList, mSendObjectHandle)
    BY DEF ObjectsInv
  <2>4. ListOK(mObjectEditList', files, cut') /\ ObjectsOK(objects, files, mObjectEditList', Invalid)
    BY <1>4, <2>2, <2>3, EditBegins
  <2> QED
    BY <1>1, <1>2, <1>4, <2>4 DEF ObjectsInv
<1> QED
  BY <1>3, <1>4 DEF BeginEditObject

(* endSendObject() of the edits that go.                                   *)
LEMMA Committing ==
  ASSUME NEW l, NEW o, NEW f, NEW s, ObjectsOK(o, f, l, s), NEW hs, NEW m,
         HandlesOf(l) \subseteq HandlesOf(m) \union hs, HandlesOf(m) \subseteq HandlesOf(l),
         NEW p, p = [j \in Handles |-> IF j \in hs /\ o[j].state # "none"
                                       THEN [state |-> "kept", size |-> f[j]] ELSE o[j]],
         NEW t \in {s, Invalid}, t # Invalid => t \notin hs
  PROVE  ObjectsOK(p, f, m, t)
<1>1. p \in [Handles -> [state : {"none", "begun", "kept", "folder"}, size : Sizes]]
  BY DEF ObjectsOK
<1>2. \A j \in Handles : p[j] = o[j] \/ (p[j].state = "kept" /\ p[j].size = f[j])
  OBVIOUS
<1>3. \A j \in Handles : j \in hs => p[j].state # "kept" \/ p[j].size = f[j]
  OBVIOUS
<1>4. \A j \in Handles \ HandlesOf(m) : p[j].state = "kept" => p[j].size = f[j]
  <2>1. SUFFICES ASSUME NEW j \in Handles \ HandlesOf(m), p[j].state = "kept"
                 PROVE  p[j].size = f[j]
    OBVIOUS
  <2>2. CASE j \in hs
    BY <1>3, <2>1, <2>2
  <2>3. CASE j \notin HandlesOf(l)
    BY <1>2, <2>1, <2>3 DEF ObjectsOK
  <2> QED
    BY <2>2, <2>3
<1>5. t # Invalid => p[t] = o[t] /\ p[t].state = "begun" /\ t \notin HandlesOf(m)
  BY DEF ObjectsOK
<1>6. t \in Handles \union {Invalid}
  BY DEF ObjectsOK
<1> QED
  BY <1>1, <1>4, <1>5, <1>6 DEF ObjectsOK

(* removeEditObject()                                                      *)
LEMMA EditGoes ==
  ASSUME NEW l, NEW f, NEW c, ListOK(l, f, c), NEW k \in DOMAIN l, NEW m, m = RemoveAt(l, k)
  PROVE  /\ ListOK(m, f, c \ {l[k].handle}) /\ HandlesOf(m) \subseteq HandlesOf(l)
         /\ HandlesOf(l) \subseteq HandlesOf(m) \union {l[k].handle}
<1>1. l \in Seq(Edits) /\ Len(l) \in Nat /\ DOMAIN l = 1 .. Len(l) /\ k \in 1 .. Len(l)
  BY DEF ListOK
<1> DEFINE a == SubSeq(l, 1, k - 1)
           b == SubSeq(l, k + 1, Len(l))
<1>2. /\ a \in Seq(Edits) /\ Len(a) = k - 1 /\ \A i \in 1 .. k - 1 : a[i] = l[i]
      /\ b \in Seq(Edits) /\ Len(b) = Len(l) - k /\ \A i \in 1 .. Len(l) - k : b[i] = l[i + k]
  <2>1. \A i \in 1 .. k - 1 : l[i] \in Edits
    BY <1>1
  <2>2. \A i \in k + 1 .. Len(l) : l[i] \in Edits
    BY <1>1
  <2>3. a \in Seq(Edits) /\ Len(a) = k - 1 /\ \A i \in 1 .. k - 1 : a[i] = l[i]
    BY <1>1, <2>1, SubSeqProperties
  <2>4. b \in Seq(Edits) /\ Len(b) = Len(l) - k /\ \A i \in 1 .. Len(l) - k : b[i] = l[i + k]
    BY <1>1, <2>2, SubSeqProperties
  <2> QED
    BY <2>3, <2>4
<1>3. m = a \o b
  BY DEF RemoveAt
<1> HIDE DEF a, b
<1>4. /\ m \in Seq(Edits) /\ Len(m) = Len(l) - 1 /\ DOMAIN m = 1 .. Len(l) - 1
      /\ \A i \in 1 .. Len(l) - 1 : m[i] = IF i < k THEN l[i] ELSE l[i + 1]
  <2>1. /\ m \in Seq(Edits) /\ Len(m) = Len(a) + Len(b)
        /\ \A i \in 1 .. Len(a) + Len(b) : m[i] = IF i <= Len(a) THEN a[i] ELSE b[i - Len(a)]
    BY <1>2, <1>3, ConcatProperties
  <2>2. Len(m) = Len(l) - 1 /\ Len(a) + Len(b) = Len(l) - 1
    BY <1>1, <1>2, <2>1
  <2>3. ASSUME NEW i \in 1 .. Len(l) - 1 PROVE m[i] = IF i < k THEN l[i] ELSE l[i + 1]
    <3>1. CASE i < k
      <4>1. i \in 1 .. Len(a) + Len(b) /\ i <= Len(a) /\ i \in 1 .. k - 1
        BY <1>1, <1>2, <2>2, <3>1
      <4> QED
        BY <1>2, <2>1, <3>1, <4>1
    <3>2. CASE i >= k
      <4>1. i - (k - 1) \in 1 .. Len(l) - k /\ (i - (k - 1)) + k = i + 1 /\ ~(i <= Len(a))
        BY <1>1, <1>2, <3>2
      <4>2. m[i] = b[i - (k - 1)]
        <5>1. i \in 1 .. Len(a) + Len(b)
          BY <2>2
        <5>2. m[i] = b[i - Len(a)] /\ Len(a) = k - 1
          BY <1>2, <2>1, <4>1, <5>1
        <5> QED
          BY <5>2
      <4> QED
        BY <1>1, <1>2, <3>2, <4>1, <4>2
    <3> QED
      BY <1>1, <3>1, <3>2
  <2>4. DOMAIN m = 1 .. Len(l) - 1
    BY <2>1, <2>2
  <2>5. \A i \in 1 .. Len(l) - 1 : m[i] = IF i < k THEN l[i] ELSE l[i + 1]
    BY <2>3
  <2> QED
    BY <2>1, <2>2, <2>4, <2>5
<1>5. \A i \in DOMAIN m : \E j \in DOMAIN l : m[i] = l[j] /\ j = (IF i < k THEN i ELSE i + 1)
  BY <1>1, <1>4
<1>6. \A i \in DOMAIN l : i # k => \E j \in DOMAIN m : m[j] = l[i]
  <2>1. SUFFICES ASSUME NEW i \in DOMAIN l, i # k PROVE \E j \in DOMAIN m : m[j] = l[i]
    OBVIOUS
  <2>2. CASE i < k
    BY <1>1, <1>4, <2>2
  <2>3. CASE i > k
    <3>1. i - 1 \in DOMAIN m /\ ~(i - 1 < k) /\ (i - 1) + 1 = i
      BY <1>1, <1>4, <2>3
    <3>2. m[i - 1] = l[i]
      BY <1>4, <3>1
    <3> QED
      BY <3>1, <3>2
  <2> QED
    BY <1>1, <2>1, <2>2, <2>3
<1>7. \A i, j \in DOMAIN m : m[i].handle = m[j].handle => i = j
  <2>1. SUFFICES ASSUME NEW i \in DOMAIN m, NEW j \in DOMAIN m, m[i].handle = m[j].handle
                 PROVE  i = j
    OBVIOUS
  <2>2. PICK a1 \in DOMAIN l : m[i] = l[a1] /\ a1 = (IF i < k THEN i ELSE i + 1)
    BY <1>5
  <2>3. PICK a2 \in DOMAIN l : m[j] = l[a2] /\ a2 = (IF j < k THEN j ELSE j + 1)
    BY <1>5
  <2>4. a1 = a2
    BY <2>1, <2>2, <2>3 DEF ListOK
  <2> QED
    BY <1>1, <1>4, <2>2, <2>3, <2>4
<1>8. \A i \in DOMAIN m : m[i].handle \notin c \ {l[k].handle} => m[i].size <= f[m[i].handle]
  <2>1. SUFFICES ASSUME NEW i \in DOMAIN m, m[i].handle \notin c \ {l[k].handle}
                 PROVE  m[i].size <= f[m[i].handle]
    OBVIOUS
  <2>2. PICK j \in DOMAIN l : m[i] = l[j] /\ j = (IF i < k THEN i ELSE i + 1)
    BY <1>5
  <2>3. j # k
    BY <1>1, <1>4, <2>2
  <2>4. l[j].handle # l[k].handle
    BY <2>3 DEF ListOK
  <2> QED
    BY <2>1, <2>2, <2>4 DEF ListOK
<1>9. HandlesOf(m) \subseteq HandlesOf(l)
  BY <1>5 DEF HandlesOf
<1>10. HandlesOf(l) \subseteq HandlesOf(m) \union {l[k].handle}
  BY <1>6 DEF HandlesOf
<1>11. ListOK(m, f, c \ {l[k].handle})
  BY <1>4, <1>7, <1>8 DEF ListOK
<1> QED
  BY <1>9, <1>10, <1>11

LEMMA EndEditKeeps ==
  ASSUME ServerInv, ObjectsInv, EndEditObject
  PROVE  ObjectsInv'
<1>1. pc = "handle" /\ Returns /\ Forget /\ UNCHANGED files
  BY DEF EndEditObject, Answers, Begins
<1>2. pc' \notin {"ended", "receive", "transfer"} /\ mSendObjectHandle' = Invalid
  BY <1>1 DEF Returns, ReturnsWith, Forget
<1>3. CASE ~IsOpen
  BY <1>1, <1>2, <1>3, ObjectsLeft DEF EndEditObject, objectVars
<1>4. CASE IsOpen
  <2> DEFINE k == Edit
             h == cmd.handle
  <2>1. /\ objects' = Committed({h}) /\ mObjectEditList' = RemoveAt(mObjectEditList, k)
        /\ cut' = cut \ {h}
        /\ k \in DOMAIN mObjectEditList /\ mObjectEditList[k].handle = h
    BY <1>4, EditIsFound DEF EndEditObject
  <2>2. /\ ListOK(mObjectEditList, files, cut)
        /\ ObjectsOK(objects, files, mObjectEditList, mSendObjectHandle)
        /\ Invalid \in {mSendObjectHandle, Invalid}
    BY DEF ObjectsInv
  <2> HIDE DEF k, h
  <2>3. /\ ListOK(mObjectEditList', files, cut')
        /\ HandlesOf(mObjectEditList') \subseteq HandlesOf(mObjectEditList)
        /\ HandlesOf(mObjectEditList) \subseteq HandlesOf(mObjectEditList') \union {h}
    BY <2>1, <2>2, EditGoes
  <2>4. ObjectsOK(objects', files, mObjectEditList', Invalid)
    <3> DEFINE m == mObjectEditList'
               p == objects'
               hs == {h}
    <3>1. p = [j \in Handles |-> IF j \in hs /\ objects[j].state # "none"
                                 THEN [state |-> "kept", size |-> files[j]] ELSE objects[j]]
      BY <2>1 DEF Committed
    <3>2. /\ HandlesOf(m) \subseteq HandlesOf(mObjectEditList)
          /\ HandlesOf(mObjectEditList) \subseteq HandlesOf(m) \union hs
      BY <2>3
    <3> HIDE DEF m, p, hs
    <3>3. ObjectsOK(p, files, m, Invalid)
      BY <2>2, <3>1, <3>2, Committing
    <3> QED
      BY <3>3 DEF m, p
  <2> QED
    BY <1>1, <1>2, <2>1, <2>3, <2>4 DEF ObjectsInv
<1> QED
  BY <1>3, <1>4

LEMMA ExitKeeps ==
  ASSUME ObjectsInv, Exit
  PROVE  ObjectsInv'
<1>1. /\ pc' = "ended" /\ mObjectEditList' = <<>> /\ objects' = Committed(Edited) /\ cut' = {}
      /\ UNCHANGED <<mSendObjectHandle, files>>
  BY DEF Exit
<1> DEFINE hs == Edited
           m == <<>>
<1>2. ListOK(m, files, {})
  BY DEF ListOK
<1>3. /\ HandlesOf(m) \subseteq HandlesOf(mObjectEditList)
      /\ HandlesOf(mObjectEditList) \subseteq HandlesOf(m) \union hs
  BY EditedAre DEF HandlesOf
<1>4. /\ ObjectsOK(objects, files, mObjectEditList, mSendObjectHandle)
      /\ mSendObjectHandle # Invalid => mSendObjectHandle \notin hs
      /\ mSendObjectHandle \in {mSendObjectHandle, Invalid}
  BY EditedAre DEF ObjectsInv, ObjectsOK
<1>5. objects' = [j \in Handles |-> IF j \in hs /\ objects[j].state # "none"
                                    THEN [state |-> "kept", size |-> files[j]] ELSE objects[j]]
  BY <1>1 DEF Committed
<1> HIDE DEF hs
<1>6. ObjectsOK(objects', files, m, mSendObjectHandle)
  BY <1>3, <1>4, <1>5, Committing
<1> QED
  BY <1>1, <1>2, <1>6 DEF ObjectsInv

-----------------------------------------------------------------------------
(* Every step                                                              *)

(* The handlers that read a data phase, and those that have none.          *)
LEMMA TransferKeeps ==
  ASSUME ObjectsInv,
         SendObject \/ SendPartialObject \/ Receive \/ CreateFails \/ ReceiveFails \/ ObjectLost
  PROVE  ObjectsInv'
<1>1. CASE SendObject
  <2>1. CASE \E data : ReturnsWith(data)
    BY <1>1, <2>1, HandlerLeaves DEF SendObject
  <2>2. CASE ~\E data : ReturnsWith(data)
    <3>1. /\ mSendObjectHandle # Invalid /\ cmd.op = "SendObject" /\ pc' = "receive"
          /\ UNCHANGED <<request, mSendObjectHandle, objects, files, mObjectEditList, cut>>
      BY <1>1, <2>2 DEF SendObject, Begins, Returns, objectVars, editVars
    <3>2. cmd' = cmd
      BY <3>1 DEF cmd
    <3> QED
      BY <3>1, <3>2 DEF ObjectsInv
  <2> QED
    BY <2>1, <2>2
<1>2. CASE SendPartialObject
  <2>1. CASE \E data : ReturnsWith(data)
    BY <1>2, <2>1, HandlerLeaves DEF SendPartialObject, Forget
  <2>2. CASE ~\E data : ReturnsWith(data)
    <3>1. /\ IsOpen /\ cmd.op = "SendPartialObject" /\ pc' = "receive"
          /\ UNCHANGED <<request, objects, files, mObjectEditList, cut>>
          /\ mSendObjectHandle' = Invalid
      BY <1>2, <2>2 DEF SendPartialObject, Begins, Returns, objectVars, editVars, Forget
    <3>2. cmd' = cmd /\ IsOpen'
      BY <3>1 DEF cmd, IsOpen, Edited
    <3>3. ObjectsOK(objects', files', mObjectEditList', mSendObjectHandle')
      BY <3>1, Forgetting DEF ObjectsInv
    <3> QED
      BY <3>1, <3>2, <3>3 DEF ObjectsInv
  <2> QED
    BY <2>1, <2>2
<1>3. CASE Receive
  <2>1. /\ pc = "receive" /\ pc' = "transfer"
        /\ UNCHANGED <<request, mSendObjectHandle, objects, files, mObjectEditList, cut>>
    BY <1>3 DEF Receive, stateVars, objectVars, editVars
  <2>2. cmd' = cmd /\ (IsOpen => IsOpen')
    BY <2>1 DEF cmd, IsOpen, Edited
  <2> QED
    BY <2>1, <2>2 DEF ObjectsInv
<1>4. CASE CreateFails
  BY <1>4, DiscardKeeps DEF CreateFails
<1>5. CASE ReceiveFails
  <2>1. CASE cmd.op = "SendObject"
    BY <1>5, <2>1, DiscardKeeps DEF ReceiveFails
  <2>2. CASE cmd.op # "SendObject"
    BY <1>5, <2>2, ObjectsLeft DEF ReceiveFails, objectVars
  <2> QED
    BY <2>1, <2>2
<1>6. CASE ObjectLost
  <2>1. pc' \notin {"ended", "receive", "transfer"}
    BY <1>6 DEF ObjectLost, ReturnsCanceled, Top
  <2> QED
    BY <1>6, <2>1, DiscardKeeps DEF ObjectLost
<1> QED
  BY <1>1, <1>2, <1>3, <1>4, <1>5, <1>6

LEMMA HandlersKeepObjects ==
  ASSUME ServerInv, ObjectsInv, HandleRequest
  PROVE  ObjectsInv'
<1>1. CASE Refuse
  BY <1>1, HandlerLeaves DEF Refuse, Returns, Forget
<1>2. CASE Query
  BY <1>2, HandlerLeaves DEF Query, Returns, Forget
<1>3. CASE SetObjectPropValue
  BY <1>3, HandlerLeaves DEF SetObjectPropValue, Returns, Forget
<1>4. CASE OpenSession \/ CloseSession
  BY <1>4, HandlerLeaves DEF OpenSession, CloseSession, Returns, Forget
<1>5. CASE SendObjectInfo \/ SendFolderInfo
  BY <1>5, SendInfoKeeps
<1>6. CASE DeleteObject
  BY <1>6, DeleteObjectKeeps
<1>7. CASE GetObject
  <2>1. UNCHANGED objectVars /\ mSendObjectHandle' = Invalid
        /\ pc' \notin {"ended", "receive", "transfer"}
    BY <1>7 DEF GetObject, Forget, Returns, ReturnsWith
  <2> QED
    BY <2>1, ObjectsLeft
<1>8. CASE SendFile
  <2>1. UNCHANGED <<objectVars, mSendObjectHandle>> /\ pc' \notin {"ended", "receive", "transfer"}
    BY <1>8 DEF SendFile, ReturnsCanceled, Top, stateVars
  <2> QED
    BY <2>1, ObjectsLeft
<1>9. CASE SendObject \/ SendPartialObject \/ Receive \/ CreateFails \/ ReceiveFails \/ ObjectLost
  BY <1>9, TransferKeeps
<1>10. CASE ObjectSent
  BY <1>10, ObjectSentKeeps
<1>11. CASE PartSent \/ PartLost
  BY <1>11, PartKeeps
<1>12. CASE TruncateObject
  BY <1>12, TruncateKeeps
<1>13. CASE BeginEditObject
  BY <1>13, BeginEditKeeps
<1>14. CASE EndEditObject
  BY <1>14, EndEditKeeps
<1> QED
  BY <1>1, <1>2, <1>3, <1>4, <1>5, <1>6, <1>7, <1>8, <1>9, <1>10, <1>11, <1>12, <1>13, <1>14
     DEF HandleRequest

LEMMA RunKeepsObjects ==
  ASSUME ObjectsInv, Run
  PROVE  ObjectsInv'
<1>1. CASE Exit
  BY <1>1, ExitKeeps
<1>2. CASE ReadRequest \/ ReadStrayData \/ ReadData \/ CallFails \/ SendData \/ Respond
  <2>1. /\ UNCHANGED objectVars /\ mSendObjectHandle' \in {mSendObjectHandle, Invalid}
        /\ pc' \notin {"ended", "receive", "transfer"}
    <3>1. CASE ReadRequest
      BY <3>1 DEF ReadRequest, stateVars
    <3>2. CASE ReadStrayData
      BY <3>2 DEF ReadStrayData, Top
    <3>3. CASE ReadData
      BY <3>3 DEF ReadData, stateVars
    <3>4. CASE CallFails
      BY <3>4 DEF CallFails, Top, stateVars
    <3>5. CASE SendData
      BY <3>5 DEF SendData, stateVars
    <3>6. CASE Respond
      BY <3>6 DEF Respond, Top, stateVars
    <3> QED
      BY <1>2, <3>1, <3>2, <3>3, <3>4, <3>5, <3>6
  <2> QED
    BY <2>1, ObjectsLeft
<1> QED
  BY <1>1, <1>2 DEF Run

LEMMA ObjectsBegin == Init => ObjectsInv
<1>1. SUFFICES ASSUME Init PROVE ObjectsInv
  OBVIOUS
<1>2. 0 \in Sizes
  BY MtpServerAssumption DEF Sizes
<1>3. ListOK(mObjectEditList, files, cut)
  BY <1>1 DEF Init, ListOK
<1>4. ObjectsOK(objects, files, mObjectEditList, mSendObjectHandle)
  BY <1>1, <1>2 DEF Init, ObjectsOK, NoObject
<1> QED
  BY <1>1, <1>3, <1>4 DEF Init, ObjectsInv

LEMMA ObjectsStep == ServerInv /\ ObjectsInv /\ [Next]_vars => ObjectsInv'
<1>1. SUFFICES ASSUME ServerInv, ObjectsInv, [Next]_vars PROVE ObjectsInv'
  OBVIOUS
<1>2. CASE Run
  BY <1>1, <1>2, RunKeepsObjects
<1>3. CASE HandleRequest
  BY <1>1, <1>3, HandlersKeepObjects
<1>4. CASE ~Run /\ ~HandleRequest
  <2>1. UNCHANGED <<stateVars, request, pc>>
    <3>1. CASE \E r \in Requests : HostRequests(r)
      BY <3>1 DEF HostRequests, loopVars
    <3>2. CASE HostSendsData \/ HostReceives \/ HostCancels \/ Unplug
      BY <3>2 DEF HostSendsData, HostReceives, HostCancels, Unplug, loopVars
    <3>3. CASE ChangeStorages \/ Stop
      BY <3>3 DEF ChangeStorages, Stop, loopVars
    <3>4. CASE UNCHANGED vars
      BY <3>4 DEF vars, loopVars
    <3> QED
      BY <1>1, <1>4, <3>1, <3>2, <3>3, <3>4 DEF Next
  <2> QED
    BY <1>1, <2>1, ObjectsUntouched
<1> QED
  BY <1>2, <1>3, <1>4

-----------------------------------------------------------------------------
(* What follows                                                            *)

LEMMA SizesFollow == ObjectsInv => SizesAreCurrent
  BY EditedAre DEF ObjectsInv, ListOK, ObjectsOK, SizesAreCurrent

(* As many objects are open for edit as there are edits.                   *)
LEMMA EditsAreCounted ==
  ASSUME NEW l, NEW f, NEW c, ListOK(l, f, c)
  PROVE  Cardinality(HandlesOf(l)) = Len(l)
<1>1. Len(l) \in Nat /\ DOMAIN l = 1 .. Len(l)
  BY DEF ListOK
<1> DEFINE g == [i \in 1 .. Len(l) |-> l[i].handle]
<1>2. g \in Bijection(1 .. Len(l), HandlesOf(l))
  <2>1. g \in [1 .. Len(l) -> HandlesOf(l)]
    BY <1>1 DEF HandlesOf
  <2>2. \A i, j \in 1 .. Len(l) : g[i] = g[j] => i = j
    BY <1>1 DEF ListOK
  <2>3. \A h \in HandlesOf(l) : \E i \in 1 .. Len(l) : g[i] = h
    BY <1>1 DEF HandlesOf
  <2> HIDE DEF g
  <2> QED
    BY <2>1, <2>2, <2>3, Fun_IsBij
<1>3. IsFiniteSet(1 .. Len(l)) /\ Cardinality(1 .. Len(l)) = Len(l)
  <2>1. \A n \in Nat : IsFiniteSet(1 .. n) /\ Cardinality(1 .. n) = n
    BY FS_Interval
  <2> QED
    BY <1>1, <2>1
<1>4. ExistsBijection(1 .. Len(l), HandlesOf(l))
  BY <1>2 DEF ExistsBijection
<1> QED
  BY <1>3, <1>4, FS_Bijection

LEMMA TypeFollows == ServerInv /\ ObjectsInv => TypeOK
<1>1. SUFFICES ASSUME ServerInv, ObjectsInv PROVE TypeOK
  OBVIOUS
<1>2. Cardinality(Edited) = Len(mObjectEditList)
  BY <1>1, EditedAre, EditsAreCounted DEF ObjectsInv
<1>3. mObjectEditList \in Seq([handle : Handles, size : Sizes])
  BY <1>1 DEF ObjectsInv, ListOK, Edits
<1> QED
  BY <1>1, <1>2, <1>3 DEF TypeOK, ServerInv, ContainersInv, ObjectsInv, ObjectsOK

(* A host that cancels a request hears no more of it, and nothing it gets  *)
(* belongs to another request than the one it waits for or comes after the *)
(* response, however many transaction ids there are and whatever the host, *)
(* the driver and the other threads do (MtpServer::run()).                 *)
THEOREM AnswersKeepStepAlways == Spec => []AnswersKeepStep
<1>1. Init => ServerInv /\ ObjectsInv
  BY ServerBegins, ObjectsBegin
<1>2. (ServerInv /\ ObjectsInv) /\ [Next]_vars => (ServerInv /\ ObjectsInv)'
  BY ServerStep, ObjectsStep
<1>3. ServerInv /\ ObjectsInv => AnswersKeepStep
  BY TypeFollows, ServerAnswersInStep DEF AnswersKeepStep
<1> QED
  BY <1>1, <1>2, <1>3, PTL DEF Spec

(* The database has the size of every file that is kept and not open for   *)
(* edit, and no edit believes its file larger than it is, whatever fails   *)
(* or is cancelled in between, but for a pwrite() that was cut short and   *)
(* taken for success, and for any number of objects and sizes.             *)
THEOREM SizesAreCurrentAlways == Spec => []SizesAreCurrent
<1>1. Init => ServerInv /\ ObjectsInv
  BY ServerBegins, ObjectsBegin
<1>2. (ServerInv /\ ObjectsInv) /\ [Next]_vars => (ServerInv /\ ObjectsInv)'
  BY ServerStep, ObjectsStep
<1>3. ServerInv /\ ObjectsInv => SizesAreCurrent
  BY SizesFollow
<1> QED
  BY <1>1, <1>2, <1>3, PTL DEF Spec

=============================================================================
