--------------------------- MODULE GraphicBuffer ---------------------------
(***************************************************************************)
(* GraphicBuffers of one process, native/libs/ui/GraphicBuffer.cpp, with   *)
(* GraphicBufferAllocator.cpp, which lists what the device has given, and  *)
(* GraphicBufferMapper.cpp, which registers the handles of buffers that    *)
(* were received.  Each object is used by one thread at a time.            *)
(*                                                                         *)
(* Width, height, format and usage are one number, the size.  A handle is  *)
(* an address of the process's heap, which is given again once it is free. *)
(***************************************************************************)
EXTENDS Integers, FiniteSets, Functions

CONSTANTS
  Buffers,     \* objects
  Addresses,   \* bound: of handles
  BufferSizes  \* what is asked for; 0 is an empty buffer

GraphicBufferAssumption == BufferSizes \union Addresses \subseteq Nat /\ 0 \notin Addresses

VARIABLES
  object,      \* the objects, and what the call that is made has still to do
  heap,        \* what is at each address: how much the handle gives access to
  sAllocList,  \* what the device has given, by handle
  flattened,   \* a buffer as it was sent
  lost,        \* history: handles that nobody has any more
  reused       \* history: handles given again before they were unlisted

bufferVars == <<object, heap, sAllocList, flattened, lost, reused>>

NULL == 0
Free == [kind |-> "free", size |-> 0]
Flat(size, room) == [size |-> size, room |-> room]
None ==
  [handle |-> NULL, size |-> 0, mOwner |-> "ownData", failed |-> FALSE,
   todo |-> "construct", then |-> "construct", asked |-> Flat(0, 0)]

Init ==
  /\ object = [b \in Buffers |-> None]
  /\ heap = [a \in Addresses |-> Free]
  /\ sAllocList = [a \in {} |-> 0]
  /\ flattened = Flat(0, 0) /\ lost = {} /\ reused = {}

ToDo(b, todo) == object[b].todo = todo
Unlisting(a) == {b \in Buffers : object[b].handle = a /\ ToDo(b, "unlist")}
Becomes(b, o) ==
  object' = [object EXCEPT ![b] = IF o.todo = "construct" THEN None ELSE o]
Returns(b, o) ==
  Becomes(b, [o EXCEPT !.todo = "call", !.then = None.then, !.asked = None.asked])

-----------------------------------------------------------------------------
(* GraphicBufferAllocator::alloc(), of which what is given is listed after *)
(* and is never empty, and the rest of initSize().                         *)

RoomFor(size) == IF size = 0 THEN 1 ELSE size

Alloc(b, a) ==
  /\ ToDo(b, "alloc") /\ heap[a] = Free
  /\ heap' = [heap EXCEPT ![a] = [kind |-> "device", size |-> RoomFor(object[b].asked.size)]]
  /\ Becomes(b, [object[b] EXCEPT !.handle = a, !.todo = "list"])
  /\ reused' = IF Unlisting(a) = {} THEN reused ELSE reused \union {a}
  /\ UNCHANGED <<sAllocList, flattened, lost>>

AllocFails(b) ==
  /\ ToDo(b, "alloc")
  /\ Returns(b, [object[b] EXCEPT !.failed = TRUE])
  /\ UNCHANGED <<heap, sAllocList, flattened, lost, reused>>

List(b) ==
  /\ ToDo(b, "list")
  /\ sAllocList' = [a \in DOMAIN sAllocList \union {object[b].handle} |->
       IF a = object[b].handle THEN RoomFor(object[b].asked.size) ELSE sAllocList[a]]
  /\ Returns(b, [object[b] EXCEPT !.size = object[b].asked.size, !.failed = FALSE])
  /\ UNCHANGED <<heap, flattened, lost, reused>>

(* GraphicBufferAllocator::free(), of which what the device has back is    *)
(* unlisted after.  A handle that was received is unregistered and deleted.*)
FreeHandle(b, then, asked) ==
  LET h == object[b].handle
      device == object[b].mOwner = "ownData" /\ h # NULL
  IN
  /\ heap' = IF h = NULL THEN heap ELSE [heap EXCEPT ![h] = Free]
  /\ Becomes(b, [object[b] EXCEPT
       !.handle = IF device THEN @ ELSE NULL, !.asked = asked,
       !.todo = IF device THEN "unlist" ELSE then, !.then = then])
  /\ UNCHANGED <<sAllocList, flattened, lost>>

Unlist(b) ==
  /\ ToDo(b, "unlist")
  /\ sAllocList' = Restrict(sAllocList, DOMAIN sAllocList \ {object[b].handle})
  /\ Becomes(b, [object[b] EXCEPT !.handle = NULL, !.todo = object[b].then])
  /\ LET h == object[b].handle IN
     reused' = IF heap[h] = Free /\ Unlisting(h) = {b} THEN reused \ {h} ELSE reused
  /\ UNCHANGED <<heap, flattened, lost>>

-----------------------------------------------------------------------------
(* The calls on an object *)

(* An object is made empty, or with a size.                                *)
Construct(b) ==
  /\ ToDo(b, "construct")
  /\ \/ Returns(b, None)
     \/ \E size \in BufferSizes :
          Becomes(b, [None EXCEPT !.todo = "alloc", !.asked = Flat(size, 0)])
  /\ UNCHANGED <<heap, sAllocList, flattened, lost, reused>>

Destroy(b) ==
  ToDo(b, "call") /\ FreeHandle(b, "construct", Flat(0, 0)) /\ UNCHANGED reused

(* What has the size already is kept.                                      *)
Keeps(b, size) == object[b].handle # NULL /\ size = object[b].size
Reallocate(b, size) ==
  /\ ToDo(b, "call") /\ object[b].mOwner = "ownData" /\ ~Keeps(b, size)
  /\ FreeHandle(b, "alloc", Flat(size, 0))
  /\ UNCHANGED reused

Flatten(b) ==
  /\ ToDo(b, "call")
  /\ flattened' = IF object[b].handle = NULL THEN Flat(0, 0)
             ELSE Flat(object[b].size, heap[object[b].handle].size)
  /\ UNCHANGED <<object, heap, sAllocList, lost, reused>>

(* unflatten(): what it has is freed and a handle made of what was sent, if *)
(* there is one.  One that cannot be registered is forgotten.              *)
Unflatten(b) ==
  ToDo(b, "call") /\ FreeHandle(b, "receive", flattened) /\ UNCHANGED reused

Received(b, handle, size, owner) ==
  Returns(b, [object[b] EXCEPT
    !.handle = handle, !.size = size, !.mOwner = owner, !.failed = FALSE])

ReceiveEmpty(b) ==
  /\ ToDo(b, "receive") /\ object[b].asked.room = 0
  /\ Received(b, NULL, 0, "ownHandle")
  /\ UNCHANGED <<heap, sAllocList, flattened, lost, reused>>

Receive(b, a) ==
  /\ ToDo(b, "receive") /\ object[b].asked.room # 0 /\ heap[a] = Free
  /\ heap' = [heap EXCEPT ![a] = [kind |-> "received", size |-> object[b].asked.room]]
  /\ \/ Received(b, a, object[b].asked.size, "ownHandle") /\ UNCHANGED lost
     \/ Received(b, NULL, 0, "ownHandle") /\ lost' = lost \union {a}
  /\ UNCHANGED <<sAllocList, flattened, reused>>

NoHandle(b) ==
  /\ ToDo(b, "receive") /\ object[b].asked.room # 0
  /\ Received(b, NULL, 0, object[b].mOwner)
  /\ UNCHANGED <<heap, sAllocList, flattened, lost, reused>>

Next ==
  \E b \in Buffers :
    \/ \E a \in Addresses : Alloc(b, a) \/ Receive(b, a)
    \/ AllocFails(b) \/ List(b) \/ Unlist(b)
    \/ Construct(b) \/ Destroy(b) \/ Flatten(b) \/ Unflatten(b)
    \/ ReceiveEmpty(b) \/ NoHandle(b)
    \/ \E size \in BufferSizes : Reallocate(b, size)

Spec == Init /\ [][Next]_bufferVars

-----------------------------------------------------------------------------
(* Properties *)

(* Each handle is one object's, which knows whose it is to free, and one   *)
(* that is not is free, unless it could not be registered.                 *)
Holders(a) == {b \in Buffers : object[b].handle = a /\ object[b].todo # "unlist"}
HandlesAreOwned ==
  \A a \in Addresses :
    /\ Cardinality(Holders(a)) = (IF heap[a] = Free \/ a \in lost THEN 0 ELSE 1)
    /\ \A b \in Holders(a) : (object[b].mOwner = "ownData") = (heap[a].kind = "device")

(* What lock() takes to be in the buffer is memory the handle gives access *)
(* to; and an object that says it needs no reallocation to a size has such *)
(* memory, unless one failed.                                              *)
BuffersHaveTheirSize ==
  \A b \in Buffers : LET o == object[b] IN
    /\ ToDo(b, "call") /\ o.handle # NULL => o.size <= heap[o.handle].size
    /\ ToDo(b, "call") /\ o.handle = NULL /\ ~o.failed => o.size = 0

(* The list has what the device has given, unless that was given again     *)
(* before it was unlisted.                                                 *)
AllocationsAreListed ==
  (\A b \in Buffers : object[b].todo \in {"construct", "call"}) =>
    \A a \in Addresses \ reused :
      IF heap[a].kind = "device" THEN a \in DOMAIN sAllocList /\ sAllocList[a] = heap[a].size
      ELSE a \notin DOMAIN sAllocList

GraphicBuffersAreSound == HandlesAreOwned /\ BuffersHaveTheirSize /\ AllocationsAreListed

=============================================================================
