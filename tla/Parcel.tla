------------------------------- MODULE Parcel -------------------------------
(***************************************************************************)
(* The container behind every binder message, native/libs/binder/          *)
(* Parcel.cpp: data that grows, is truncated, appended to another parcel's *)
(* or lent by the driver, with an index of the objects in it, a reference  *)
(* to each binder and the descriptors it owns.                             *)
(*                                                                         *)
(* Data is counted in cells of four bytes, which every value is padded to. *)
(* Of its contents only the flattened objects matter.  Callers append:     *)
(* they write objects at the end, and plain values over plain values.      *)
(***************************************************************************)
EXTENDS Integers, Sequences, FiniteSets, FiniteSetsExt, SequencesExt, Functions, TLC

CONSTANTS
  Binders,     \* the binders, local or remote, that are sent
  ObjectCells, \* sizeof(flat_binder_object)
  TakesFds,    \* whether somebody writes to received data with descriptors
  LentFds,     \* whether descriptors are appended that their parcel does not own
  MaxSize,     \* bound: cells of data
  MaxFd        \* bound: descriptors open at a time, number 1 being somebody else's

ParcelAssumption ==
  /\ ObjectCells \in Nat \ {0} /\ TakesFds \in BOOLEAN /\ LentFds \in BOOLEAN
  /\ MaxSize \in Nat /\ MaxFd \in Nat \ {0}

Fds == 1 .. MaxFd

VARIABLES
  parcel,     \* the fields of the Parcel
  refs,       \* strong references it holds to each binder
  open,       \* the descriptors that are open
  allocSize   \* gParcelGlobalAllocSize

vars == <<parcel, refs, open, allocSize>>

(* A flattened object: own tells whether the parcel closes a descriptor    *)
(* (obj.cookie); no index entry is made for a null binder.                 *)
Null == [type |-> "null", id |-> 0, own |-> FALSE]
Binder(b) == [type |-> "binder", id |-> b, own |-> FALSE]
Fd(n, own) == [type |-> "fd", id |-> n, own |-> own]

(* initState().  flat has the objects in the data, by their offset; null   *)
(* is mData == NULL and owner mOwner != NULL.                              *)
Fresh == [null |-> TRUE, size |-> 0, cap |-> 0, pos |-> 0, flat |-> <<>>, objects |-> <<>>,
          hint |-> 0, owner |-> FALSE, hasFds |-> FALSE, fdsKnown |-> TRUE,
          allowFds |-> TRUE, ashmem |-> 0]

Init ==
  /\ parcel = Fresh
  /\ refs = [b \in Binders |-> 0]
  /\ open = {1}
  /\ allocSize = 0

-----------------------------------------------------------------------------
(* The parcel with what is outside it, for operators to pass on            *)

World == [q |-> parcel, refs |-> refs, open |-> open, alloc |-> allocSize]
Becomes(w) ==
  /\ parcel' = w.q
  /\ refs' = w.refs /\ open' = w.open /\ allocSize' = w.alloc

IsFd(q, index) == \E i \in DOMAIN index : q.flat[index[i]].type = "fd"
Count(q, index, obj) == Cardinality({i \in DOMAIN index : q.flat[index[i]] = obj})
Owned(q, index) == {n \in Fds : \E i \in DOMAIN index : q.flat[index[i]] = Fd(n, TRUE)}

(* acquire_object() and release_object() of the objects of an index.  Each *)
(* descriptor is of an ashmem region of one unit.                          *)
Acquired(w, index) ==
  [w EXCEPT !.refs = [b \in Binders |-> @[b] + Count(w.q, index, Binder(b))],
            !.q.ashmem = @ + Cardinality(Owned(w.q, index))]
Released(w, index) ==
  [w EXCEPT !.refs = [b \in Binders |-> @[b] - Count(w.q, index, Binder(b))],
            !.q.ashmem = @ - Cardinality(Owned(w.q, index)),
            !.open = @ \ Owned(w.q, index)]

(* mOwner is IPCThreadState::freeBuffer(), which closes the descriptors;   *)
(* the driver drops the buffer's references.                               *)
BufferFreed(w) ==
  [w EXCEPT !.open = @ \ {n \in Fds : \E i \in DOMAIN w.q.objects :
                            w.q.flat[w.q.objects[i]] \in {Fd(n, TRUE), Fd(n, FALSE)}}]

(* freeDataNoInit() and freeData(). *)
FreedNoInit(w) ==
  IF w.q.owner THEN BufferFreed(w)
  ELSE [Released(w, w.q.objects) EXCEPT !.alloc = @ - w.q.cap]
Freed(w) == [FreedNoInit(w) EXCEPT !.q = Fresh]

-----------------------------------------------------------------------------
(* continueWrite() *)

Cut(flat, n) == Restrict(flat, {d \in DOMAIN flat : d < n})
Smaller(a, b) == IF a < b THEN a ELSE b

(* Keeping an object that begins where the data ends now.                  *)
KeptAtEnd(q, n) == SelectSeq(q.objects, LAMBDA d : d <= n)

(* Objects that begin at or after the new size are dropped.                *)
Kept(q, n) == IF n < q.size THEN SelectSeq(q.objects, LAMBDA d : d < n) ELSE q.objects
Dropped(q, n) == SubSeq(q.objects, Len(Kept(q, n)) + 1, Len(q.objects))

(* Taking possession of the driver's data.                                 *)
TakenOver(w, n) ==
  LET kept == Kept(w.q, n) IN
  [BufferFreed(Acquired(w, kept)) EXCEPT
     !.alloc = @ + n, !.q.owner = FALSE, !.q.cap = n, !.q.size = Smaller(@, n),
     !.q.objects = kept, !.q.flat = Cut(@, n), !.q.hint = 0]

Truncated(w, n) ==
  LET v == Released(w, Dropped(w.q, n)) IN
  [v EXCEPT !.q.objects = Kept(w.q, n), !.q.flat = Cut(@, n),
            !.q.hint = IF Dropped(w.q, n) = <<>> THEN @ ELSE 0,
            !.q.fdsKnown = @ /\ ~IsFd(w.q, Dropped(w.q, n)),
            !.q.size = Smaller(@, n), !.q.pos = Smaller(@, n)]

Reallocated(w, n) == [w EXCEPT !.alloc = @ + n - w.q.cap, !.q.cap = n]

ContinueWrite(w, n) ==
  CASE w.q.owner /\ n = 0 -> Freed(w)
    [] w.q.owner /\ n > 0 -> TakenOver(w, n)
    [] ~w.q.owner /\ ~w.q.null /\ n > w.q.cap -> Reallocated(w, n)
    [] ~w.q.owner /\ ~w.q.null /\ n <= w.q.cap -> Truncated(w, n)
    [] OTHER -> [w EXCEPT !.q.null = FALSE, !.q.cap = n, !.q.size = 0, !.q.pos = 0,
                          !.alloc = @ + n]

(* growData(), which writers call when the data would not fit.             *)
WithRoomFor(w, len, end) ==
  IF end <= w.q.cap THEN w ELSE ContinueWrite(w, ((w.q.size + len) * 3) \div 2)

(* finishWrite() *)
Finished(w, len) ==
  [w EXCEPT !.q.pos = @ + len, !.q.size = IF w.q.pos + len > @ THEN w.q.pos + len ELSE @]

-----------------------------------------------------------------------------
(* What callers do.  Data that descriptors came with in the driver's       *)
(* buffer is written to, which takes it over, only if TakesFds.            *)
MayGrow == parcel.owner /\ IsFd(parcel, parcel.objects) => TakesFds

(* Writers may write where no object is.                                   *)
Plain(q, n) == \A d \in DOMAIN q.flat : n < d \/ n >= d + ObjectCells

(* writeAligned(), and writeInplace() of as much.                          *)
WriteAligned ==
  LET q == parcel IN
  /\ MayGrow /\ q.pos < MaxSize /\ Plain(q, q.pos)
  /\ Becomes(Finished(WithRoomFor(World, 1, q.pos + 1), 1))

(* writeObject(): an object that is not null gets an index entry.  A       *)
(* descriptor that is not allowed leaves the parcel as it was, but for its *)
(* capacity.                                                               *)
Listed(obj) == obj.type # "null"
ObjectWritten(w, obj) ==
  LET v == [w EXCEPT !.q.flat = [d \in DOMAIN @ \union {w.q.pos} |->
                                   IF d = w.q.pos THEN obj ELSE w.q.flat[d]]] IN
  IF ~Listed(obj) THEN Finished(v, ObjectCells)
  ELSE Finished([Acquired(v, <<w.q.pos>>) EXCEPT !.q.objects = Append(@, w.q.pos),
                   !.q.hasFds = @ \/ obj.type = "fd", !.q.fdsKnown = @ \/ obj.type = "fd"],
                ObjectCells)

WriteObject(obj) ==
  LET q == parcel
      w == WithRoomFor(World, ObjectCells, q.pos + ObjectCells) IN
  /\ MayGrow /\ q.pos = q.size /\ q.pos + ObjectCells <= MaxSize
  /\ Becomes(IF obj.type = "fd" /\ ~q.allowFds THEN w ELSE ObjectWritten(w, obj))

WriteBinder(b) == WriteObject(Binder(b))
WriteNull == WriteObject(Null)
WriteFileDescriptor == WriteObject(Fd(1, FALSE))

(* dup() takes the lowest number that is free.                             *)
Dup(o) == CHOOSE n \in Fds \ o : \A m \in Fds \ o : n <= m

(* writeDupFileDescriptor(), which closes the copy if it was not taken.    *)
WriteDup ==
  LET q == parcel
      w == WithRoomFor(World, ObjectCells, q.pos + ObjectCells)
      v == [w EXCEPT !.open = @ \union {Dup(open)}] IN
  /\ MayGrow /\ q.pos = q.size /\ q.pos + ObjectCells <= MaxSize
  /\ Fds \ open # {}
  /\ Becomes(IF q.allowFds THEN ObjectWritten(v, Fd(Dup(open), TRUE)) ELSE w)

(* appendFrom(): an object that was copied whole is acquired as it is in   *)
(* the source, then its descriptor is duplicated.                          *)
AppendedObject(w, obj, at) ==
  LET v == [w EXCEPT !.q.flat = [d \in DOMAIN @ \union {at} |->
                                   IF d = at THEN obj ELSE w.q.flat[d]]]
      u == [Acquired(v, <<at>>) EXCEPT !.q.objects = Append(@, at)] IN
  IF ~Listed(obj) THEN v
  ELSE IF obj.type # "fd" THEN u
  ELSE [u EXCEPT !.q.flat[at] = Fd(Dup(w.open), TRUE), !.open = @ \union {Dup(w.open)},
                 !.q.hasFds = TRUE, !.q.fdsKnown = TRUE]

(* What another parcel may hold: an object between two cells of values.    *)
Source(obj) == [size |-> ObjectCells + 2, flat |-> (1 :> obj)]
Sources ==
  {Source(o) : o \in {Binder(b) : b \in Binders} \union {Null, Fd(1, TRUE)}
                 \union (IF LentFds THEN {Fd(1, FALSE)} ELSE {})}

(* The objects of the range are copied with it, and those listed appended  *)
(* to the index.                                                           *)
InRange(d, offset, len) == d >= offset /\ d + ObjectCells <= offset + len

AppendFrom(source, offset, len) ==
  LET q == parcel
      w == WithRoomFor(World, len, q.size + len)
      copied == {d \in DOMAIN source.flat : InRange(d, offset, len)}
      v == FoldLeft(LAMBDA u, d : AppendedObject(u, source.flat[d], d - offset + q.pos),
                    w, SetToSortSeq(copied, <)) IN
  /\ MayGrow /\ offset + len <= source.size
  /\ q.pos = q.size /\ q.pos + len <= MaxSize
  /\ Fds \ open # {}
  /\ Becomes([v EXCEPT !.q.pos = @ + len, !.q.size = @ + len])

(* setDataSize(): to the end of a value or an object.                      *)
SetDataSize(n) ==
  LET q == parcel IN
  /\ n = 0 \/ n > q.size \/ Plain(q, n - 1) \/ n - ObjectCells \in DOMAIN q.flat
  /\ q.owner => n = 0 \/ (n >= q.size /\ MayGrow)
  /\ Becomes([ContinueWrite(World, n) EXCEPT !.q.size = n])

SetDataCapacity(n) ==
  /\ MayGrow /\ n > parcel.cap
  /\ Becomes(ContinueWrite(World, n))

(* setData(): restartWrite() of data that has no objects or is received.   *)
SetData(n) ==
  LET q == parcel
      w == [Reallocated(World, n) EXCEPT !.q.null = FALSE]
      v == IF q.owner THEN ContinueWrite(Freed(World), n)
           ELSE [w EXCEPT !.q.pos = 0, !.q.hint = 0, !.q.hasFds = FALSE, !.q.allowFds = TRUE,
                          !.q.flat = <<>>] IN
  /\ n > 0 /\ (q.owner \/ q.objects = <<>>)
  /\ Becomes([v EXCEPT !.q.size = n, !.q.fdsKnown = FALSE])

FreeData == Becomes(Freed(World))

AllowFds(allow) ==
  /\ parcel' = [parcel EXCEPT !.allowFds = allow]
  /\ UNCHANGED <<refs, open, allocSize>>

(* ipcSetDataReference() of a transaction with a value, an object and a    *)
(* null binder, in some order; the driver opens its descriptor here and    *)
(* leaves the cookie its sender wrote.                                     *)
Received(q, obj, first) ==
  LET at == IF first THEN 0 ELSE 1
      null == IF first THEN ObjectCells ELSE ObjectCells + 1 IN
  [q EXCEPT !.null = FALSE, !.owner = TRUE, !.pos = 0, !.hint = 0,
            !.size = 2 * ObjectCells + 1, !.cap = 2 * ObjectCells + 1,
            !.flat = [d \in {at, null} |-> IF d = at THEN obj ELSE Null],
            !.objects = IF Listed(obj) THEN <<at>> ELSE <<>>,
            !.hasFds = obj.type = "fd", !.fdsKnown = TRUE]

IpcSetDataReference(obj, first) ==
  LET w == FreedNoInit(World)
      v == IF obj.type # "fd" THEN w ELSE [w EXCEPT !.open = @ \union {obj.id}] IN
  /\ obj.type = "fd" => Fds \ w.open # {} /\ obj.id = Dup(w.open)
  /\ Becomes([v EXCEPT !.q = Received(@, obj, first)])

-----------------------------------------------------------------------------
(* Readers *)

SetDataPosition(n) ==
  /\ n <= parcel.size
  /\ n \in DOMAIN parcel.flat \/ Plain(parcel, n)
  /\ parcel' = [parcel EXCEPT !.pos = n, !.hint = 0]
  /\ UNCHANGED <<refs, open, allocSize>>

ReadAligned ==
  LET q == parcel IN
  /\ q.pos + 1 <= q.size /\ Plain(q, q.pos)
  /\ parcel' = [parcel EXCEPT !.pos = q.pos + 1]
  /\ UNCHANGED <<refs, open, allocSize>>

(* readObject()'s search of the index: forward from the hint, then back;   *)
(* the place it ends at.                                                   *)
Forward(index, from, d) ==
  LET n == Len(index) IN
  IF from >= n THEN n - 1
  ELSE CHOOSE i \in from .. n - 1 :
         /\ \A j \in from .. i - 1 : index[j + 1] < d
         /\ i = n - 1 \/ index[i + 1] >= d
Backward(index, from, d) ==
  CHOOSE i \in 0 .. from :
    /\ \A j \in i + 1 .. from : index[j + 1] > d
    /\ i = 0 \/ index[i + 1] <= d
Finds(index, hint, d) ==
  /\ index # <<>>
  /\ index[Backward(index, Forward(index, hint, d), d) + 1] = d

ReadObject ==
  LET q == parcel IN
  /\ q.pos \in DOMAIN q.flat
  /\ parcel' = [parcel EXCEPT !.pos = q.pos + ObjectCells,
       !.hint = IF Listed(q.flat[q.pos]) /\ Finds(q.objects, q.hint, q.pos)
                   THEN Backward(q.objects, Forward(q.objects, q.hint, q.pos), q.pos) + 1
                   ELSE @]
  /\ UNCHANGED <<refs, open, allocSize>>

(* hasFileDescriptors(), which scans if it must.                           *)
HasFileDescriptors ==
  /\ ~parcel.fdsKnown
  /\ parcel' = [parcel EXCEPT !.fdsKnown = TRUE, !.hasFds = IsFd(parcel, parcel.objects)]
  /\ UNCHANGED <<refs, open, allocSize>>

-----------------------------------------------------------------------------
Write ==
  \/ WriteAligned \/ WriteNull \/ WriteFileDescriptor \/ WriteDup
  \/ \E b \in Binders : WriteBinder(b)
  \/ \E source \in Sources, offset \in 0 .. MaxSize, len \in 1 .. MaxSize :
       AppendFrom(source, offset, len)

Resize ==
  \/ \E n \in 0 .. MaxSize : SetDataSize(n) \/ SetDataCapacity(n) \/ SetData(n)
  \/ FreeData
  \/ \E first \in BOOLEAN : \E obj \in {Binder(b) : b \in Binders} \union
        {Fd(n, own) : n \in Fds, own \in BOOLEAN} : IpcSetDataReference(obj, first)

Read ==
  \/ \E n \in 0 .. MaxSize : SetDataPosition(n)
  \/ ReadAligned \/ ReadObject \/ HasFileDescriptors
  \/ \E allow \in BOOLEAN : AllowFds(allow)

Next == Write \/ Resize \/ Read

Spec == Init /\ [][Next]_vars

-----------------------------------------------------------------------------
(* Properties *)

(* Besides the types: reading and writing stay in the data and the data in *)
(* what was allocated.                                                     *)
TypeOK ==
  /\ parcel.size \in 0 .. parcel.cap /\ parcel.pos \in 0 .. parcel.size
  /\ parcel.cap \in Nat /\ parcel.hint \in Nat
  /\ parcel.null => parcel = [Fresh EXCEPT !.allowFds = parcel.allowFds]
  /\ refs \in [Binders -> Nat]
  /\ 1 \in open /\ open \subseteq Fds

(* The index has the objects of the data in their order, and readObject()  *)
(* finds each whatever was read, written or cut off before.                *)
ObjectsAreFound ==
  /\ Range(parcel.objects) = {d \in DOMAIN parcel.flat : Listed(parcel.flat[d])}
  /\ \A d \in DOMAIN parcel.flat : d + ObjectCells <= parcel.size
  /\ \A d \in Range(parcel.objects) : Finds(parcel.objects, parcel.hint, d)

(* However the parcel grows, is cut, copied to and received into, it holds *)
(* one reference for each binder in data of its own, and the memory of     *)
(* that data is accounted for.                                             *)
ReferencesAreHeld ==
  /\ allocSize = IF parcel.owner THEN 0 ELSE parcel.cap
  /\ \A b \in Binders :
       refs[b] = IF parcel.owner THEN 0 ELSE Count(parcel, parcel.objects, Binder(b))

(* A descriptor it lists is open; one it owns, or that came with the       *)
(* driver's buffer, is open as long as it is there; and a parcel that says *)
(* it knows has descriptors exactly if it says so.                         *)
Holds == {i \in DOMAIN parcel.objects :
            LET o == parcel.flat[parcel.objects[i]] IN
            o.type = "fd" /\ (o.own \/ parcel.owner)}
DescriptorsAreOwned ==
  /\ open = {1} \union {parcel.flat[parcel.objects[i]].id : i \in Holds}
  /\ Cardinality(open) = 1 + Cardinality(Holds)
  /\ parcel.fdsKnown => (parcel.hasFds <=> IsFd(parcel, parcel.objects))

(* "If we own an ashmem fd, keep track of how much memory it refers to":   *)
(* what getOpenAshmemSize() returns for data of its own.                   *)
AshmemIsCounted ==
  parcel.ashmem = IF parcel.owner THEN 0 ELSE Cardinality(Owned(parcel, parcel.objects))

(* All that the parcel answers for.                                        *)
HoldingsAreKept == ReferencesAreHeld /\ DescriptorsAreOwned /\ AshmemIsCounted

=============================================================================
