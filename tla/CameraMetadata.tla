--------------------------- MODULE CameraMetadata ---------------------------
(***************************************************************************)
(* Camera metadata: the packed buffers of camera_metadata.c and the        *)
(* objects of CameraMetadata.cpp that own and grow them.                   *)
(*                                                                         *)
(* A buffer is an array of entries and an area of data.  The field `data'  *)
(* of an entry is the value itself if that has at most four bytes, and     *)
(* otherwise an offset into the area: one number, as in the code's union.  *)
(* The area is counted in cells of DATA_ALIGNMENT bytes.  Values do not    *)
(* matter, only whose they are: each is the number of its tag.             *)
(***************************************************************************)
EXTENDS Integers, Sequences, FiniteSets, FiniteSetsExt, SequencesExt, TLC

CONSTANTS
  SmallTags, WideTags,  \* tags of types of four and of eight bytes
  Objects,              \* instances of CameraMetadata
  NULL,
  MinCount,             \* elements of the smallest value
  MaxBytes,             \* bound: bytes of a value
  MaxEntries,           \* bound: entries of all buffers together
  MaxCapacity,          \* bound: capacities of a buffer
  Careless              \* whether an unsorted buffer is appended to one that
                        \* is empty and marked as sorted

ASSUME CameraMetadataAssumption ==
  /\ SmallTags \union WideTags \subseteq Nat \ {0} /\ SmallTags \intersect WideTags = {}
  /\ MinCount \in Nat /\ MaxBytes \in Nat /\ MaxEntries \in Nat /\ MaxCapacity \in Nat
  /\ Careless \in BOOLEAN

Tags == SmallTags \union WideTags
SizeOfType(tag) == IF tag \in SmallTags THEN 4 ELSE 8
Counts(tag) == MinCount .. MaxBytes \div SizeOfType(tag)

VARIABLES
  mBuffer,  \* of each object, or NULL
  mLocked

vars == <<mBuffer, mLocked>>

-----------------------------------------------------------------------------
(* camera_metadata.c *)

(* calculate_camera_metadata_entry_data_size() *)
Cells(tag, count) ==
  LET bytes == count * SizeOfType(tag) IN
  IF bytes <= 4 THEN 0 ELSE (bytes + 7) \div 8
CellsOf(e) == Cells(e.tag, e.count)

(* allocate_camera_metadata(), place_camera_metadata() *)
Allocated(entries, data) ==
  [entries |-> <<>>, data |-> <<>>, entryCapacity |-> entries, dataCapacity |-> data,
   sorted |-> FALSE]

(* validate_camera_metadata_structure() *)
Valid(b) ==
  /\ Len(b.entries) <= b.entryCapacity /\ Len(b.data) <= b.dataCapacity
  /\ \A e \in ToSet(b.entries) :
       IF CellsOf(e) > 0 THEN e.data + CellsOf(e) <= b.dataCapacity
       ELSE e.count = 0 => e.data = 0

Fits(b, entries, data) ==
  Len(b.entries) + entries <= b.entryCapacity /\ Len(b.data) + data <= b.dataCapacity

(* append_camera_metadata(): offsets grow by the n cells that are there.   *)
Move(e, n) == IF CellsOf(e) > 0 THEN [e EXCEPT !.data = @ + n] ELSE e
Appended(dst, src) ==
  IF ~Fits(dst, Len(src.entries), Len(src.data)) THEN dst
  ELSE [dst EXCEPT
    !.entries = @ \o [i \in DOMAIN src.entries |-> Move(src.entries[i], Len(dst.data))],
    !.data = @ \o src.data,
    !.sorted = IF dst.entries = <<>> THEN @ \/ src.sorted ELSE @ /\ src.entries = <<>>]

(* clone_camera_metadata(), and copy_camera_metadata(), which keeps flags. *)
Cloned(b) == Appended(Allocated(Len(b.entries), Len(b.data)), b)
Copied(b) == [b EXCEPT !.entryCapacity = Len(b.entries), !.dataCapacity = Len(b.data)]

Array(v, n) == [i \in 1 .. n |-> v]

(* add_camera_metadata_entry_raw(), and one after which the buffer says it *)
(* is sorted still.                                                        *)
AddedSorted(b, tag, count) ==
  LET n == Cells(tag, count) IN
  IF ~Fits(b, 1, n) THEN b
  ELSE [b EXCEPT
    !.entries = Append(@, [tag |-> tag, count |-> count,
                           data |-> IF n > 0 THEN Len(b.data) ELSE IF count = 0 THEN 0 ELSE tag]),
    !.data = @ \o Array(tag, n)]
Added(b, tag, count) ==
  LET n == Cells(tag, count) IN
  IF ~Fits(b, 1, n) THEN b
  ELSE [b EXCEPT
    !.entries = Append(@, [tag |-> tag, count |-> count,
                           data |-> IF n > 0 THEN Len(b.data) ELSE IF count = 0 THEN 0 ELSE tag]),
    !.data = @ \o Array(tag, n),
    !.sorted = FALSE]

(* sort_camera_metadata(): qsort() leaves entries of one tag in any order. *)
InOrder(entries) == \A i, j \in DOMAIN entries : i < j => entries[i].tag <= entries[j].tag
Sortings(b) ==
  IF b.sorted THEN {b}
  ELSE {[b EXCEPT !.entries = [i \in DOMAIN b.entries |-> b.entries[p[i]]], !.sorted = TRUE] :
          p \in {q \in Bijection(DOMAIN b.entries, DOMAIN b.entries) :
                   InOrder([i \in DOMAIN b.entries |-> b.entries[q[i]]])}}

(* bsearch(): the index of an entry, or 0; r are the first and the last    *)
(* place that may be it.                                                   *)
Bisect(entries, tag) ==
  LET from[r \in (1 .. Len(entries) + 1) \X (0 .. Len(entries))] ==
        IF r[1] > r[2] THEN 0
        ELSE LET m == (r[1] + r[2]) \div 2 IN
             IF entries[m].tag = tag THEN m
             ELSE IF tag < entries[m].tag THEN from[<<r[1], m - 1>>] ELSE from[<<m + 1, r[2]>>]
  IN from[<<1, Len(entries)>>]

(* find_camera_metadata_entry() *)
Find(b, tag) ==
  IF b.sorted THEN Bisect(b.entries, tag)
  ELSE LET found == {i \in DOMAIN b.entries : b.entries[i].tag = tag} IN
       IF found = {} THEN 0 ELSE CHOOSE i \in found : \A j \in found : i <= j

(* Cells that are cut out of the area, and the offsets behind them.        *)
Shut(e, offset, n) ==
  IF CellsOf(e) > 0 /\ e.data > offset THEN [e EXCEPT !.data = @ - n] ELSE e
CutOut(b, offset, n) ==
  [b EXCEPT !.data = SubSeq(@, 1, offset) \o SubSeq(@, offset + n + 1, Len(@)),
            !.entries = [i \in DOMAIN @ |-> Shut(@[i], offset, n)]]

(* delete_camera_metadata_entry(), and one that keeps the offsets.         *)
DeletedOnly(b, index) ==
  LET e == b.entries[index] IN
  [b EXCEPT !.entries = RemoveAt(@, index),
            !.data = IF CellsOf(e) = 0 THEN @
                     ELSE SubSeq(@, 1, e.data) \o SubSeq(@, e.data + CellsOf(e) + 1, Len(@))]
Deleted(b, index) ==
  LET e == b.entries[index] IN
  LET cut == IF CellsOf(e) = 0 THEN b ELSE CutOut(b, e.data, CellsOf(e)) IN
  [cut EXCEPT !.entries = RemoveAt(@, index)]

(* update_camera_metadata_entry(): the old data is cut out and the new     *)
(* appended, unless both take as many cells.  Nothing is copied into an    *)
(* entry without elements, whose field stays as it was.                    *)
Updated(b, index, count) ==
  LET e == b.entries[index]
      n == Cells(e.tag, count)
      cut == IF CellsOf(e) \in {0, n} THEN b ELSE CutOut(b, e.data, CellsOf(e))
      at == IF CellsOf(e) = n THEN e.data ELSE Len(cut.data)
      field == IF n > 0 THEN at ELSE IF count = 0 THEN cut.entries[index].data ELSE e.tag
  IN
  IF b.dataCapacity < Len(b.data) + n - CellsOf(e) THEN b
  ELSE [cut EXCEPT
    !.entries[index] = [tag |-> e.tag, count |-> count, data |-> field],
    !.data = IF n = 0 THEN @ ELSE SubSeq(@, 1, at) \o Array(e.tag, n) \o SubSeq(@, at + n + 1, Len(@))]

-----------------------------------------------------------------------------
(* CameraMetadata.cpp *)

(* resizeIfNeeded() *)
Doubled(count, capacity) == IF count > capacity THEN 2 * count ELSE capacity
Resized(b, entries, data) ==
  IF b = NULL THEN Allocated(2 * entries, 2 * data)
  ELSE IF Fits(b, entries, data) THEN b
  ELSE Appended(Allocated(Doubled(Len(b.entries) + entries, b.entryCapacity),
                          Doubled(Len(b.data) + data, b.dataCapacity)), b)

Init ==
  /\ mBuffer = [o \in Objects |-> NULL]
  /\ mLocked = [o \in Objects |-> FALSE]

Data(o) == IF mBuffer[o] = NULL THEN <<>> ELSE mBuffer[o].data

Becomes(o, b) == mBuffer' = [mBuffer EXCEPT ![o] = b] /\ UNCHANGED mLocked
Unlocked(o) == ~mLocked[o]
Entries(o) == IF mBuffer[o] = NULL THEN <<>> ELSE mBuffer[o].entries

(* The destructor, which does not ask for the lock, and a new object in    *)
(* the old one's place.                                                    *)
Construct(o, entries, data) ==
  /\ mLocked' = [mLocked EXCEPT ![o] = FALSE]
  /\ mBuffer' = [mBuffer EXCEPT ![o] = Allocated(entries, data)]

Assign(o, p) ==
  Unlocked(o) /\ o # p /\ Becomes(o, IF mBuffer[p] = NULL THEN NULL ELSE Cloned(mBuffer[p]))

GetAndLock(o) == mLocked' = [mLocked EXCEPT ![o] = TRUE] /\ UNCHANGED mBuffer
Unlock(o) == mLocked[o] /\ mLocked' = [mLocked EXCEPT ![o] = FALSE] /\ UNCHANGED mBuffer

(* clear(), and release() by a user who frees what it got.                 *)
Clear(o) == Unlocked(o) /\ Becomes(o, NULL)

(* acquire(): of a locked object nothing is released.                      *)
Acquire(o, p) ==
  /\ Unlocked(o) /\ o # p
  /\ mBuffer' = IF mLocked[p] THEN [mBuffer EXCEPT ![o] = NULL]
                ELSE [mBuffer EXCEPT ![o] = mBuffer[p], ![p] = NULL]
  /\ UNCHANGED mLocked

Swap(o, p) ==
  /\ Unlocked(o) /\ Unlocked(p)
  /\ mBuffer' = [mBuffer EXCEPT ![o] = mBuffer[p], ![p] = mBuffer[o]]
  /\ UNCHANGED mLocked

EmptyAndSorted(b) == IF b = NULL THEN FALSE ELSE b.sorted /\ b.entries = <<>>

(* An object is not appended to itself: its buffer would be freed first.   *)
AppendTo(o, p) ==
  /\ Unlocked(o) /\ o # p /\ mBuffer[p] # NULL
  /\ Careless = TRUE \/ ~EmptyAndSorted(mBuffer[o]) \/ mBuffer[p].sorted
  /\ LET src == mBuffer[p] IN
     Becomes(o, Appended(Resized(mBuffer[o], Len(src.entries), Len(src.data)), src))

Sort(o) == Unlocked(o) /\ mBuffer[o] # NULL /\ \E b \in Sortings(mBuffer[o]) : Becomes(o, b)

(* updateImpl() *)
Update(o, tag, count) ==
  /\ Unlocked(o)
  /\ LET b == Resized(mBuffer[o], 1, Cells(tag, count))
         i == Find(b, tag)
     IN Becomes(o, IF i = 0 THEN Added(b, tag, count) ELSE Updated(b, i, count))

Erase(o, tag) ==
  /\ Unlocked(o) /\ mBuffer[o] # NULL
  /\ LET i == Find(mBuffer[o], tag) IN i # 0 /\ Becomes(o, Deleted(mBuffer[o], i))

(* writeToParcel() of one and readFromParcel() of another object: a copy   *)
(* that is not valid is refused.                                           *)
Send(o, p) ==
  /\ Unlocked(p)
  /\ IF mBuffer[o] = NULL THEN Becomes(p, NULL)
     ELSE Valid(Copied(mBuffer[o])) /\ Becomes(p, Copied(mBuffer[o]))

WithinBound ==
  /\ FoldSet(LAMBDA o, n : n + Len(Entries(o)), 0, Objects) <= MaxEntries
  /\ \A b \in {mBuffer[o] : o \in Objects} \ {NULL} :
       b.entryCapacity + b.dataCapacity <= MaxCapacity

Operation(o) ==
    \/ \E n \in 0 .. 1 : Construct(o, n, n)
    \/ GetAndLock(o) \/ Unlock(o) \/ Clear(o) \/ Sort(o)
    \/ \E p \in Objects : Assign(o, p) \/ Acquire(o, p) \/ Swap(o, p) \/ AppendTo(o, p) \/ Send(o, p)
    \/ \E tag \in Tags : Erase(o, tag) \/ \E n \in Counts(tag) : Update(o, tag, n)

Next == (\E o \in Objects : Operation(o)) /\ WithinBound'

Spec == Init /\ [][Next]_vars

-----------------------------------------------------------------------------
(* Properties *)

Buffers == {mBuffer[o] : o \in Objects} \ {NULL}

(* assert(validate_camera_metadata_structure(dst, NULL) == OK), after each *)
(* operation.  Besides, the area has exactly the cells the entries own:    *)
(* whatever is updated, deleted and appended, none is lost or shared.      *)
Owned(e) == {e.data + i : i \in 1 .. CellsOf(e)}
BuffersAreValid ==
  \A b \in Buffers :
    /\ Valid(b)
    /\ UNION {Owned(e) : e \in ToSet(b.entries)} = DOMAIN b.data
    /\ \A i, j \in DOMAIN b.entries : i # j => Owned(b.entries[i]) \intersect Owned(b.entries[j]) = {}

(* "Adding or appending entries to the buffer will place the buffer back   *)
(* into an unsorted state": what is marked as sorted is, or a search finds *)
(* nothing.                                                                *)
SortedIsInOrder == \A b \in Buffers : b.sorted => InOrder(b.entries)

(* Each buffer is one that validate_camera_metadata_structure() takes, and *)
(* one that says it is sorted is, or find() would miss its entries.        *)
BuffersAreSound == BuffersAreValid /\ SortedIsInOrder

(* What an entry says, read as get_camera_metadata_entry() does.           *)
Item(b, e) ==
  [tag |-> e.tag, count |-> e.count,
   value |-> IF CellsOf(e) = 0 THEN <<IF e.count = 0 THEN 0 ELSE e.data>>
             ELSE SubSeq(b.data, e.data + 1, e.data + CellsOf(e))]

ItemsOf(b) ==
  IF b = NULL THEN EmptyBag
  ELSE FoldLeft(LAMBDA bag, e : bag (+) SetToBag({Item(b, e)}), EmptyBag, b.entries)

(* Whatever its buffer goes through, an object holds the items that were   *)
(* put in and not taken out, with the values they were given, and none     *)
(* changes while it is locked.                                             *)
Store == INSTANCE MetadataStore WITH
  Stores <- Objects,
  items  <- [o \in Objects |-> ItemsOf(mBuffer[o])],
  locked <- {o \in Objects : mLocked[o]}
IsAStore == Store!Spec

=============================================================================
