---------------------------- MODULE MemoryDealer ----------------------------
(***************************************************************************)
(* MemoryDealer, its Allocation objects and its heap allocator,            *)
(* native/libs/binder/MemoryDealer.cpp.                                    *)
(*                                                                         *)
(* SimpleBestFitAllocator: a doubly linked list of chunks that tiles the   *)
(* heap, a best-fit allocation that splits a free chunk and a deallocation *)
(* that merges the freed chunk with its free neighbours.  A chunk_t is     *)
(* identified by its start, counted in units of kMemoryAlign.  That is     *)
(* sound because a chunk keeps its start for life: the only code that      *)
(* moves one is the PAGE_ALIGNED branch, a flag MemoryDealer never passes. *)
(* The pointers of the list are kept as they are in the code, so that the  *)
(* list agreeing with the addresses is a fact about the program and not an *)
(* assumption.  allocate() and deallocate() hold mLock from end to end:    *)
(* each is one step.                                                       *)
(*                                                                         *)
(* Allocations are made and dropped by any thread.  Only the chunk list is *)
(* under the allocator's lock: the constructor's memset and the            *)
(* destructor's madvise(MADV_REMOVE) run outside it, so they are steps of  *)
(* their own and interleave with everybody else's calls.                   *)
(***************************************************************************)
EXTENDS Integers

CONSTANTS
  Align,      \* kMemoryAlign, the grain of the chunk list in bytes
  PageSize,   \* getpagesize()
  DealerSize  \* the size in bytes the MemoryDealer was created with

ASSUME AllocatorAssumption ==
  /\ Align \in Nat \ {0}
  /\ PageSize \in Nat \ {0}
  /\ DealerSize \in Nat \ {0}
  /\ \E k \in 1 .. PageSize : PageSize = k * Align

VARIABLES
  chunks,  \* the starts of the chunks in the list
  size,    \* chunk_t::size, in units
  free,    \* chunk_t::free
  prev,    \* chunk_t::prev
  next,    \* chunk_t::next
  first,   \* LinkedList::mFirst
  last     \* LinkedList::mLast

listVars == <<chunks, size, free, prev, next, first, last>>

NIL == -1  \* the null chunk_t pointer

(* mHeapSize, the requested size rounded up to whole pages, and the same   *)
(* in units: the size of the one chunk the list starts with.               *)
HeapBytes == ((DealerSize + PageSize - 1) \div PageSize) * PageSize
HeapUnits == HeapBytes \div Align

(* Bytes a request of n bytes is rounded up to, in units.                  *)
UnitsFor(n) == (n + Align - 1) \div Align

AllocatorInit ==
  /\ chunks = {0}
  /\ size = [c \in {0} |-> HeapUnits]
  /\ free = [c \in {0} |-> TRUE]
  /\ prev = [c \in {0} |-> NIL]
  /\ next = [c \in {0} |-> NIL]
  /\ first = 0
  /\ last = 0

-----------------------------------------------------------------------------
(* Allocation *)

(* The chunks the search loop of alloc() may settle on, and the same with  *)
(* the comparison one unit short.                                          *)
FittingButOne(u) == {c \in chunks : free[c] /\ size[c] + 1 >= u}
Fitting(u) == {c \in chunks : free[c] /\ size[c] >= u}

(* The chunk it settles on: the smallest that fits, and of equals the one  *)
(* met first (list order is address order, see ListTilesHeap).             *)
BestFit(c, u) ==
  /\ c \in Fitting(u)
  /\ \A d \in Fitting(u) : size[c] < size[d] \/ (size[c] = size[d] /\ c <= d)

(* Chunk c becomes a busy chunk of u units.                                *)
TakeWhole(c, u) ==
  /\ free' = [free EXCEPT ![c] = FALSE]
  /\ size' = [size EXCEPT ![c] = u]
  /\ UNCHANGED <<chunks, prev, next, first, last>>

(* The same, with the remainder made a free chunk inserted after it; and   *)
(* an insertion that forgets the back pointer of the chunk that follows.   *)
SplitNoBackPointer(c, u) ==
  LET rest == c + u  after == next[c]  live == chunks \union {rest} IN
  /\ chunks' = live
  /\ size' = [x \in live |->
                IF x = c THEN u ELSE IF x = rest THEN size[c] - u ELSE size[x]]
  /\ free' = [x \in live |-> IF x = c THEN FALSE ELSE x = rest \/ free[x]]
  /\ next' = [x \in live |->
                IF x = c THEN rest ELSE IF x = rest THEN after ELSE next[x]]
  /\ prev' = [x \in live |-> IF x = rest THEN c ELSE prev[x]]
  /\ last' = IF after = NIL THEN rest ELSE last
  /\ UNCHANGED first

Split(c, u) ==
  LET rest == c + u  after == next[c]  live == chunks \union {rest} IN
  /\ chunks' = live
  /\ size' = [x \in live |->
                IF x = c THEN u ELSE IF x = rest THEN size[c] - u ELSE size[x]]
  /\ free' = [x \in live |-> IF x = c THEN FALSE ELSE x = rest \/ free[x]]
  /\ next' = [x \in live |->
                IF x = c THEN rest ELSE IF x = rest THEN after ELSE next[x]]
  /\ prev' = [x \in live |->
                IF x = rest THEN c ELSE IF x = after THEN rest ELSE prev[x]]
  /\ last' = IF after = NIL THEN rest ELSE last
  /\ UNCHANGED first

(* alloc() of u > 0 units, when it returns chunk c.                        *)
Take(c, u) ==
  /\ BestFit(c, u)
  /\ \/ size[c] > u /\ Split(c, u)
     \/ size[c] <= u /\ TakeWhole(c, u)

-----------------------------------------------------------------------------
(* Deallocation *)

(* The merge loop of dealloc() folds the freed chunk into a free           *)
(* predecessor, then a free successor into the result, and stops at the    *)
(* first chunk that is not free.                                           *)
MergesLeft(c) == prev[c] # NIL /\ free[prev[c]]
MergesOnlyLeft(c) == FALSE
MergesRight(c) == next[c] # NIL /\ free[next[c]]

(* dealloc() of busy chunk c: after the loop, keep is the free chunk that  *)
(* covers it and its free neighbours.  The variant leaves the result linked*)
(* to a successor it has deleted.                                          *)
GiveBackDangling(c) ==
  LET left  == MergesLeft(c)
      right == MergesRight(c)
      keep  == IF left THEN prev[c] ELSE c
      gone  == (IF left THEN {c} ELSE {}) \union (IF right THEN {next[c]} ELSE {})
      live  == chunks \ gone
  IN /\ chunks' = live
     /\ size' = [x \in live |-> size[x]]
     /\ free' = [x \in live |-> x = keep \/ free[x]]
     /\ next' = [x \in live |-> IF x = keep THEN next[c] ELSE next[x]]
     /\ prev' = [x \in live |-> prev[x]]
     /\ UNCHANGED <<first, last>>

GiveBack(c) ==
  LET left  == MergesLeft(c)
      right == MergesRight(c)
      keep  == IF left THEN prev[c] ELSE c
      gone  == (IF left THEN {c} ELSE {}) \union (IF right THEN {next[c]} ELSE {})
      live  == chunks \ gone
      after == IF right THEN next[next[c]] ELSE next[c]
      total == (IF left THEN size[prev[c]] ELSE 0) + size[c]
                 + (IF right THEN size[next[c]] ELSE 0)
  IN /\ chunks' = live
     /\ size' = [x \in live |-> IF x = keep THEN total ELSE size[x]]
     /\ free' = [x \in live |-> x = keep \/ free[x]]
     /\ next' = [x \in live |-> IF x = keep THEN after ELSE next[x]]
     /\ prev' = [x \in live |-> IF x = after THEN keep ELSE prev[x]]
     /\ last' = IF after = NIL THEN keep ELSE last
     /\ UNCHANGED first

-----------------------------------------------------------------------------
(* Invariants of the list *)

AllocatorTypeOK ==
  /\ chunks \subseteq Nat
  /\ size \in [chunks -> Nat \ {0}]
  /\ free \in [chunks -> BOOLEAN]
  /\ prev \in [chunks -> chunks \union {NIL}]
  /\ next \in [chunks -> chunks \union {NIL}]
  /\ first \in chunks
  /\ last \in chunks

(* Walked through its next pointers the list covers the heap from 0 to its *)
(* end without a gap or an overlap, and its prev pointers are the same     *)
(* walk backwards.  (alloc and dealloc in MemoryDealer.cpp)                *)
ListTilesHeap ==
  /\ first = 0 /\ 0 \in chunks
  /\ \A c \in chunks :
       /\ next[c] = IF c + size[c] = HeapUnits THEN NIL ELSE c + size[c]
       /\ c + size[c] <= HeapUnits
       /\ c = last <=> next[c] = NIL
       /\ prev[c] = NIL <=> c = first
       /\ next[c] # NIL => prev[next[c]] = c
       /\ prev[c] # NIL => next[prev[c]] = c
       /\ \A d \in chunks : c < d => c + size[c] <= d

(* Free space is always coalesced: no two neighbours are both free.  This  *)
(* is what the merge loop of dealloc() is for.                             *)
NoAdjacentFree ==
  \A c \in chunks : free[c] /\ next[c] # NIL => ~free[next[c]]

-----------------------------------------------------------------------------
(* MemoryDealer and Allocation *)

CONSTANTS
  Allocations,  \* the Allocation objects that may exist at a time
  Sizes,        \* the sizes in bytes callers ask for
  Nobody        \* content of a byte that holds no existing Allocation's data

ASSUME DealerAssumption ==
  /\ Sizes \subseteq Nat
  /\ Nobody \notin Allocations

VARIABLES
  phase,   \* where each Allocation is in its life
  offset,  \* MemoryBase::mOffset
  bytes,   \* MemoryBase::mSize, or the size that was refused
  content  \* for every byte of the heap, the Allocation whose data it holds

clientVars == <<phase, offset, bytes>>
vars == <<listVars, clientVars, content>>

(* "granted": the allocator returned, the constructor has not run yet;     *)
(* "purged": the destructor has returned the pages and not yet the chunk.  *)
Phases == {"none", "refused", "granted", "live", "purged"}
Idle(a) == phase[a] \in {"none", "refused"}

Region(a) == offset[a] .. offset[a] + bytes[a] - 1

Init ==
  /\ AllocatorInit
  /\ phase = [a \in Allocations |-> "none"]
  /\ offset = [a \in Allocations |-> 0]
  /\ bytes = [a \in Allocations |-> 0]
  /\ content = [b \in 0 .. HeapBytes - 1 |-> Nobody]

(* MemoryDealer::allocate() up to the return of the allocator.             *)
Allocate(a, n) ==
  /\ Idle(a)
  /\ n > 0
  /\ \E c \in chunks :
       /\ Take(c, UnitsFor(n))
       /\ offset' = [offset EXCEPT ![a] = c * Align]
  /\ bytes' = [bytes EXCEPT ![a] = n]
  /\ phase' = [phase EXCEPT ![a] = "granted"]
  /\ UNCHANGED content

(* A request for nothing succeeds at offset 0 and leaves no record.        *)
AllocateNothing(a) ==
  /\ Idle(a)
  /\ offset' = [offset EXCEPT ![a] = 0]
  /\ bytes' = [bytes EXCEPT ![a] = 0]
  /\ phase' = [phase EXCEPT ![a] = "granted"]
  /\ UNCHANGED <<listVars, content>>

(* alloc() returns NO_MEMORY and the caller gets a null IMemory.           *)
AllocateFails(a, n) ==
  /\ Idle(a)
  /\ n > 0 /\ Fitting(UnitsFor(n)) = {}
  /\ phase' = [phase EXCEPT ![a] = "refused"]
  /\ bytes' = [bytes EXCEPT ![a] = n]
  /\ UNCHANGED <<listVars, offset, content>>

(* The Allocation constructor fills its memory, and so does its user.      *)
Construct(a) ==
  /\ phase[a] = "granted"
  /\ phase' = [phase EXCEPT ![a] = "live"]
  /\ content' = [b \in DOMAIN content |-> IF b \in Region(a) THEN a ELSE content[b]]
  /\ UNCHANGED <<listVars, offset, bytes>>

(* The whole pages the destructor gives back to the kernel: those inside   *)
(* the region, and, for the variant, those that touch it.                  *)
PagesTouching(a) ==
  LET up(b)   == ((b + PageSize - 1) \div PageSize) * PageSize
      down(b) == (b \div PageSize) * PageSize
  IN down(offset[a]) .. up(offset[a] + bytes[a]) - 1

PagesInside(a) ==
  LET up(b)   == ((b + PageSize - 1) \div PageSize) * PageSize
      down(b) == (b \div PageSize) * PageSize
  IN up(offset[a]) .. down(offset[a] + bytes[a]) - 1

(* ~Allocation, first half: the last reference is gone, the pages go back. *)
Purge(a) ==
  /\ phase[a] = "live"
  /\ bytes[a] > 0
  /\ phase' = [phase EXCEPT ![a] = "purged"]
  /\ content' = [b \in DOMAIN content |->
                   IF b \in PagesInside(a) THEN Nobody ELSE content[b]]
  /\ UNCHANGED <<listVars, offset, bytes>>

(* The object is gone: nothing in the heap is its data any more.           *)
Vanish(a) ==
  /\ phase' = [phase EXCEPT ![a] = "none"]
  /\ offset' = [offset EXCEPT ![a] = 0]
  /\ bytes' = [bytes EXCEPT ![a] = 0]
  /\ content' = [b \in DOMAIN content |->
                   IF content[b] = a THEN Nobody ELSE content[b]]

(* ~Allocation, second half: MemoryDealer::deallocate(freedOffset), and a  *)
(* destructor that forgets it.                                             *)
ReleaseLeaking(a) ==
  /\ phase[a] = "purged"
  /\ Vanish(a)
  /\ UNCHANGED listVars

Release(a) ==
  /\ phase[a] = "purged"
  /\ GiveBack(offset[a] \div Align)
  /\ Vanish(a)

(* ~Allocation of an empty allocation: nothing to give back.               *)
ReleaseNothing(a) ==
  /\ phase[a] = "live"
  /\ bytes[a] = 0
  /\ Vanish(a)
  /\ UNCHANGED listVars

Next ==
  \E a \in Allocations :
    \/ \E n \in Sizes : Allocate(a, n) \/ AllocateFails(a, n)
    \/ 0 \in Sizes /\ AllocateNothing(a)
    \/ Construct(a)
    \/ Purge(a)
    \/ Release(a)
    \/ ReleaseNothing(a)

Spec == Init /\ [][Next]_vars

-----------------------------------------------------------------------------
(* Properties *)

(* Allocations that hold a chunk of the list.                              *)
Holding(a) == ~Idle(a) /\ bytes[a] > 0

TypeOK ==
  /\ AllocatorTypeOK
  /\ phase \in [Allocations -> Phases]
  /\ offset \in [Allocations -> Nat]
  /\ bytes \in [Allocations -> Nat]
  /\ content \in [0 .. HeapBytes - 1 -> Allocations \union {Nobody}]

(* The busy chunks are exactly those the Allocations hold, each by one of  *)
(* them and big enough for it: nothing is leaked, no deallocate() frees a  *)
(* chunk twice or misses it (the LOG_FATAL_IF of dealloc() never fires).   *)
BusyChunksAreHeld ==
  /\ \A a \in Allocations : Holding(a) =>
       \E c \in chunks : /\ offset[a] = c * Align /\ ~free[c]
                         /\ size[c] = UnitsFor(bytes[a])
  /\ \A c \in chunks : ~free[c] =>
       \E a \in Allocations : Holding(a) /\ offset[a] = c * Align
  /\ \A a, b \in Allocations :
       Holding(a) /\ Holding(b) /\ offset[a] = offset[b] => a = b

(* No two Allocations share a byte, and none reaches past the heap.        *)
RegionsDisjoint ==
  \A a \in Allocations : Holding(a) =>
    /\ offset[a] + bytes[a] <= HeapBytes
    /\ \A b \in Allocations \ {a} :
         Holding(b) => \/ offset[a] + bytes[a] <= offset[b]
                       \/ offset[b] + bytes[b] <= offset[a]

(* An Allocation finds in its memory what it put there, whatever the       *)
(* others are constructing, purging or releasing meanwhile: this is why    *)
(* madvise() comes before deallocate() and covers inner pages only.        *)
ContentsIntact ==
  \A a \in Allocations : phase[a] = "live" =>
    \A b \in Region(a) : content[b] = a

(* When everything has been given back the heap is one free chunk again,   *)
(* whatever the order of the calls was: no fragmentation survives.         *)
DrainedHeapIsWhole ==
  (\A a \in Allocations : ~Holding(a)) =>
    chunks = {0} /\ free[0] /\ size[0] = HeapUnits

(* The dealer implements HeapExtents: grants never overlap, and NO_MEMORY  *)
(* is returned only when no hole of the heap is large enough.              *)
NoExtent == [lo |-> NIL, len |-> 0]

Extents == INSTANCE HeapExtents WITH
  Holders <- Allocations,
  Units   <- HeapUnits,
  Requests <- {UnitsFor(n) : n \in Sizes \ {0}},
  extent  <- [a \in Allocations |->
                IF Holding(a)
                THEN [lo |-> offset[a] \div Align, len |-> UnitsFor(bytes[a])]
                ELSE NoExtent],
  refused <- [a \in Allocations |->
                IF phase[a] = "refused" THEN UnitsFor(bytes[a]) ELSE 0]

GrantsAreExtents == Extents!Spec

=============================================================================
