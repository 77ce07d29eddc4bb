----------------------------- MODULE HeapCache -----------------------------
(***************************************************************************)
(* The clients of one remote memory heap: HeapCache and BpMemoryHeap of    *)
(* libs/binder/IMemory.cpp.                                                *)
(*                                                                         *)
(* Every interface_cast of the heap's binder makes a BpMemoryHeap of its   *)
(* own, here a proxy.  All share one mapping, that of the real heap, a     *)
(* BpMemoryHeap that HeapCache keeps and counts the users of; it is        *)
(* unmapped when the last reference to it goes.  Any getter of a proxy     *)
(* calls assertMapped(), which looks mHeapId and the real heap's fields up *)
(* without a lock; its steps below are those between which another thread  *)
(* may run.  HeapCache has an entry per binder, none of which sees the     *)
(* others: one is modelled.                                                *)
(***************************************************************************)
EXTENDS Naturals, FiniteSets

CONSTANTS
  Threads,
  Proxies,   \* BpMemoryHeap objects of the users
  Heaps,     \* BpMemoryHeap objects the cache may make: the real heaps
  Nobody,    \* no object: for mBase, MAP_FAILED
  MayFail,   \* whether HEAP_ID or mmap() may fail
  Sharing,   \* bound: threads that first use one proxy at a time
  MaxCount   \* bound: users the cache counts

HeapCacheAssumption ==
  /\ Proxies \intersect Heaps = {} /\ Nobody \notin Proxies \union Heaps \union Threads
  /\ IsFiniteSet(Threads) /\ IsFiniteSet(Proxies)
  /\ MayFail \in BOOLEAN
  /\ Sharing \in Nat /\ MaxCount \in Nat

HeapObjects == Proxies \union Heaps

VARIABLES
  mem,     \* fields of each object: id (mHeapId # -1), mBase, the others
  lock,    \* mLock of each object: the thread that holds it
  cache,   \* the entry of the cache: the real heap and its count
  at,      \* where each thread is in assertMapped(), on which proxy
  mapped   \* the heaps whose mapping exists

vars == <<mem, lock, cache, at, mapped>>

(* mBase is the heap whose mapping it is; mSize and mOffset are known or   *)
(* not.                                                                    *)
Fresh == [id |-> FALSE, base |-> Nobody, sized |-> FALSE]
NoEntry == [heap |-> Nobody, count |-> 0]
Outside == [pc |-> "out", proxy |-> Nobody, heap |-> Nobody]

Init ==
  /\ mem = [o \in HeapObjects |-> Fresh]
  /\ lock = [o \in HeapObjects |-> Nobody]
  /\ cache = NoEntry
  /\ at = [t \in Threads |-> Outside]
  /\ mapped = {}

(* The destructor of a real heap that neither the cache nor a thread       *)
(* refers to any more: it unmaps what it has mapped.                       *)
Referred(c, a) == {c.heap} \union {a[t].heap : t \in Threads}
Reclaim(c, a) ==
  LET gone == Heaps \ Referred(c, a) IN
  /\ mem' = [o \in HeapObjects |-> IF o \in gone THEN Fresh ELSE mem[o]]
  /\ mapped' = mapped \ {h \in gone : mem[h].id}

Goto(t, pc) == at' = [at EXCEPT ![t].pc = pc]

-----------------------------------------------------------------------------
(* HeapCache *)

(* find_heap(), and a variant that does not count who finds the heap.      *)
FoundUncounted(h) == IF cache.heap = Nobody THEN [heap |-> h, count |-> 1] ELSE cache
Found(h) ==
  IF cache.heap = Nobody THEN [heap |-> h, count |-> 1]
  ELSE [cache EXCEPT !.count = @ + 1]

(* free_heap()                                                             *)
Freed(c) == IF c.count <= 1 THEN NoEntry ELSE [c EXCEPT !.count = @ - 1]

-----------------------------------------------------------------------------
(* BpMemoryHeap::assertMapped() of a proxy *)

(* A getter finds mHeapId = -1.                                            *)
Enter(t, p) ==
  /\ at[t].pc = "out" /\ ~mem[p].id
  /\ cache.count + Cardinality({u \in Threads : at[u].pc = "find"}) < MaxCount
  /\ Cardinality({u \in Threads : at[u].proxy = p}) < Sharing
  /\ at' = [at EXCEPT ![t] = [Outside EXCEPT !.pc = "find", !.proxy = p]]
  /\ UNCHANGED <<mem, lock, cache, mapped>>

FindHeap(t) ==
  /\ at[t].pc = "find"
  /\ \E h \in Heaps :
       /\ IF cache.heap = Nobody THEN h \notin Referred(cache, at) ELSE h = cache.heap
       /\ cache' = Found(h)
       /\ at' = [at EXCEPT ![t].pc = "check", ![t].heap = h]
  /\ UNCHANGED <<mem, lock, mapped>>

(* assertReallyMapped() of the real heap looks at its mHeapId and, if      *)
(* there is none, asks the remote heap for a descriptor without a lock.    *)
CheckHeap(t) ==
  /\ at[t].pc = "check"
  /\ Goto(t, IF mem[at[t].heap].id THEN "test" ELSE "map")
  /\ UNCHANGED <<mem, lock, cache, mapped>>

(* Step two with a variant first, that publishes mHeapId with mBase,       *)
(* before mSize.                                                           *)
MapHeapEarly(t) ==
  LET h == at[t].heap IN
  /\ at[t].pc = "map" /\ lock[h] = Nobody /\ ~mem[h].id
  /\ mem' = [mem EXCEPT ![h].base = h, ![h].id = TRUE]
  /\ mapped' = mapped \union {h}
  /\ lock' = [lock EXCEPT ![h] = t]
  /\ Goto(t, "publish")
  /\ UNCHANGED <<cache>>

(* With mLock, mmap() sets mBase; only then are the other fields set and   *)
(* mHeapId published, which others wait for outside the lock.  Whoever     *)
(* comes second has nothing to do.                                         *)
MapHeap(t) ==
  LET h == at[t].heap IN
  /\ at[t].pc = "map" /\ lock[h] = Nobody
  /\ IF mem[h].id
     THEN /\ Goto(t, "test")
          /\ UNCHANGED <<mem, lock, mapped>>
     ELSE /\ mem' = [mem EXCEPT ![h].base = h]
          /\ mapped' = mapped \union {h}
          /\ lock' = [lock EXCEPT ![h] = t]
          /\ Goto(t, "publish")
  /\ UNCHANGED cache

MapFails(t) ==
  LET h == at[t].heap IN
  /\ MayFail /\ at[t].pc = "map" /\ lock[h] = Nobody /\ ~mem[h].id
  /\ Goto(t, "test")
  /\ UNCHANGED <<mem, lock, cache, mapped>>

PublishHeap(t) ==
  LET h == at[t].heap IN
  /\ at[t].pc = "publish"
  /\ mem' = [mem EXCEPT ![h] = [@ EXCEPT !.id = TRUE, !.sized = TRUE]]
  /\ lock' = [lock EXCEPT ![h] = Nobody]
  /\ Goto(t, "test")
  /\ UNCHANGED <<cache, mapped>>

(* Back in assertMapped(): was the heap mapped?                            *)
TestHeap(t) ==
  /\ at[t].pc = "test"
  /\ Goto(t, IF mem[at[t].heap].base = Nobody THEN "fail" ELSE "copy")
  /\ UNCHANGED <<mem, lock, cache, mapped>>

FreeFailed(t) ==
  /\ at[t].pc = "fail"
  /\ cache' = Freed(cache)
  /\ Goto(t, "leave")
  /\ UNCHANGED <<mem, lock, mapped>>

(* The real heap's fields are copied with the proxy's mLock, the id last.  *)
CopyHeap(t) ==
  LET p == at[t].proxy
      h == at[t].heap
  IN /\ at[t].pc = "copy" /\ lock[p] = Nobody
     /\ IF mem[p].id
        THEN Goto(t, "leave") /\ UNCHANGED <<mem, lock>>
        ELSE /\ mem' = [mem EXCEPT ![p].base = mem[h].base, ![p].sized = mem[h].sized]
             /\ lock' = [lock EXCEPT ![p] = t]
             /\ Goto(t, "dup")
     /\ UNCHANGED <<cache, mapped>>

DupHeap(t) ==
  LET p == at[t].proxy IN
  /\ at[t].pc = "dup"
  /\ mem' = [mem EXCEPT ![p].id = mem[at[t].heap].id]
  /\ lock' = [lock EXCEPT ![p] = Nobody]
  /\ Goto(t, "leave")
  /\ UNCHANGED <<cache, mapped>>

Leave(t) ==
  /\ at[t].pc = "leave"
  /\ at' = [at EXCEPT ![t] = Outside]
  /\ Reclaim(cache, at')
  /\ UNCHANGED <<lock, cache>>

-----------------------------------------------------------------------------
(* BpMemoryHeap::~BpMemoryHeap() of a proxy that was used and that nobody  *)
(* refers to any more; a new one may take its place.                       *)
Destroy(p) ==
  /\ mem[p] # Fresh /\ \A t \in Threads : at[t].proxy # p
  /\ cache' = IF mem[p].id THEN Freed(cache) ELSE cache
  /\ LET gone == Heaps \ Referred(cache', at) IN
     /\ mem' = [o \in HeapObjects |-> IF o \in gone \union {p} THEN Fresh ELSE mem[o]]
     /\ mapped' = mapped \ {h \in gone : mem[h].id}
  /\ UNCHANGED <<lock, at>>

-----------------------------------------------------------------------------
AssertMapped(t) ==
  \/ \E p \in Proxies : Enter(t, p)
  \/ FindHeap(t) \/ CheckHeap(t) \/ MapHeap(t) \/ MapFails(t) \/ PublishHeap(t)
  \/ TestHeap(t) \/ FreeFailed(t) \/ CopyHeap(t) \/ DupHeap(t) \/ Leave(t)

Next == \/ \E t \in Threads : AssertMapped(t)
        \/ \E p \in Proxies : Destroy(p)

Spec == Init /\ [][Next]_vars

-----------------------------------------------------------------------------
(* Properties *)

(* Besides the types: whoever sees a real heap's mHeapId without its lock  *)
(* finds the other fields set too, and an entry has a user.                *)
TypeOK ==
  /\ \A h \in Heaps : mem[h].id => mem[h].base # Nobody /\ mem[h].sized
  /\ mem \in [HeapObjects -> [id : BOOLEAN, base : Heaps \union {Nobody},
                          sized : BOOLEAN]]
  /\ lock \in [HeapObjects -> Threads \union {Nobody}]
  /\ cache \in [heap : Heaps \union {Nobody}, count : 0 .. MaxCount]
  /\ (cache.heap = Nobody <=> cache.count = 0)
  /\ at \in [Threads -> [pc : {"out", "find", "check", "map", "publish", "test",
                               "fail", "copy", "dup", "leave"},
                         proxy : Proxies \union {Nobody},
                         heap : Heaps \union {Nobody}]]
  /\ mapped \subseteq Heaps

(* The memory a proxy has handed out stays mapped as long as the proxy     *)
(* lives: the cache counts at least one user for each.                     *)
MappedWhileUsed ==
  \A p \in Proxies : mem[p].base # Nobody => mem[p].base \in mapped

(* There is never more than one mapping of the remote heap that proxies    *)
(* use: all users see the same addresses.                                  *)
OneMappingInUse == Cardinality({mem[p].base : p \in Proxies} \ {Nobody}) <= 1

=============================================================================
