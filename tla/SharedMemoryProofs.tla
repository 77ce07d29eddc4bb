------------------------- MODULE SharedMemoryProofs -------------------------
(***************************************************************************)
(* Proofs about the two sides of a heap in shared memory.                  *)
(*                                                                         *)
(* MemoryDealer, for every heap size, page size and grain, any set of      *)
(* Allocations and any request sizes.  The argument: the list tiles the    *)
(* heap and is coalesced (ListInv), which each list operation preserves by *)
(* itself; the busy chunks are those the Allocations hold                  *)
(* (BusyChunksAreHeld), which ties the callers to the list; from the two,  *)
(* regions are disjoint, so that no constructor or destructor writes into  *)
(* another Allocation's memory; and the dealer implements HeapExtents: an  *)
(* extent that nobody holds has, in a coalesced tiling, a free chunk that  *)
(* covers it.                                                              *)
(*                                                                         *)
(* HeapCache, for any finite sets of threads and proxies, any set of real  *)
(* heaps and any bounds.  The argument: the count of the cache's entry is  *)
(* at least the number of its users (CountInv).  A thread uses the entry   *)
(* from find_heap() until its proxy has the heap's fields, and from then   *)
(* on the proxy does; a thread that finds its proxy served by another, and *)
(* a proxy that is left with no mHeapId, leave a count that nobody gives   *)
(* back, so that there is no equality.  All users use the same heap, the   *)
(* entry's (UsersInv), so that it stays referred to, and mapped, until the *)
(* last of them goes.                                                      *)
(***************************************************************************)
EXTENDS MCSharedMemory, CountingLemmas

-----------------------------------------------------------------------------
(* Arithmetic of grains and pages *)

LEMMA DivDef ==
  ASSUME NEW n \in Nat, NEW d \in Nat \ {0}
  PROVE  n \div d \in Nat /\ (n \div d) * d <= n /\ n < (n \div d) * d + d
  BY SMT

LEMMA MulMono ==
  ASSUME NEW a \in Nat, NEW b \in Nat, NEW d \in Nat, a <= b
  PROVE  a * d <= b * d
  BY SMT

LEMMA MulCancel ==
  ASSUME NEW a \in Nat, NEW b \in Nat, NEW d \in Nat \ {0}, a * d < b * d + d
  PROVE  a <= b
  BY SMT

LEMMA DivExact ==
  ASSUME NEW c \in Nat, NEW d \in Nat \ {0}
  PROVE  (c * d) \div d = c
<1> DEFINE q == (c * d) \div d
<1>1. c * d \in Nat
  OBVIOUS
<1>2. q \in Nat /\ q * d <= c * d /\ c * d < q * d + d
  BY <1>1, DivDef
<1>3. q <= c
  BY <1>2, MulCancel
<1>4. c <= q
  BY <1>2, MulCancel
<1> QED
  BY <1>2, <1>3, <1>4

(* Rounding up reaches at least the value, in whole grains.                *)
LEMMA RoundUpCovers ==
  ASSUME NEW n \in Nat, NEW d \in Nat \ {0}
  PROVE  (n + d - 1) \div d \in Nat /\ n <= ((n + d - 1) \div d) * d
  BY DivDef, n + d - 1 \in Nat

(* A request for at least a byte takes at least a unit, and fits in its    *)
(* units.                                                                  *)
LEMMA UnitsForCovers ==
  ASSUME NEW n \in Nat
  PROVE  /\ UnitsFor(n) \in Nat /\ n <= UnitsFor(n) * Align
         /\ n > 0 => UnitsFor(n) > 0
<1>1. UnitsFor(n) \in Nat /\ n <= UnitsFor(n) * Align
  BY AllocatorAssumption, RoundUpCovers DEF UnitsFor
<1>2. UnitsFor(n) = 0 => UnitsFor(n) * Align = 0
  BY AllocatorAssumption
<1> QED
  BY <1>1, <1>2

(* The heap is at least a unit long, and a whole number of units.          *)
LEMMA HeapIsUnits ==
  HeapUnits \in Nat \ {0} /\ HeapBytes \in Nat /\ HeapBytes = HeapUnits * Align
<1> DEFINE p == (DealerSize + PageSize - 1) \div PageSize
<1> USE AllocatorAssumption
<1>1. PICK k \in 1 .. PageSize : PageSize = k * Align
  OBVIOUS
<1>2. p \in Nat /\ DealerSize <= p * PageSize
  BY RoundUpCovers
<1>3. p # 0
  BY <1>2, 0 * PageSize = 0
<1>4. HeapBytes = (p * k) * Align
  BY <1>1, <1>2 DEF HeapBytes
<1>5. p * k \in Nat \ {0}
  BY <1>2, <1>3
<1>6. HeapUnits = p * k
  BY <1>4, <1>5, DivExact DEF HeapUnits
<1> QED
  BY <1>4, <1>5, <1>6

-----------------------------------------------------------------------------
(* The list *)

ListInv == AllocatorTypeOK /\ ListTilesHeap /\ NoAdjacentFree

(* alloc() keeps the list a coalesced tiling of the heap: the chunk taken  *)
(* has the units asked for, and the other busy chunks are as they were.    *)
LEMMA TakeKeepsList ==
  ASSUME ListInv, NEW c \in chunks, NEW u \in Nat \ {0}, Take(c, u)
  PROVE  /\ ListInv'
         /\ c \in chunks' /\ ~free'[c] /\ size'[c] = u
         /\ free[c] /\ chunks \subseteq chunks'
         /\ \A x \in chunks' : ~free'[x] /\ x # c =>
              x \in chunks /\ ~free[x]
         /\ \A x \in chunks : ~free[x] => ~free'[x] /\ size'[x] = size[x]
<1> USE HeapIsUnits DEF ListInv, NIL
<1>1. free[c] /\ size[c] >= u /\ size[c] \in Nat \ {0} /\ c \in Nat
  BY DEF Take, BestFit, Fitting, AllocatorTypeOK
<1>2. CASE size[c] <= u /\ TakeWhole(c, u)
  <2>1. AllocatorTypeOK'
    BY <1>1, <1>2 DEF TakeWhole, AllocatorTypeOK
  <2>2. ListTilesHeap'
    BY <1>1, <1>2 DEF TakeWhole, AllocatorTypeOK, ListTilesHeap
  <2>3. NoAdjacentFree'
    BY <1>1, <1>2 DEF TakeWhole, AllocatorTypeOK, NoAdjacentFree
  <2> QED
    BY <1>1, <1>2, <2>1, <2>2, <2>3 DEF TakeWhole, AllocatorTypeOK
<1>3. CASE size[c] > u /\ Split(c, u)
  <2> DEFINE rest == c + u
  <2>1. rest \notin chunks /\ rest \in Nat /\ c # rest
    BY <1>1, <1>3 DEF AllocatorTypeOK, ListTilesHeap
  <2>2. AllocatorTypeOK'
    <3>1. chunks' = chunks \union {rest} /\ chunks' \subseteq Nat
      BY <2>1, <1>3 DEF Split, AllocatorTypeOK
    <3>2. size' \in [chunks' -> Nat \ {0}] /\ free' \in [chunks' -> BOOLEAN]
      <4>1. /\ size[c] - u \in Nat \ {0}
            /\ \A x \in chunks : size[x] \in Nat \ {0} /\ free[x] \in BOOLEAN
        BY <1>1, <1>3 DEF AllocatorTypeOK
      <4>2. size' \in [chunks' -> Nat \ {0}]
        BY <1>3, <3>1, <4>1 DEF Split
      <4>3. free' \in [chunks' -> BOOLEAN]
        BY <1>3, <3>1, <4>1 DEF Split
      <4> QED
        BY <4>2, <4>3
    <3>3. prev' \in [chunks' -> chunks' \union {NIL}]
      BY <1>3, <2>1, <3>1 DEF Split, AllocatorTypeOK
    <3>4. next' \in [chunks' -> chunks' \union {NIL}]
      BY <1>3, <2>1, <3>1 DEF Split, AllocatorTypeOK
    <3>5. first' \in chunks' /\ last' \in chunks'
      BY <1>3, <2>1, <3>1 DEF Split, AllocatorTypeOK
    <3> QED
      BY <3>1, <3>2, <3>3, <3>4, <3>5 DEF AllocatorTypeOK
  <2>3. ListTilesHeap'
    BY <1>1, <1>3, <2>1, <2>2 DEF Split, AllocatorTypeOK, ListTilesHeap
  <2>4. NoAdjacentFree'
    BY <1>1, <1>3, <2>1 DEF Split, AllocatorTypeOK, NoAdjacentFree, ListTilesHeap
  <2> QED
    BY <1>1, <1>3, <2>1, <2>2, <2>3, <2>4 DEF Split, AllocatorTypeOK
<1> QED
  BY <1>2, <1>3 DEF Take

(* dealloc() does too: the chunk is no longer busy, and the other busy     *)
(* chunks are as they were.                                                *)
LEMMA GiveBackKeepsList ==
  ASSUME ListInv, NEW c \in chunks, ~free[c], GiveBack(c)
  PROVE  /\ ListInv'
         /\ \A x \in chunks' : ~free'[x] =>
              x # c /\ x \in chunks /\ ~free[x]
         /\ \A x \in chunks : ~free[x] /\ x # c =>
              x \in chunks' /\ ~free'[x] /\ size'[x] = size[x]
<1> USE HeapIsUnits DEF ListInv, NIL
<1> DEFINE p == prev[c]  n == next[c]
<1>a. c \in Nat /\ size[c] \in Nat \ {0}
  BY DEF AllocatorTypeOK
<1>b. p # -1 => /\ p \in chunks /\ p \in Nat /\ size[p] \in Nat \ {0}
                /\ next[p] = c /\ p + size[p] = c /\ p # c
  <2> SUFFICES ASSUME p # -1
               PROVE  /\ p \in chunks /\ p \in Nat /\ size[p] \in Nat \ {0}
                      /\ next[p] = c /\ p + size[p] = c /\ p # c
    OBVIOUS
  <2>1. p \in chunks /\ p \in Nat /\ size[p] \in Nat \ {0}
    BY DEF AllocatorTypeOK
  <2>2. next[p] = c
    BY DEF ListTilesHeap
  <2>3. p + size[p] = c
    BY <1>a, <2>1, <2>2 DEF ListTilesHeap
  <2> QED
    BY <1>a, <2>1, <2>2, <2>3
<1>c. n # -1 => /\ n \in chunks /\ n \in Nat /\ size[n] \in Nat \ {0}
                /\ prev[n] = c /\ c + size[c] = n /\ n # c
  BY <1>a DEF AllocatorTypeOK, ListTilesHeap
<1>d. n # -1 => n # p
  BY <1>a, <1>b, <1>c
<1>e. n # -1 /\ next[n] # -1 =>
        /\ next[n] \in chunks /\ next[n] \in Nat /\ next[n] = n + size[n]
        /\ prev[next[n]] = n
  BY <1>c DEF AllocatorTypeOK, ListTilesHeap
<1>f. n # -1 /\ next[n] # -1 => next[n] # n /\ next[n] # c /\ next[n] # p
  BY <1>a, <1>b, <1>c, <1>e
<1>g. first \in chunks /\ first = 0 /\ last \in chunks /\ (p = -1 <=> c = first)
      /\ (n = -1 <=> c = last) /\ (n # -1 => (next[n] = -1 <=> n = last) /\ n # first)
  BY <1>a, <1>c DEF AllocatorTypeOK, ListTilesHeap
<1>0. /\ c \in Nat /\ size[c] \in Nat \ {0}
      /\ p # -1 => p \in chunks /\ p \in Nat /\ next[p] = c /\ p + size[p] = c
                   /\ size[p] \in Nat \ {0} /\ p # c
      /\ n # -1 => n \in chunks /\ n \in Nat /\ prev[n] = c /\ c + size[c] = n
                   /\ size[n] \in Nat \ {0} /\ n # c /\ n # p
      /\ n # -1 /\ next[n] # -1 => /\ next[n] \in chunks /\ prev[next[n]] = n
                                   /\ next[n] # n /\ next[n] # c /\ next[n] # p
                                   /\ next[n] \in Nat
  BY <1>a, <1>b, <1>c, <1>d, <1>e, <1>f
<1>1. CASE MergesLeft(c) /\ MergesRight(c)
  <2>1. /\ chunks' = chunks \ {c, n}
        /\ size' = [x \in chunks \ {c, n} |->
                      IF x = p THEN size[p] + size[c] + size[n] ELSE size[x]]
        /\ free' = [x \in chunks \ {c, n} |-> x = p \/ free[x]]
        /\ next' = [x \in chunks \ {c, n} |-> IF x = p THEN next[n] ELSE next[x]]
        /\ prev' = [x \in chunks \ {c, n} |-> IF x = next[n] THEN p ELSE prev[x]]
        /\ last' = IF next[n] = -1 THEN p ELSE last
        /\ first' = first
    BY <1>1 DEF GiveBack
  <2> HIDE DEF p, n
  <2>2. AllocatorTypeOK'
    <3>1. chunks' \subseteq Nat /\ size' \in [chunks' -> Nat \ {0}]
      <4>1. size[p] + size[c] + size[n] \in Nat \ {0}
        BY <1>0, <1>1 DEF MergesLeft, MergesRight, p, n
      <4>2. chunks' \subseteq Nat /\ \A x \in chunks : size[x] \in Nat \ {0}
        BY <2>1 DEF AllocatorTypeOK
      <4> QED
        BY <2>1, <4>1, <4>2
    <3>2. free' \in [chunks' -> BOOLEAN]
      BY <2>1 DEF AllocatorTypeOK
    <3>3. prev' \in [chunks' -> chunks' \union {NIL}]
      <4> SUFFICES ASSUME NEW x \in chunks' PROVE prev'[x] \in chunks' \union {NIL}
        BY <2>1
      <4> QED
        BY <1>0, <1>1, <2>1 DEF AllocatorTypeOK, MergesLeft, MergesRight, ListTilesHeap, p, n
    <3>4. next' \in [chunks' -> chunks' \union {NIL}]
      <4> SUFFICES ASSUME NEW x \in chunks' PROVE next'[x] \in chunks' \union {NIL}
        BY <2>1
      <4> QED
        BY <1>0, <1>1, <2>1 DEF AllocatorTypeOK, MergesLeft, MergesRight, ListTilesHeap, p, n
    <3>5. first' \in chunks' /\ last' \in chunks'
      BY <1>0, <1>g, <1>1, <2>1 DEF MergesLeft, MergesRight, p, n
    <3> QED
      BY <3>1, <3>2, <3>3, <3>4, <3>5 DEF AllocatorTypeOK
  <2>3. ListTilesHeap'
    BY <1>0, <1>1, <2>1 DEF AllocatorTypeOK, MergesLeft, MergesRight, ListTilesHeap, p, n
  <2>4. NoAdjacentFree'
    BY <1>0, <1>1, <2>1
    DEF AllocatorTypeOK, MergesLeft, MergesRight, ListTilesHeap, NoAdjacentFree, p, n
  <2>5. \A x \in chunks' : ~free'[x] => x # c /\ x \in chunks /\ ~free[x]
    BY <2>1 DEF AllocatorTypeOK
  <2>6. \A x \in chunks : ~free[x] /\ x # c =>
          x \in chunks' /\ ~free'[x] /\ size'[x] = size[x]
    BY <1>0, <1>1, <2>1 DEF AllocatorTypeOK, MergesLeft, MergesRight, p, n
  <2> QED
    BY <2>2, <2>3, <2>4, <2>5, <2>6
<1>2. CASE MergesLeft(c) /\ ~MergesRight(c)
  <2>1. /\ chunks' = chunks \ {c}
        /\ size' = [x \in chunks \ {c} |->
                      IF x = p THEN size[p] + size[c] ELSE size[x]]
        /\ free' = [x \in chunks \ {c} |-> x = p \/ free[x]]
        /\ next' = [x \in chunks \ {c} |-> IF x = p THEN n ELSE next[x]]
        /\ prev' = [x \in chunks \ {c} |-> IF x = n THEN p ELSE prev[x]]
        /\ last' = IF n = -1 THEN p ELSE last
        /\ first' = first
    BY <1>0, <1>2 DEF GiveBack, AllocatorTypeOK
  <2> HIDE DEF p, n
  <2>2. AllocatorTypeOK'
    <3>1. chunks' \subseteq Nat /\ size' \in [chunks' -> Nat \ {0}]
      BY <1>0, <1>2, <2>1 DEF AllocatorTypeOK, MergesLeft, MergesRight
    <3>2. free' \in [chunks' -> BOOLEAN]
      BY <2>1 DEF AllocatorTypeOK
    <3>3. prev' \in [chunks' -> chunks' \union {NIL}]
      <4> SUFFICES ASSUME NEW x \in chunks' PROVE prev'[x] \in chunks' \union {NIL}
        BY <2>1
      <4> QED
        BY <1>0, <1>2, <2>1 DEF AllocatorTypeOK, MergesLeft, MergesRight, ListTilesHeap, p, n
    <3>4. next' \in [chunks' -> chunks' \union {NIL}]
      <4> SUFFICES ASSUME NEW x \in chunks' PROVE next'[x] \in chunks' \union {NIL}
        BY <2>1
      <4> QED
        BY <1>0, <1>2, <2>1 DEF AllocatorTypeOK, MergesLeft, MergesRight, ListTilesHeap, p, n
    <3>5. first' \in chunks' /\ last' \in chunks'
      BY <1>0, <1>g, <1>2, <2>1 DEF MergesLeft, MergesRight, p, n
    <3> QED
      BY <3>1, <3>2, <3>3, <3>4, <3>5 DEF AllocatorTypeOK
  <2>3. ListTilesHeap'
    BY <1>0, <1>2, <2>1 DEF AllocatorTypeOK, MergesLeft, MergesRight, ListTilesHeap, p, n
  <2>4. NoAdjacentFree'
    BY <1>0, <1>2, <2>1
    DEF AllocatorTypeOK, MergesLeft, MergesRight, ListTilesHeap, NoAdjacentFree, p, n
  <2>5. \A x \in chunks' : ~free'[x] => x # c /\ x \in chunks /\ ~free[x]
    BY <2>1 DEF AllocatorTypeOK
  <2>6. \A x \in chunks : ~free[x] /\ x # c =>
          x \in chunks' /\ ~free'[x] /\ size'[x] = size[x]
    BY <1>0, <1>2, <2>1 DEF AllocatorTypeOK, MergesLeft, MergesRight, p, n
  <2> QED
    BY <2>2, <2>3, <2>4, <2>5, <2>6
<1>3. CASE ~MergesLeft(c) /\ MergesRight(c)
  <2>1. /\ chunks' = chunks \ {n}
        /\ size' = [x \in chunks \ {n} |->
                      IF x = c THEN size[c] + size[n] ELSE size[x]]
        /\ free' = [x \in chunks \ {n} |-> x = c \/ free[x]]
        /\ next' = [x \in chunks \ {n} |-> IF x = c THEN next[n] ELSE next[x]]
        /\ prev' = [x \in chunks \ {n} |-> IF x = next[n] THEN c ELSE prev[x]]
        /\ last' = IF next[n] = -1 THEN c ELSE last
        /\ first' = first
    BY <1>0, <1>3 DEF GiveBack, AllocatorTypeOK
  <2> HIDE DEF p, n
  <2>2. AllocatorTypeOK'
    <3>1. chunks' \subseteq Nat /\ size' \in [chunks' -> Nat \ {0}]
      <4>1. size[c] + size[n] \in Nat \ {0}
        BY <1>0, <1>3 DEF MergesLeft, MergesRight, p, n
      <4>2. chunks' \subseteq Nat /\ \A x \in chunks : size[x] \in Nat \ {0}
        BY <2>1 DEF AllocatorTypeOK
      <4> QED
        BY <2>1, <4>1, <4>2
    <3>2. free' \in [chunks' -> BOOLEAN]
      BY <2>1 DEF AllocatorTypeOK
    <3>3. prev' \in [chunks' -> chunks' \union {NIL}]
      <4> SUFFICES ASSUME NEW x \in chunks' PROVE prev'[x] \in chunks' \union {NIL}
        BY <2>1
      <4> QED
        BY <1>0, <1>3, <2>1 DEF AllocatorTypeOK, MergesLeft, MergesRight, ListTilesHeap, p, n
    <3>4. next' \in [chunks' -> chunks' \union {NIL}]
      <4> SUFFICES ASSUME NEW x \in chunks' PROVE next'[x] \in chunks' \union {NIL}
        BY <2>1
      <4> QED
        BY <1>0, <1>3, <2>1 DEF AllocatorTypeOK, MergesLeft, MergesRight, ListTilesHeap, p, n
    <3>5. first' \in chunks' /\ last' \in chunks'
      BY <1>0, <1>g, <1>3, <2>1 DEF MergesLeft, MergesRight, p, n
    <3> QED
      BY <3>1, <3>2, <3>3, <3>4, <3>5 DEF AllocatorTypeOK
  <2>3. ListTilesHeap'
    BY <1>0, <1>3, <2>1 DEF AllocatorTypeOK, MergesLeft, MergesRight, ListTilesHeap, p, n
  <2>4. NoAdjacentFree'
    BY <1>0, <1>3, <2>1
    DEF AllocatorTypeOK, MergesLeft, MergesRight, ListTilesHeap, NoAdjacentFree, p, n
  <2>5. \A x \in chunks' : ~free'[x] => x # c /\ x \in chunks /\ ~free[x]
    BY <2>1 DEF AllocatorTypeOK
  <2>6. \A x \in chunks : ~free[x] /\ x # c =>
          x \in chunks' /\ ~free'[x] /\ size'[x] = size[x]
    BY <1>0, <1>3, <2>1 DEF AllocatorTypeOK, MergesLeft, MergesRight, p, n
  <2> QED
    BY <2>2, <2>3, <2>4, <2>5, <2>6
<1>4. CASE ~MergesLeft(c) /\ ~MergesRight(c)
  <2>1. /\ chunks' = chunks
        /\ size' = size
        /\ free' = [x \in chunks |-> x = c \/ free[x]]
        /\ next' = next
        /\ prev' = prev
        /\ last' = last
        /\ first' = first
    BY <1>0, <1>4 DEF GiveBack, AllocatorTypeOK, ListTilesHeap
  <2>2. AllocatorTypeOK' /\ ListTilesHeap'
    BY <2>1 DEF AllocatorTypeOK, ListTilesHeap
  <2>3. NoAdjacentFree'
    <3> SUFFICES ASSUME NEW x \in chunks, free'[x], next[x] # NIL
                 PROVE  ~free'[next[x]]
      BY <2>1 DEF NoAdjacentFree
    <3>1. next[x] \in chunks /\ prev[next[x]] = x
      BY DEF AllocatorTypeOK, ListTilesHeap
    <3>2. CASE x = c
      BY <1>4, <1>0, <2>1, <3>1, <3>2 DEF MergesRight, AllocatorTypeOK
    <3>3. CASE next[x] = c
      BY <1>4, <1>0, <2>1, <3>1, <3>3 DEF MergesLeft, AllocatorTypeOK
    <3>4. CASE x # c /\ next[x] # c
      BY <2>1, <3>1, <3>4 DEF NoAdjacentFree, AllocatorTypeOK
    <3> QED
      BY <3>2, <3>3, <3>4
  <2>4. \A x \in chunks : free'[x] <=> x = c \/ free[x]
    BY <2>1
  <2> QED
    BY <2>1, <2>2, <2>3, <2>4
<1> QED
  BY <1>1, <1>2, <1>3, <1>4

-----------------------------------------------------------------------------
(* The dealer *)

(* A destructor reaches its second half only if it has a chunk to free.    *)
PurgedHold == \A a \in Allocations : phase[a] = "purged" => bytes[a] > 0

IInv ==
  /\ TypeOK /\ ListTilesHeap /\ NoAdjacentFree
  /\ BusyChunksAreHeld
  /\ PurgedHold
  /\ ContentsIntact

(* Allocations that hold busy chunks of a tiled heap share no byte of it.  *)
LEMMA HeldMeansDisjoint ==
  ASSUME TypeOK, ListTilesHeap, BusyChunksAreHeld
  PROVE  RegionsDisjoint
<1> USE AllocatorAssumption, HeapIsUnits
<1> SUFFICES ASSUME NEW a \in Allocations, Holding(a)
             PROVE  /\ offset[a] + bytes[a] <= HeapBytes
                    /\ \A b \in Allocations \ {a} : Holding(b) =>
                         \/ offset[a] + bytes[a] <= offset[b]
                         \/ offset[b] + bytes[b] <= offset[a]
  BY DEF RegionsDisjoint
<1> DEFINE Covers(x, c) ==
      /\ offset[x] = c * Align /\ c + size[c] <= HeapUnits
      /\ offset[x] + bytes[x] <= (c + size[c]) * Align
<1>1. \A x \in Allocations : Holding(x) => \E c \in chunks : Covers(x, c)
  <2> SUFFICES ASSUME NEW x \in Allocations, Holding(x)
               PROVE  \E c \in chunks : Covers(x, c)
    OBVIOUS
  <2>1. PICK c \in chunks : offset[x] = c * Align /\ size[c] = UnitsFor(bytes[x])
    BY DEF BusyChunksAreHeld
  <2>2. bytes[x] \in Nat /\ c \in Nat /\ size[c] \in Nat
    BY DEF TypeOK, AllocatorTypeOK
  <2>3. bytes[x] <= size[c] * Align
    BY <2>1, <2>2, UnitsForCovers
  <2>4. (c + size[c]) * Align = c * Align + size[c] * Align
    BY <2>2
  <2>5. offset[x] + bytes[x] <= (c + size[c]) * Align
    BY <2>1, <2>2, <2>3, <2>4
  <2>6. c + size[c] <= HeapUnits
    BY DEF ListTilesHeap
  <2> QED
    BY <2>1, <2>5, <2>6
<1>2. PICK c \in chunks : Covers(a, c)
  BY <1>1
<1>3. /\ c \in Nat /\ size[c] \in Nat
      /\ offset[a] \in Nat /\ bytes[a] \in Nat
  BY DEF TypeOK, AllocatorTypeOK
<1>4. (c + size[c]) * Align <= HeapUnits * Align
  BY <1>2, <1>3, MulMono
<1>5. offset[a] + bytes[a] <= HeapBytes
  <2>1. (c + size[c]) * Align \in Nat /\ HeapUnits * Align \in Nat
    BY <1>3
  <2> QED
    BY <1>2, <1>3, <1>4, <2>1
<1>6. ASSUME NEW b \in Allocations \ {a}, Holding(b)
      PROVE  \/ offset[a] + bytes[a] <= offset[b]
             \/ offset[b] + bytes[b] <= offset[a]
  <2>1. PICK d \in chunks : Covers(b, d)
    BY <1>1, <1>6
  <2>2. /\ d \in Nat /\ size[d] \in Nat
        /\ offset[b] \in Nat /\ bytes[b] \in Nat
    BY DEF TypeOK, AllocatorTypeOK
  <2>3. c # d
    BY <1>2, <1>6, <2>1 DEF BusyChunksAreHeld
  <2>4. CASE c < d
    <3>1. c + size[c] <= d
      BY <2>4 DEF ListTilesHeap
    <3>2. (c + size[c]) * Align <= d * Align
      BY <1>3, <2>2, <3>1, MulMono
    <3>3. (c + size[c]) * Align \in Nat
      BY <1>3
    <3> QED
      BY <1>2, <1>3, <2>1, <2>2, <3>2, <3>3
  <2>5. CASE d < c
    <3>1. d + size[d] <= c
      BY <2>5 DEF ListTilesHeap
    <3>2. (d + size[d]) * Align <= c * Align
      BY <1>3, <2>2, <3>1, MulMono
    <3>3. (d + size[d]) * Align \in Nat
      BY <2>2
    <3> QED
      BY <1>2, <1>3, <2>1, <2>2, <3>2, <3>3
  <2> QED
    BY <1>3, <2>2, <2>3, <2>4, <2>5
<1> QED
  BY <1>5, <1>6

(* The pages a destructor gives back are bytes of its own region.          *)
LEMMA PagesAreOwn ==
  ASSUME TypeOK, NEW a \in Allocations
  PROVE  PagesInside(a) \subseteq Region(a)
<1> DEFINE lo == ((offset[a] + PageSize - 1) \div PageSize) * PageSize
           hi == ((offset[a] + bytes[a]) \div PageSize) * PageSize
<1>1. PageSize \in Nat \ {0} /\ offset[a] \in Nat /\ bytes[a] \in Nat
  BY AllocatorAssumption DEF TypeOK
<1>2. (offset[a] + PageSize - 1) \div PageSize \in Nat /\ offset[a] <= lo
  BY <1>1, RoundUpCovers
<1>3. (offset[a] + bytes[a]) \div PageSize \in Nat /\ hi <= offset[a] + bytes[a]
  <2> DEFINE end == offset[a] + bytes[a]
  <2>1. end \in Nat
    BY <1>1
  <2> HIDE DEF end
  <2>2. end \div PageSize \in Nat /\ (end \div PageSize) * PageSize <= end
    BY <1>1, <2>1, DivDef
  <2> QED
    BY <2>2 DEF end
<1>4. lo \in Nat /\ hi \in Nat
  BY <1>1, <1>2, <1>3
<1>5. PagesInside(a) = lo .. hi - 1
  BY DEF PagesInside
<1>6. offset[a] <= lo /\ hi <= offset[a] + bytes[a]
  BY <1>2, <1>3
<1> HIDE DEF lo, hi
<1> QED
  BY <1>1, <1>4, <1>5, <1>6 DEF Region

LEMMA InitIInv == Init => IInv
<1> SUFFICES ASSUME Init PROVE IInv
  OBVIOUS
<1> USE AllocatorAssumption, HeapIsUnits, DealerAssumption
<1>1. TypeOK
  BY DEF Init, AllocatorInit, TypeOK, AllocatorTypeOK, Phases, NIL
<1>2. ListTilesHeap /\ NoAdjacentFree
  BY DEF Init, AllocatorInit, ListTilesHeap, NoAdjacentFree, NIL
<1>3. BusyChunksAreHeld
  BY DEF Init, AllocatorInit, BusyChunksAreHeld, Holding, Idle
<1>4. PurgedHold /\ ContentsIntact
  BY DEF Init, PurgedHold, ContentsIntact
<1> QED
  BY <1>1, <1>2, <1>3, <1>4 DEF IInv

(* Every step keeps it, one action at a time.                              *)
LEMMA AllocateKeepsIInv ==
  ASSUME IInv, NEW a \in Allocations, NEW n \in Sizes, Allocate(a, n)
  PROVE  IInv'
<1> USE AllocatorAssumption, HeapIsUnits, DealerAssumption
<1>1. PICK c \in chunks : Take(c, UnitsFor(n)) /\ offset' = [offset EXCEPT ![a] = c * Align]
  BY DEF Allocate
<1>2. n \in Nat /\ n > 0 /\ UnitsFor(n) \in Nat \ {0}
  BY UnitsForCovers DEF Allocate
<1>3. ListInv
  BY DEF IInv, ListInv, TypeOK
<1>4. /\ ListInv'
      /\ c \in chunks' /\ ~free'[c] /\ size'[c] = UnitsFor(n)
      /\ free[c] /\ chunks \subseteq chunks'
      /\ \A x \in chunks' : ~free'[x] /\ x # c => x \in chunks /\ ~free[x]
      /\ \A x \in chunks : ~free[x] => ~free'[x] /\ size'[x] = size[x]
  BY <1>1, <1>2, <1>3, TakeKeepsList
<1>5. /\ Idle(a) /\ bytes' = [bytes EXCEPT ![a] = n]
      /\ phase' = [phase EXCEPT ![a] = "granted"] /\ content' = content
      /\ phase \in [Allocations -> Phases]
      /\ offset \in [Allocations -> Nat] /\ bytes \in [Allocations -> Nat]
  BY DEF Allocate, IInv, TypeOK
<1>6. /\ Holding(a)' /\ offset'[a] = c * Align /\ bytes'[a] = n
      /\ ~Holding(a)
      /\ \A b \in Allocations \ {a} :
           /\ Holding(b)' <=> Holding(b)
           /\ offset'[b] = offset[b] /\ bytes'[b] = bytes[b] /\ phase'[b] = phase[b]
  BY <1>1, <1>2, <1>5 DEF Holding, Idle
<1>7. c \in Nat /\ c * Align \in Nat
  BY DEF IInv, TypeOK, AllocatorTypeOK
<1>8. TypeOK'
  BY <1>1, <1>2, <1>4, <1>5, <1>7 DEF IInv, TypeOK, ListInv, Phases
<1>9. BusyChunksAreHeld'
  <2>1. ASSUME NEW b \in Allocations, Holding(b)'
        PROVE  \E d \in chunks' : /\ offset'[b] = d * Align /\ ~free'[d]
                                  /\ size'[d] = UnitsFor(bytes'[b])
    <3>1. CASE b = a
      BY <3>1, <1>4, <1>6
    <3>2. CASE b # a
      <4>1. PICK d \in chunks : /\ offset[b] = d * Align /\ ~free[d]
                                /\ size[d] = UnitsFor(bytes[b])
        BY <3>2, <2>1, <1>6 DEF IInv, BusyChunksAreHeld
      <4> QED
        BY <3>2, <4>1, <1>4, <1>6
    <3> QED
      BY <3>1, <3>2
  <2>2. ASSUME NEW d \in chunks', ~free'[d]
        PROVE  \E b \in Allocations : Holding(b)' /\ offset'[b] = d * Align
    <3>1. CASE d = c
      BY <3>1, <1>6
    <3>2. CASE d # c
      <4>1. PICK b \in Allocations : Holding(b) /\ offset[b] = d * Align
        BY <3>2, <2>2, <1>4 DEF IInv, BusyChunksAreHeld
      <4> QED
        BY <4>1, <1>6
    <3> QED
      BY <3>1, <3>2
  <2>3. \A b \in Allocations \ {a} : Holding(b) => offset[b] # c * Align
    <3> SUFFICES ASSUME NEW b \in Allocations \ {a}, Holding(b), offset[b] = c * Align
                 PROVE  FALSE
      OBVIOUS
    <3>1. PICK d \in chunks : offset[b] = d * Align /\ ~free[d]
      BY DEF IInv, BusyChunksAreHeld
    <3>2. d \in Nat /\ (d * Align) \div Align = d /\ (c * Align) \div Align = c
      BY <1>7, DivExact DEF IInv, TypeOK, AllocatorTypeOK
    <3> QED
      BY <3>1, <3>2, <1>4
  <2>4. \A x, y \in Allocations :
          Holding(x)' /\ Holding(y)' /\ offset'[x] = offset'[y] => x = y
    BY <2>3, <1>6 DEF IInv, BusyChunksAreHeld
  <2> QED
    BY <2>1, <2>2, <2>4 DEF BusyChunksAreHeld
<1>10. PurgedHold' /\ ContentsIntact'
  <2>1. phase'[a] = "granted"
    BY <1>5
  <2> QED
    BY <2>1, <1>5, <1>6 DEF IInv, PurgedHold, ContentsIntact, Region
<1> QED
  BY <1>4, <1>8, <1>9, <1>10 DEF IInv, ListInv

(* A step that leaves the list alone and changes no holding of a chunk.    *)
LEMMA SameHoldings ==
  ASSUME IInv, UNCHANGED listVars,
         \A b \in Allocations : /\ Holding(b)' <=> Holding(b)
                                /\ Holding(b) => offset'[b] = offset[b] /\ bytes'[b] = bytes[b]
  PROVE  AllocatorTypeOK' /\ ListTilesHeap' /\ NoAdjacentFree' /\ BusyChunksAreHeld'
<1> USE DEF listVars
<1>1. AllocatorTypeOK'
  BY DEF IInv, TypeOK, AllocatorTypeOK
<1>2. ListTilesHeap' /\ NoAdjacentFree'
  BY DEF IInv, ListTilesHeap, NoAdjacentFree
<1>3. BusyChunksAreHeld'
  BY DEF IInv, BusyChunksAreHeld
<1> QED
  BY <1>1, <1>2, <1>3

LEMMA AllocateNothingKeepsIInv ==
  ASSUME IInv, NEW a \in Allocations, AllocateNothing(a)
  PROVE  IInv'
<1> USE DealerAssumption
<1>1. TypeOK /\ UNCHANGED listVars
  BY DEF IInv, AllocateNothing
<1>2. \A b \in Allocations : /\ Holding(b)' <=> Holding(b)
                             /\ Holding(b) => offset'[b] = offset[b] /\ bytes'[b] = bytes[b]
  BY <1>1 DEF AllocateNothing, TypeOK, Holding, Idle
<1>3. AllocatorTypeOK' /\ ListTilesHeap' /\ NoAdjacentFree' /\ BusyChunksAreHeld'
  BY <1>1, <1>2, SameHoldings
<1>4. TypeOK'
  BY <1>1, <1>3 DEF AllocateNothing, TypeOK, Phases
<1>5. PurgedHold' /\ ContentsIntact'
  <2> SUFFICES ASSUME NEW b \in Allocations
               PROVE  /\ phase'[b] = "purged" => bytes'[b] > 0
                      /\ phase'[b] = "live" => \A x \in Region(b)' : content'[x] = b
    BY DEF PurgedHold, ContentsIntact
  <2>1. CASE b = a
    BY <2>1, <1>1 DEF AllocateNothing, TypeOK
  <2>2. CASE b # a
    BY <2>2, <1>1 DEF AllocateNothing, TypeOK, IInv, PurgedHold, ContentsIntact, Region
  <2> QED
    BY <2>1, <2>2
<1> QED
  BY <1>3, <1>4, <1>5 DEF IInv

LEMMA AllocateFailsKeepsIInv ==
  ASSUME IInv, NEW a \in Allocations, NEW n \in Sizes, AllocateFails(a, n)
  PROVE  IInv'
<1> USE DealerAssumption
<1>1. TypeOK /\ UNCHANGED listVars
  BY DEF IInv, AllocateFails
<1>2. \A b \in Allocations : /\ Holding(b)' <=> Holding(b)
                             /\ Holding(b) => offset'[b] = offset[b] /\ bytes'[b] = bytes[b]
  BY <1>1 DEF AllocateFails, TypeOK, Holding, Idle
<1>3. AllocatorTypeOK' /\ ListTilesHeap' /\ NoAdjacentFree' /\ BusyChunksAreHeld'
  BY <1>1, <1>2, SameHoldings
<1>4. TypeOK'
  BY <1>1, <1>3 DEF AllocateFails, TypeOK, Phases
<1>5. PurgedHold' /\ ContentsIntact'
  BY <1>1 DEF AllocateFails, TypeOK, IInv, PurgedHold, ContentsIntact, Region
<1> QED
  BY <1>3, <1>4, <1>5 DEF IInv

LEMMA ConstructKeepsIInv ==
  ASSUME IInv, NEW a \in Allocations, Construct(a)
  PROVE  IInv'
<1>1. /\ TypeOK /\ RegionsDisjoint /\ UNCHANGED listVars
      /\ offset' = offset /\ bytes' = bytes
      /\ phase' = [phase EXCEPT ![a] = "live"] /\ phase[a] = "granted"
  BY HeldMeansDisjoint DEF IInv, Construct
<1>2. \A b \in Allocations : /\ Holding(b)' <=> Holding(b)
                             /\ Holding(b) => offset'[b] = offset[b] /\ bytes'[b] = bytes[b]
  BY <1>1 DEF TypeOK, Holding, Idle
<1>3. AllocatorTypeOK' /\ ListTilesHeap' /\ NoAdjacentFree' /\ BusyChunksAreHeld'
  BY <1>1, <1>2, SameHoldings
<1>4. TypeOK'
  BY <1>1, <1>3 DEF Construct, TypeOK, Phases
<1>5. PurgedHold'
  BY <1>1 DEF TypeOK, IInv, PurgedHold
<1>6. ContentsIntact'
  <2> SUFFICES ASSUME NEW b \in Allocations, phase'[b] = "live", NEW x \in Region(b)
               PROVE  content'[x] = b
    BY <1>1 DEF ContentsIntact, Region
  <2>1. /\ offset[b] \in Nat /\ bytes[b] \in Nat /\ bytes[b] > 0
        /\ x >= offset[b] /\ x < offset[b] + bytes[b] /\ x \in Nat
        /\ offset[a] \in Nat /\ bytes[a] \in Nat
    BY <1>1 DEF TypeOK, Region
  <2>2. Holding(b)
    BY <2>1, <1>1 DEF TypeOK, Holding, Idle
  <2>3. x \in DOMAIN content
    BY <1>1, <2>1, <2>2, HeapIsUnits DEF RegionsDisjoint, TypeOK
  <2>4. CASE b = a
    BY <2>3, <2>4 DEF Construct
  <2>5. CASE b # a
    <3>1. x \notin Region(a)
      <4> SUFFICES ASSUME x \in Region(a) PROVE FALSE
        OBVIOUS
      <4>1. x >= offset[a] /\ x < offset[a] + bytes[a] /\ bytes[a] > 0
        BY <2>1 DEF Region
      <4>2. Holding(a)
        BY <4>1, <1>1 DEF Holding, Idle
      <4> QED
        BY <4>1, <4>2, <2>1, <2>2, <2>5, <1>1 DEF RegionsDisjoint
    <3>2. content[x] = b
      BY <2>5, <1>1 DEF IInv, ContentsIntact, TypeOK
    <3> QED
      BY <2>3, <3>1, <3>2 DEF Construct
  <2> QED
    BY <2>4, <2>5
<1> QED
  BY <1>3, <1>4, <1>5, <1>6 DEF IInv

LEMMA PurgeKeepsIInv ==
  ASSUME IInv, NEW a \in Allocations, Purge(a)
  PROVE  IInv'
<1>1. /\ TypeOK /\ RegionsDisjoint /\ UNCHANGED listVars
      /\ offset' = offset /\ bytes' = bytes
      /\ phase' = [phase EXCEPT ![a] = "purged"] /\ phase[a] = "live" /\ bytes[a] > 0
  BY HeldMeansDisjoint DEF IInv, Purge
<1>2. \A b \in Allocations : /\ Holding(b)' <=> Holding(b)
                             /\ Holding(b) => offset'[b] = offset[b] /\ bytes'[b] = bytes[b]
  BY <1>1 DEF TypeOK, Holding, Idle
<1>3. AllocatorTypeOK' /\ ListTilesHeap' /\ NoAdjacentFree' /\ BusyChunksAreHeld'
  BY <1>1, <1>2, SameHoldings
<1>4. TypeOK'
  BY <1>1, <1>3 DEF Purge, TypeOK, Phases
<1>5. PurgedHold'
  BY <1>1 DEF TypeOK, IInv, PurgedHold
<1>6. ContentsIntact'
  <2> SUFFICES ASSUME NEW b \in Allocations, phase'[b] = "live", NEW x \in Region(b)
               PROVE  content'[x] = b
    BY <1>1 DEF ContentsIntact, Region
  <2>1. /\ offset[b] \in Nat /\ bytes[b] \in Nat /\ bytes[b] > 0
        /\ x >= offset[b] /\ x < offset[b] + bytes[b] /\ x \in Nat
        /\ offset[a] \in Nat /\ bytes[a] \in Nat
    BY <1>1 DEF TypeOK, Region
  <2>2. Holding(a) /\ Holding(b) /\ b # a /\ phase[b] = "live"
    BY <2>1, <1>1 DEF TypeOK, Holding, Idle
  <2>3. x \in DOMAIN content
    BY <1>1, <2>1, <2>2, HeapIsUnits DEF RegionsDisjoint, TypeOK
  <2>4. x \notin Region(a)
    BY <1>1, <2>1, <2>2 DEF RegionsDisjoint, Region
  <2>5. x \notin PagesInside(a)
    BY <1>1, <2>4, PagesAreOwn
  <2> QED
    BY <2>2, <2>3, <2>5 DEF Purge, IInv, ContentsIntact
<1> QED
  BY <1>3, <1>4, <1>5, <1>6 DEF IInv

(* When an Allocation vanishes the data of the others stays.               *)
LEMMA VanishKeepsOthers ==
  ASSUME IInv, NEW a \in Allocations, Vanish(a)
  PROVE  /\ PurgedHold' /\ ContentsIntact'
         /\ phase' \in [Allocations -> Phases]
         /\ offset' \in [Allocations -> Nat] /\ bytes' \in [Allocations -> Nat]
         /\ content' \in [0 .. HeapBytes - 1 -> Allocations \union {Nobody}]
         /\ ~Holding(a)'
         /\ \A b \in Allocations \ {a} :
              /\ Holding(b)' <=> Holding(b)
              /\ offset'[b] = offset[b] /\ bytes'[b] = bytes[b]
<1>1. TypeOK /\ RegionsDisjoint
  BY HeldMeansDisjoint DEF IInv
<1>2. /\ phase' \in [Allocations -> Phases]
      /\ offset' \in [Allocations -> Nat] /\ bytes' \in [Allocations -> Nat]
      /\ content' \in [0 .. HeapBytes - 1 -> Allocations \union {Nobody}]
  BY <1>1 DEF Vanish, TypeOK, Phases
<1>3. /\ ~Holding(a)' /\ phase'[a] = "none"
      /\ \A b \in Allocations \ {a} :
           /\ Holding(b)' <=> Holding(b)
           /\ phase'[b] = phase[b]
           /\ offset'[b] = offset[b] /\ bytes'[b] = bytes[b]
  BY <1>1 DEF Vanish, TypeOK, Holding, Idle
<1>4. PurgedHold'
  BY <1>3 DEF IInv, PurgedHold
<1>5. ContentsIntact'
  <2> SUFFICES ASSUME NEW b \in Allocations, phase'[b] = "live", NEW x \in Region(b)'
               PROVE  content'[x] = b
    BY DEF ContentsIntact
  <2>1. b # a /\ phase[b] = "live" /\ x \in Region(b)
    BY <1>3 DEF Region
  <2>2. content[x] = b
    BY <2>1 DEF IInv, ContentsIntact
  <2>3. /\ offset[b] \in Nat /\ bytes[b] \in Nat /\ bytes[b] > 0
        /\ x >= offset[b] /\ x < offset[b] + bytes[b] /\ x \in Nat
    BY <1>1, <2>1 DEF TypeOK, Region
  <2>4. Holding(b)
    BY <2>1, <2>3 DEF Holding, Idle
  <2>5. x \in DOMAIN content
    BY <1>1, <2>3, <2>4, HeapIsUnits DEF RegionsDisjoint, TypeOK
  <2> QED
    BY <2>1, <2>2, <2>5 DEF Vanish
<1> QED
  BY <1>2, <1>3, <1>4, <1>5

LEMMA ReleaseKeepsIInv ==
  ASSUME IInv, NEW a \in Allocations, Release(a)
  PROVE  IInv'
<1> USE AllocatorAssumption
<1>1. Vanish(a) /\ TypeOK /\ ListInv /\ phase[a] = "purged" /\ Holding(a)
  BY DEF Release, IInv, ListInv, TypeOK, PurgedHold, Holding, Idle
<1>2. PICK c \in chunks : offset[a] = c * Align /\ ~free[c]
  BY <1>1 DEF IInv, BusyChunksAreHeld
<1>3. c \in Nat /\ offset[a] \div Align = c
  BY <1>1, <1>2, DivExact DEF TypeOK, AllocatorTypeOK
<1>4. GiveBack(c)
  BY <1>3 DEF Release
<1>5. /\ ListInv'
      /\ \A x \in chunks' : ~free'[x] => x # c /\ x \in chunks /\ ~free[x]
      /\ \A x \in chunks : ~free[x] /\ x # c =>
           x \in chunks' /\ ~free'[x] /\ size'[x] = size[x]
  BY <1>1, <1>2, <1>4, GiveBackKeepsList
<1>6. /\ PurgedHold' /\ ContentsIntact'
      /\ phase' \in [Allocations -> Phases]
      /\ offset' \in [Allocations -> Nat] /\ bytes' \in [Allocations -> Nat]
      /\ content' \in [0 .. HeapBytes - 1 -> Allocations \union {Nobody}]
      /\ ~Holding(a)'
      /\ \A b \in Allocations \ {a} :
           /\ Holding(b)' <=> Holding(b)
           /\ offset'[b] = offset[b] /\ bytes'[b] = bytes[b]
  BY <1>1, VanishKeepsOthers
<1>7. BusyChunksAreHeld'
  <2>1. ASSUME NEW b \in Allocations, Holding(b)'
        PROVE  \E d \in chunks' : /\ offset'[b] = d * Align /\ ~free'[d]
                                  /\ size'[d] = UnitsFor(bytes'[b])
    <3>1. b # a /\ Holding(b) /\ offset[b] # offset[a]
      BY <1>1, <1>6, <2>1 DEF IInv, BusyChunksAreHeld
    <3>2. PICK d \in chunks : /\ offset[b] = d * Align /\ ~free[d]
                              /\ size[d] = UnitsFor(bytes[b])
      BY <3>1 DEF IInv, BusyChunksAreHeld
    <3> QED
      BY <1>2, <1>5, <1>6, <3>1, <3>2
  <2>2. ASSUME NEW d \in chunks', ~free'[d]
        PROVE  \E b \in Allocations : Holding(b)' /\ offset'[b] = d * Align
    <3>1. d # c /\ d \in chunks /\ ~free[d]
      BY <1>5, <2>2
    <3>2. PICK b \in Allocations : Holding(b) /\ offset[b] = d * Align
      BY <3>1 DEF IInv, BusyChunksAreHeld
    <3>3. d \in Nat /\ (d * Align) \div Align = d
      BY <1>1, <3>1, DivExact DEF TypeOK, AllocatorTypeOK
    <3>4. b # a
      BY <1>3, <3>1, <3>2, <3>3
    <3> QED
      BY <1>6, <3>2, <3>4
  <2>3. \A x, y \in Allocations :
          Holding(x)' /\ Holding(y)' /\ offset'[x] = offset'[y] => x = y
    BY <1>6 DEF IInv, BusyChunksAreHeld
  <2> QED
    BY <2>1, <2>2, <2>3 DEF BusyChunksAreHeld
<1>8. TypeOK'
  BY <1>5, <1>6 DEF ListInv, TypeOK
<1> QED
  BY <1>5, <1>6, <1>7, <1>8 DEF IInv, ListInv

LEMMA ReleaseNothingKeepsIInv ==
  ASSUME IInv, NEW a \in Allocations, ReleaseNothing(a)
  PROVE  IInv'
<1>1. Vanish(a) /\ UNCHANGED listVars /\ TypeOK /\ ~Holding(a)
  BY DEF ReleaseNothing, IInv, Holding
<1>2. /\ PurgedHold' /\ ContentsIntact'
      /\ phase' \in [Allocations -> Phases]
      /\ offset' \in [Allocations -> Nat] /\ bytes' \in [Allocations -> Nat]
      /\ content' \in [0 .. HeapBytes - 1 -> Allocations \union {Nobody}]
      /\ \A b \in Allocations :
           /\ Holding(b)' <=> Holding(b)
           /\ Holding(b) => offset'[b] = offset[b] /\ bytes'[b] = bytes[b]
  BY <1>1, VanishKeepsOthers
<1>3. AllocatorTypeOK' /\ ListTilesHeap' /\ NoAdjacentFree' /\ BusyChunksAreHeld'
  BY <1>1, <1>2, SameHoldings
<1> QED
  BY <1>2, <1>3 DEF IInv, TypeOK

LEMMA NextKeepsIInv == IInv /\ [Next]_vars => IInv'
<1> SUFFICES ASSUME IInv, [Next]_vars PROVE IInv'
  OBVIOUS
<1>1. CASE UNCHANGED vars
  BY <1>1 DEF vars, listVars, clientVars, IInv, TypeOK, AllocatorTypeOK, ListTilesHeap,
       NoAdjacentFree, BusyChunksAreHeld, PurgedHold, ContentsIntact, Holding, Idle, Region
<1>2. ASSUME NEW a \in Allocations, NEW n \in Sizes, Allocate(a, n) PROVE IInv'
  BY <1>2, AllocateKeepsIInv
<1>3. ASSUME NEW a \in Allocations, NEW n \in Sizes, AllocateFails(a, n) PROVE IInv'
  BY <1>3, AllocateFailsKeepsIInv
<1>4. ASSUME NEW a \in Allocations, AllocateNothing(a) PROVE IInv'
  BY <1>4, AllocateNothingKeepsIInv
<1>5. ASSUME NEW a \in Allocations, Construct(a) PROVE IInv'
  BY <1>5, ConstructKeepsIInv
<1>6. ASSUME NEW a \in Allocations, Purge(a) PROVE IInv'
  BY <1>6, PurgeKeepsIInv
<1>7. ASSUME NEW a \in Allocations, Release(a) PROVE IInv'
  BY <1>7, ReleaseKeepsIInv
<1>8. ASSUME NEW a \in Allocations, ReleaseNothing(a) PROVE IInv'
  BY <1>8, ReleaseNothingKeepsIInv
<1> QED
  BY <1>1, <1>2, <1>3, <1>4, <1>5, <1>6, <1>7, <1>8 DEF Next

-----------------------------------------------------------------------------
(* What the dealer guarantees *)

LEMMA Invariance == Spec => []IInv
  BY InitIInv, NextKeepsIInv, PTL DEF Spec

(* The state has its type throughout: in particular no list operation ever *)
(* follows a pointer to a deleted chunk_t.                                 *)
THEOREM TypeCorrect == Spec => []TypeOK
<1>1. IInv => TypeOK
  BY DEF IInv
<1> QED
  BY <1>1, Invariance, PTL

(* The chunk list always tiles the heap, forwards and backwards.           *)
THEOREM HeapIsTiled == Spec => []ListTilesHeap
<1>1. IInv => ListTilesHeap
  BY DEF IInv
<1> QED
  BY <1>1, Invariance, PTL

(* Free space is always coalesced.                                         *)
THEOREM HeapIsCoalesced == Spec => []NoAdjacentFree
<1>1. IInv => NoAdjacentFree
  BY DEF IInv
<1> QED
  BY <1>1, Invariance, PTL

(* No chunk is leaked, freed twice or freed by another than its holder.    *)
THEOREM NoLeakNoDoubleFree == Spec => []BusyChunksAreHeld
<1>1. IInv => BusyChunksAreHeld
  BY DEF IInv
<1> QED
  BY <1>1, Invariance, PTL

(* No two Allocations ever share a byte of the heap.                       *)
THEOREM DisjointRegions == Spec => []RegionsDisjoint
<1>1. IInv => RegionsDisjoint
  BY HeldMeansDisjoint DEF IInv
<1> QED
  BY <1>1, Invariance, PTL

(* No Allocation's data is touched by the life of another.                 *)
THEOREM DataIsSafe == Spec => []ContentsIntact
<1>1. IInv => ContentsIntact
  BY DEF IInv
<1> QED
  BY <1>1, Invariance, PTL

(* A heap that everybody has returned is one free chunk.                   *)
THEOREM DrainedHeapMerges == Spec => []DrainedHeapIsWhole
<1>1. IInv => DrainedHeapIsWhole
  <2> SUFFICES ASSUME IInv, \A a \in Allocations : ~Holding(a)
               PROVE  chunks = {0} /\ free[0] /\ size[0] = HeapUnits
    BY DEF DrainedHeapIsWhole
  <2>1. \A c \in chunks : free[c]
    BY DEF IInv, BusyChunksAreHeld, TypeOK, AllocatorTypeOK
  <2>2. 0 \in chunks /\ next[0] = NIL
    <3>1. 0 \in chunks /\ (next[0] # NIL => next[0] \in chunks)
      BY DEF IInv, TypeOK, AllocatorTypeOK, ListTilesHeap
    <3> QED
      BY <2>1, <3>1 DEF IInv, NoAdjacentFree
  <2>3. size[0] = HeapUnits
    BY <2>2, HeapIsUnits DEF IInv, TypeOK, AllocatorTypeOK, ListTilesHeap, NIL
  <2>4. ASSUME NEW d \in chunks, d # 0 PROVE FALSE
    <3>1. d \in Nat /\ size[d] \in Nat \ {0} /\ d + size[d] <= HeapUnits
      BY DEF IInv, TypeOK, AllocatorTypeOK, ListTilesHeap
    <3>2. 0 + size[0] <= d
      BY <2>2, <2>4, <3>1 DEF IInv, ListTilesHeap
    <3> QED
      BY <2>3, <3>1, <3>2, HeapIsUnits
  <2> QED
    BY <2>1, <2>2, <2>3, <2>4
<1> QED
  BY <1>1, Invariance, PTL

-----------------------------------------------------------------------------
(* The dealer implements HeapExtents *)

(* What the abstract heap sees: the extent an Allocation holds, and what   *)
(* it was refused.                                                         *)
Granted(a) ==
  IF Holding(a) THEN [lo |-> offset[a] \div Align, len |-> UnitsFor(bytes[a])] ELSE NoExtent
Refusal(a) == IF phase[a] = "refused" THEN UnitsFor(bytes[a]) ELSE 0
Grants == [a \in Allocations |-> Granted(a)]
Refusals == [a \in Allocations |-> Refusal(a)]

(* Whoever holds something holds a busy chunk, from its start to its end.  *)
LEMMA HoldersHaveChunks ==
  ASSUME IInv, NEW a \in Allocations, Holding(a)
  PROVE  /\ Granted(a).lo \in chunks /\ ~free[Granted(a).lo]
         /\ Granted(a).len = size[Granted(a).lo]
         /\ Granted(a) = [lo |-> Granted(a).lo, len |-> size[Granted(a).lo]]
<1>1. PICK c \in chunks : offset[a] = c * Align /\ ~free[c] /\ size[c] = UnitsFor(bytes[a])
  BY DEF IInv, BusyChunksAreHeld
<1>2. c \in Nat
  BY DEF IInv, TypeOK, AllocatorTypeOK
<1>3. offset[a] \div Align = c
  BY <1>1, <1>2, DivExact, AllocatorAssumption
<1>4. Granted(a) = [lo |-> c, len |-> size[c]]
  BY <1>1, <1>3 DEF Granted
<1> QED
  BY <1>1, <1>4

(* A busy chunk is what some Allocation holds.                             *)
LEMMA BusyIsGranted ==
  ASSUME IInv, NEW c \in chunks, ~free[c]
  PROVE  \E a \in Allocations : Holding(a) /\ Granted(a).lo = c /\ Granted(a).len = size[c]
<1>1. PICK a \in Allocations : Holding(a) /\ offset[a] = c * Align
  BY DEF IInv, BusyChunksAreHeld
<1>2. Granted(a).lo = c
  <2>1. c \in Nat
    BY DEF IInv, TypeOK, AllocatorTypeOK
  <2>2. offset[a] \div Align = c
    BY <1>1, <2>1, DivExact, AllocatorAssumption
  <2> QED
    BY <1>1, <2>2 DEF Granted
<1> QED
  BY <1>1, <1>2, HoldersHaveChunks

(* Those who hold nothing have no extent, and those who hold have one.     *)
LEMMA HoldersHaveExtents ==
  ASSUME IInv, NEW a \in Allocations
  PROVE  Holding(a) <=> Granted(a) # NoExtent
<1>1. ASSUME Holding(a) PROVE Granted(a) # NoExtent
  <2>1. Granted(a).lo \in Nat
    BY <1>1, HoldersHaveChunks DEF IInv, TypeOK, AllocatorTypeOK
  <2> QED
    BY <2>1 DEF NoExtent, NIL
<1> QED
  BY <1>1 DEF Granted

(* Each unit of the heap is in one of the chunks.                          *)
LEMMA UnitHasChunk ==
  ASSUME ListInv, NEW x \in Nat, x < HeapUnits
  PROVE  \E c \in chunks : c <= x /\ x < c + size[c]
<1> DEFINE B == {c \in chunks : c <= x}
<1>1. B \subseteq Nat /\ B # {}
  <2>1. 0 \in chunks /\ chunks \subseteq Nat
    BY DEF ListInv, ListTilesHeap, AllocatorTypeOK
  <2>2. 0 \in B
    BY <2>1
  <2> QED
    BY <2>1, <2>2
<1>2. PICK c \in B : \A d \in B : d <= c
  BY <1>1, Greatest
<1>3. c \in Nat /\ c <= x /\ size[c] \in Nat \ {0} /\ c \in chunks
  BY DEF ListInv, AllocatorTypeOK
<1>4. CASE c + size[c] = HeapUnits
  BY <1>3, <1>4
<1>5. CASE c + size[c] # HeapUnits
  <2>1. next[c] = c + size[c] /\ next[c] \in chunks
    <3>1. next[c] = c + size[c] /\ next[c] \in chunks \union {NIL}
      BY <1>3, <1>5 DEF ListInv, ListTilesHeap, AllocatorTypeOK
    <3> QED
      BY <1>3, <3>1 DEF NIL
  <2>2. ~ c + size[c] <= c
    BY <1>3
  <2>3. ~ c + size[c] <= x
    BY <1>2, <2>1, <2>2
  <2> QED
    BY <1>3, <2>3
<1> QED
  BY <1>4, <1>5

(* The chunk a request gets is an extent that nobody holds.                *)
LEMMA ChunkIsAvailable ==
  ASSUME IInv, NEW c \in chunks, NEW u \in Nat \ {0}, free[c], size[c] >= u
  PROVE  /\ [lo |-> c, len |-> u] \in Extents!Extent
         /\ Extents!Available([lo |-> c, len |-> u])
<1>1. c \in Nat /\ size[c] \in Nat \ {0} /\ c + size[c] <= HeapUnits /\ HeapUnits \in Nat
  BY HeapIsUnits DEF IInv, TypeOK, AllocatorTypeOK, ListTilesHeap
<1>2. c + u <= HeapUnits /\ c \in 0 .. HeapUnits - 1 /\ u \in 1 .. HeapUnits
  BY <1>1
<1>3. ASSUME NEW a \in Allocations, Granted(a) # NoExtent
      PROVE  ~ Extents!Overlap([lo |-> c, len |-> u], Granted(a))
  <2> DEFINE d == Granted(a).lo
  <2>1. d \in chunks /\ ~free[d] /\ Granted(a).len = size[d]
    BY <1>3, HoldersHaveExtents, HoldersHaveChunks
  <2> HIDE DEF d
  <2>2. d \in Nat /\ size[d] \in Nat /\ d # c
    BY <2>1 DEF IInv, TypeOK, AllocatorTypeOK
  <2>3. c < d => c + size[c] <= d
    BY <2>1 DEF IInv, ListTilesHeap
  <2>4. d < c => d + size[d] <= c
    BY <2>1 DEF IInv, ListTilesHeap
  <2>5. c + u <= d \/ d + size[d] <= c
    BY <1>1, <2>2, <2>3, <2>4
  <2>6. ~ (c < d + size[d] /\ d < c + u)
    BY <1>1, <2>2, <2>5
  <2> QED
    BY <2>1, <2>6 DEF Extents!Overlap, d
<1>4. [lo |-> c, len |-> u].lo = c /\ [lo |-> c, len |-> u].len = u
  OBVIOUS
<1>5. Extents!Available([lo |-> c, len |-> u])
  BY <1>2, <1>3, <1>4 DEF Extents!Available, Granted
<1> QED
  BY <1>2, <1>5 DEF Extents!Extent

(* If no free chunk has the size that is asked for, no extent of that size *)
(* is available: it would begin in a free chunk, which ends before it does *)
(* and is followed by a busy one.                                          *)
LEMMA RefusalIsHonest ==
  ASSUME IInv, NEW u \in Nat \ {0}, Fitting(u) = {}, NEW x \in 0 .. HeapUnits - 1
  PROVE  ~ Extents!Available([lo |-> x, len |-> u])
<1> DEFINE e == [lo |-> x, len |-> u]
<1>1. e.lo = x /\ e.len = u
  OBVIOUS
<1> HIDE DEF e
<1> SUFFICES ASSUME Extents!Available(e) PROVE FALSE
  BY DEF e
<1>2. /\ x \in Nat /\ HeapUnits \in Nat /\ x + u <= HeapUnits /\ x < HeapUnits
      /\ \A a \in Allocations : Granted(a) # NoExtent => ~ Extents!Overlap(e, Granted(a))
  <2>1. e.lo + e.len <= HeapUnits
    BY DEF Extents!Available
  <2>2. \A a \in Allocations : Granted(a) # NoExtent => ~ Extents!Overlap(e, Granted(a))
    BY DEF Extents!Available, Granted
  <2>3. x \in Nat /\ HeapUnits \in Nat
    BY HeapIsUnits
  <2> QED
    BY <1>1, <2>1, <2>2, <2>3
<1>3. \A d \in chunks : d \in Nat /\ size[d] \in Nat \ {0}
  BY DEF IInv, TypeOK, AllocatorTypeOK
<1>4. ASSUME NEW d \in chunks, x < d + size[d], d < x + u
      PROVE  free[d]
  <2> SUFFICES ASSUME ~free[d] PROVE FALSE
    BY DEF IInv, TypeOK, AllocatorTypeOK
  <2>1. PICK a \in Allocations : Holding(a) /\ Granted(a).lo = d /\ Granted(a).len = size[d]
    BY BusyIsGranted
  <2>2. Extents!Overlap(e, Granted(a))
    BY <1>1, <1>4, <2>1 DEF Extents!Overlap
  <2>3. Granted(a) # NoExtent
    BY <2>1, HoldersHaveExtents
  <2> QED
    BY <1>2, <2>2, <2>3
<1>5. PICK c \in chunks : c <= x /\ x < c + size[c]
  <2>1. ListInv
    BY DEF IInv, TypeOK, ListInv
  <2> QED
    BY <1>2, <2>1, UnitHasChunk
<1>6. free[c]
  <2>1. c < x + u
    BY <1>2, <1>3, <1>5
  <2> QED
    BY <1>4, <1>5, <2>1
<1>7. size[c] < u
  BY <1>3, <1>6 DEF Fitting
<1>8. c + size[c] < x + u /\ c + size[c] # HeapUnits
  BY <1>2, <1>3, <1>5, <1>7
<1>9. next[c] = c + size[c] /\ next[c] # NIL
  BY <1>3, <1>8 DEF IInv, ListTilesHeap, NIL
<1>10. next[c] \in chunks
  BY <1>9 DEF IInv, TypeOK, AllocatorTypeOK
<1>11. ~free[next[c]]
  BY <1>6, <1>9 DEF IInv, NoAdjacentFree
<1>12. x < next[c] + size[next[c]] /\ next[c] < x + u
  BY <1>2, <1>3, <1>5, <1>8, <1>9, <1>10
<1> QED
  BY <1>4, <1>10, <1>11, <1>12

LEMMA ExtentsBegin ==
  ASSUME Init
  PROVE  Extents!Init
<1>1. \A a \in Allocations : ~Holding(a) /\ phase[a] # "refused"
  BY DEF Init, Holding, Idle
<1> QED
  BY <1>1 DEF Extents!Init

(* A step that changes what one Allocation holds.                          *)
LEMMA OneChanges ==
  ASSUME NEW a \in Allocations,
         \A b \in Allocations \ {a} :
           phase'[b] = phase[b] /\ offset'[b] = offset[b] /\ bytes'[b] = bytes[b]
  PROVE  /\ Grants' = [Grants EXCEPT ![a] = Granted(a)']
         /\ Refusals' = [Refusals EXCEPT ![a] = Refusal(a)']
<1>1. \A b \in Allocations \ {a} : Granted(b)' = Granted(b) /\ Refusal(b)' = Refusal(b)
  BY DEF Granted, Refusal, Holding, Idle
<1> QED
  BY <1>1 DEF Grants, Refusals

(* Every step of the dealer is one of the abstract heap, or none.          *)
LEMMA StepIsOfExtents ==
  ASSUME IInv, Next
  PROVE  Extents!Next \/ UNCHANGED <<Grants, Refusals>>
<1> USE DEF Phases
<1>0. /\ phase \in [Allocations -> Phases] /\ offset \in [Allocations -> Nat]
      /\ bytes \in [Allocations -> Nat]
  BY DEF IInv, TypeOK
<1>1. ASSUME NEW a \in Allocations, NEW n \in Sizes, Allocate(a, n)
      PROVE  Extents!Next
  <2> DEFINE u == UnitsFor(n)
  <2>1. PICK c \in chunks : Take(c, u) /\ offset' = [offset EXCEPT ![a] = c * Align]
    BY <1>1 DEF Allocate
  <2>2. /\ Idle(a) /\ n > 0 /\ bytes' = [bytes EXCEPT ![a] = n]
        /\ phase' = [phase EXCEPT ![a] = "granted"]
    BY <1>1 DEF Allocate
  <2>3. u \in Nat \ {0}
    BY <2>2, UnitsForCovers, DealerAssumption
  <2>4. free[c] /\ size[c] >= u
    BY <2>1 DEF Take, BestFit, Fitting
  <2>5. c \in Nat
    BY DEF IInv, TypeOK, AllocatorTypeOK
  <2> DEFINE e == [lo |-> c, len |-> u]
  <2>6. Granted(a)' = e /\ Refusal(a)' = 0
    <3>1. Holding(a)' /\ offset'[a] = c * Align /\ bytes'[a] = n /\ phase'[a] = "granted"
      BY <1>0, <2>1, <2>2 DEF Holding, Idle
    <3>2. (c * Align) \div Align = c
      BY <2>5, DivExact, AllocatorAssumption
    <3> QED
      BY <3>1, <3>2 DEF Granted, Refusal
  <2>7. Grants' = [Grants EXCEPT ![a] = e] /\ Refusals' = [Refusals EXCEPT ![a] = 0]
    BY <1>0, <2>1, <2>2, <2>6, OneChanges
  <2>8. e \in Extents!Extent /\ Extents!Available(e)
    BY <2>3, <2>4, ChunkIsAvailable
  <2>9. Grants[a] = NoExtent
    BY <2>2 DEF Grants, Granted, Holding
  <2>10. e.len \in {UnitsFor(m) : m \in Sizes \ {0}}
    BY <2>2, DealerAssumption
  <2> HIDE DEF e, u
  <2>11. Extents!Grant(a, e)
    BY <2>7, <2>8, <2>9, <2>10 DEF Extents!Grant, Grants, Refusals, Granted, Refusal
  <2> QED
    BY <2>8, <2>11 DEF Extents!Next
<1>2. ASSUME NEW a \in Allocations, NEW n \in Sizes, AllocateFails(a, n)
      PROVE  Extents!Next
  <2> DEFINE u == UnitsFor(n)
  <2>1. /\ Idle(a) /\ n > 0 /\ bytes' = [bytes EXCEPT ![a] = n] /\ Fitting(u) = {}
        /\ phase' = [phase EXCEPT ![a] = "refused"] /\ UNCHANGED offset
    BY <1>2 DEF AllocateFails
  <2>2. u \in Nat \ {0}
    BY <2>1, UnitsForCovers, DealerAssumption
  <2>3. Granted(a)' = NoExtent /\ Refusal(a)' = u
    BY <1>0, <2>1 DEF Granted, Refusal, Holding, Idle
  <2>4. Grants' = [Grants EXCEPT ![a] = NoExtent] /\ Refusals' = [Refusals EXCEPT ![a] = u]
    BY <1>0, <2>1, <2>3, OneChanges
  <2>5. Grants[a] = NoExtent
    BY <2>1 DEF Grants, Granted, Holding
  <2>6. Grants' = Grants
    BY <2>4, <2>5 DEF Grants
  <2>7. \A x \in 0 .. HeapUnits - 1 : ~ Extents!Available([lo |-> x, len |-> u])
    BY <2>1, <2>2, RefusalIsHonest
  <2>8. u \in {UnitsFor(m) : m \in Sizes \ {0}}
    BY <2>1, DealerAssumption
  <2> HIDE DEF u
  <2>9. Extents!Refuse(a, u)
    BY <2>4, <2>5, <2>6, <2>7 DEF Extents!Refuse, Grants, Refusals, Granted, Refusal
  <2> QED
    BY <2>8, <2>9 DEF Extents!Next
<1>3. ASSUME NEW a \in Allocations, AllocateNothing(a)
      PROVE  Extents!Next
  <2>1. /\ Idle(a) /\ bytes' = [bytes EXCEPT ![a] = 0] /\ offset' = [offset EXCEPT ![a] = 0]
        /\ phase' = [phase EXCEPT ![a] = "granted"]
    BY <1>3 DEF AllocateNothing
  <2>2. Granted(a)' = NoExtent /\ Refusal(a)' = 0
    BY <1>0, <2>1 DEF Granted, Refusal, Holding, Idle
  <2>3. Grants' = [Grants EXCEPT ![a] = NoExtent] /\ Refusals' = [Refusals EXCEPT ![a] = 0]
    BY <1>0, <2>1, <2>2, OneChanges
  <2>4. Grants[a] = NoExtent
    BY <2>1 DEF Grants, Granted, Holding
  <2>5. Grants' = Grants
    BY <2>3, <2>4 DEF Grants
  <2>6. Extents!GrantNothing(a)
    BY <2>3, <2>4, <2>5 DEF Extents!GrantNothing, Grants, Refusals, Granted, Refusal
  <2> QED
    BY <2>6 DEF Extents!Next
<1>4. ASSUME NEW a \in Allocations, Construct(a) \/ Purge(a)
      PROVE  UNCHANGED <<Grants, Refusals>>
  <2>1. /\ phase[a] \in {"granted", "live"} /\ UNCHANGED <<offset, bytes>>
        /\ \E p \in {"live", "purged"} : phase' = [phase EXCEPT ![a] = p]
    BY <1>4 DEF Construct, Purge
  <2>2. \A b \in Allocations : Granted(b)' = Granted(b) /\ Refusal(b)' = Refusal(b)
    BY <1>0, <2>1 DEF Granted, Refusal, Holding, Idle
  <2> QED
    BY <2>2 DEF Grants, Refusals
<1>5. ASSUME NEW a \in Allocations, Release(a)
      PROVE  Extents!Next
  <2>1. /\ phase[a] = "purged" /\ phase' = [phase EXCEPT ![a] = "none"]
        /\ offset' = [offset EXCEPT ![a] = 0] /\ bytes' = [bytes EXCEPT ![a] = 0]
    BY <1>5 DEF Release, Vanish
  <2>2. Holding(a) /\ Refusal(a) = 0
    BY <2>1 DEF Holding, Idle, Refusal, IInv, PurgedHold
  <2>3. Granted(a)' = NoExtent /\ Refusal(a)' = 0
    BY <1>0, <2>1 DEF Granted, Refusal, Holding, Idle
  <2>4. Grants' = [Grants EXCEPT ![a] = NoExtent] /\ Refusals' = [Refusals EXCEPT ![a] = 0]
    BY <1>0, <2>1, <2>3, OneChanges
  <2>5. Refusals' = Refusals
    BY <2>2, <2>4 DEF Refusals
  <2>6. Grants[a] # NoExtent
    BY <2>2, HoldersHaveExtents DEF Grants
  <2>7. Extents!Return(a)
    BY <2>4, <2>5, <2>6 DEF Extents!Return, Grants, Refusals, Granted, Refusal
  <2> QED
    BY <2>7 DEF Extents!Next
<1>6. ASSUME NEW a \in Allocations, ReleaseNothing(a)
      PROVE  UNCHANGED <<Grants, Refusals>>
  <2>1. /\ phase[a] = "live" /\ phase' = [phase EXCEPT ![a] = "none"] /\ bytes[a] = 0
        /\ offset' = [offset EXCEPT ![a] = 0] /\ bytes' = [bytes EXCEPT ![a] = 0]
    BY <1>6 DEF ReleaseNothing, Vanish
  <2>2. \A b \in Allocations : Granted(b)' = Granted(b) /\ Refusal(b)' = Refusal(b)
    BY <1>0, <2>1 DEF Granted, Refusal, Holding, Idle
  <2> QED
    BY <2>2 DEF Grants, Refusals
<1> QED
  BY <1>1, <1>2, <1>3, <1>4, <1>5, <1>6 DEF Next

(* The dealer beside its clients implements HeapExtents: what is granted   *)
(* overlaps nothing that is held, and a request is refused only if no hole *)
(* of the heap is large enough (alloc, whose search is best fit).          *)
THEOREM GrantsAreExtentsAlways == SidesSpec => GrantsAreExtents
<1>1. SidesInit => IInv /\ Extents!Init
  BY InitIInv, ExtentsBegin DEF SidesInit
<1>2. [SidesNext]_<<vars, clientsVars, side>> => [Next]_vars
  BY DEF SidesNext
<1>3. IInv /\ [SidesNext]_<<vars, clientsVars, side>> => IInv'
  BY <1>2, NextKeepsIInv
<1>4. IInv /\ [SidesNext]_<<vars, clientsVars, side>>
        => [Extents!Next]_<<Grants, Refusals>>
  <2> SUFFICES ASSUME IInv, [Next]_vars PROVE [Extents!Next]_<<Grants, Refusals>>
    BY <1>2
  <2>1. CASE Next
    BY <2>1, StepIsOfExtents
  <2>2. CASE UNCHANGED vars
    BY <2>2 DEF vars, clientVars, Grants, Refusals, Granted, Refusal, Holding, Idle
  <2> QED
    BY <2>1, <2>2
<1> QED
  BY <1>1, <1>3, <1>4, PTL DEF SidesSpec, GrantsAreExtents, Extents!Spec, Grants, Refusals,
    Granted, Refusal

-----------------------------------------------------------------------------
(* The clients (HeapCache) *)

(* What an object's fields may be, and where a thread may be.              *)
Fields == [id : BOOLEAN, base : Heaps \union {Nobody}, sized : BOOLEAN]
Places == [pc : {"out", "find", "check", "map", "publish", "test",
                 "fail", "copy", "dup", "leave"},
           proxy : Proxies \union {Nobody}, heap : Heaps \union {Nobody}]

(* The threads that have found the heap and whose proxy has not.           *)
Using == {"check", "map", "publish", "test", "fail", "copy", "dup"}
UserThreads == {t \in Threads : at[t].pc \in Using}
Finders == {t \in Threads : at[t].pc = "find"}

(* The proxies that have it; one that another thread is giving the fields  *)
(* of the heap has not yet.                                                *)
UserProxies == {p \in Proxies : mem[p].base # Nobody /\ lock[p] = Nobody}

(* The entry of the cache counts each user, and who is to find it will     *)
(* find room.                                                              *)
CountInv ==
  /\ Cardinality(UserThreads) + Cardinality(UserProxies) <= cache.count
  /\ cache.count + Cardinality(Finders) <= MaxCount

(* Users use the heap of the entry; it is mapped from before any of them   *)
(* copies its fields.                                                      *)
UsersInv ==
  /\ \A t \in UserThreads : at[t].heap = cache.heap /\ at[t].heap \in Heaps
  /\ \A p \in Proxies : mem[p].base # Nobody =>
       mem[p].base = cache.heap /\ cache.heap \in Heaps /\ mem[cache.heap].base # Nobody
  /\ \A p \in Proxies : mem[p].id => mem[p].base # Nobody
  /\ \A t \in Threads : at[t].pc \in {"publish", "copy", "dup"} => mem[at[t].heap].base # Nobody
  /\ \A h \in Heaps : mem[h].base # Nobody => mem[h].base = h /\ h \in mapped

(* The lock of a proxy is held by the thread that is giving it the fields. *)
LocksInv ==
  /\ \A t \in Threads : at[t].pc # "out" => at[t].proxy \in Proxies
  /\ \A t \in Threads : at[t].pc = "dup" =>
       lock[at[t].proxy] = t /\ mem[at[t].proxy].base # Nobody
  /\ \A p \in Proxies : lock[p] # Nobody =>
       at[lock[p]].pc = "dup" /\ at[lock[p]].proxy = p

ClientsInv == Clients!TypeOK /\ CountInv /\ UsersInv /\ LocksInv

-----------------------------------------------------------------------------
(* Counting *)

(* HeapCache's Cardinality is FiniteSets', seen through the instance.      *)
LEMMA SameCardinality == \A S : Clients!Cardinality(S) = Cardinality(S)
  BY DEF Clients!Cardinality, Cardinality

(* The users and those who are to be users are finitely many.              *)
LEMMA UsersAreFinite ==
  /\ IsFiniteSet(UserThreads) /\ IsFiniteSet(UserProxies) /\ IsFiniteSet(Finders)
  /\ Cardinality(UserThreads) \in Nat /\ Cardinality(UserProxies) \in Nat
  /\ Cardinality(Finders) \in Nat
  /\ IsFiniteSet(UserThreads') /\ IsFiniteSet(UserProxies') /\ IsFiniteSet(Finders')
  /\ Cardinality(UserThreads)' \in Nat /\ Cardinality(UserProxies)' \in Nat
  /\ Cardinality(Finders)' \in Nat
<1>1. UserThreads \subseteq Threads /\ Finders \subseteq Threads /\ UserProxies \subseteq Proxies
  BY DEF UserThreads, Finders, UserProxies
<1>2. UserThreads' \subseteq Threads /\ Finders' \subseteq Threads /\ UserProxies' \subseteq Proxies
  BY DEF UserThreads, Finders, UserProxies
<1>3. IsFiniteSet(Threads) /\ IsFiniteSet(Proxies)
  BY ClientsAssumption DEF Clients!HeapCacheAssumption, Clients!IsFiniteSet, IsFiniteSet
<1>4. \A S : S \subseteq Threads \/ S \subseteq Proxies => IsFiniteSet(S) /\ Cardinality(S) \in Nat
  BY <1>3, NoMore
<1> QED
  BY <1>1, <1>2, <1>4

(* An entry with no more than one count has no user besides the one that   *)
(* takes it: no other thread, and no other proxy with a base.              *)
LEMMA LastUser ==
  ASSUME ClientsInv, cache.count <= 1
  PROVE  /\ \A t \in UserThreads : UserThreads = {t} /\ UserProxies = {}
         /\ \A p \in UserProxies : UserProxies = {p} /\ UserThreads = {}
<1>1. Cardinality(UserThreads) + Cardinality(UserProxies) <= 1
  BY UsersAreFinite DEF ClientsInv, CountInv, Clients!TypeOK
<1>2. ASSUME NEW S, IsFiniteSet(S), NEW T, IsFiniteSet(T),
             Cardinality(S) + Cardinality(T) <= 1, NEW x \in S
      PROVE  S = {x} /\ T = {}
  <2>1. Cardinality(S) \in Nat /\ Cardinality(T) \in Nat /\ Cardinality(S) # 0
    BY <1>2, FS_EmptySet, FS_CardinalityType
  <2>2. Cardinality(S) = 1 /\ Cardinality(T) = 0
    BY <1>2, <2>1
  <2> QED
    BY <1>2, <2>2, FS_EmptySet, FS_Singleton
<1> QED
  BY <1>1, <1>2, UsersAreFinite

-----------------------------------------------------------------------------
(* The clients' steps *)

(* The first state has no users.                                           *)
LEMMA ClientsBegin ==
  ASSUME Clients!Init
  PROVE  ClientsInv
<1> USE ClientsAssumption DEF Clients!HeapCacheAssumption, Clients!Init, Clients!Fresh,
        Clients!NoEntry, Clients!Outside, Clients!HeapObjects
<1>1. Clients!TypeOK
  BY DEF Clients!TypeOK
<1>2. UserThreads = {} /\ UserProxies = {} /\ Finders = {}
  BY DEF UserThreads, UserProxies, Finders, Using
<1>3. CountInv
  BY <1>2, FS_EmptySet DEF CountInv
<1>4. UsersInv /\ LocksInv
  BY <1>2 DEF UsersInv, LocksInv
<1> QED
  BY <1>1, <1>3, <1>4 DEF ClientsInv

(* What is left of the invariant to show of a step after which every user  *)
(* was one before, and is still counted.                                   *)
LEMMA FewerUsers ==
  ASSUME ClientsInv, cache' = cache,
         UserThreads' \subseteq UserThreads, UserProxies' \subseteq UserProxies,
         Finders' \subseteq Finders
  PROVE  CountInv'
  BY UsersAreFinite, NoMore, ClientsAssumption
  DEF ClientsInv, CountInv, Clients!TypeOK, Clients!HeapCacheAssumption

LEMMA EnterKeepsInv ==
  ASSUME ClientsInv, NEW t \in Threads, NEW p \in Proxies, Clients!Enter(t, p)
  PROVE  ClientsInv'
<1> USE ClientsAssumption DEF Clients!HeapCacheAssumption, Clients!Enter, ClientsInv,
        Clients!Outside, Clients!HeapObjects
<1>1. Clients!TypeOK'
  BY DEF Clients!TypeOK
<1>2. UserThreads' = UserThreads /\ UserProxies' = UserProxies
  BY DEF UserThreads, UserProxies, Using, Clients!TypeOK
<1>3. Finders' \subseteq Finders \cup {t}
  BY DEF Finders, Clients!TypeOK
<1>4. cache.count + Cardinality(Finders) < MaxCount
  BY SameCardinality DEF Finders
<1>5. Cardinality(Finders') <= Cardinality(Finders) + 1
  BY <1>3, OneMore, UsersAreFinite
<1>6. CountInv'
  BY <1>2, <1>4, <1>5, UsersAreFinite DEF CountInv, Clients!TypeOK
<1>7. UsersInv'
  BY <1>2 DEF UsersInv, UserThreads, Using, Clients!TypeOK
<1>8. LocksInv'
  BY DEF LocksInv, Clients!TypeOK
<1> QED
  BY <1>1, <1>6, <1>7, <1>8

LEMMA FindHeapKeepsInv ==
  ASSUME ClientsInv, NEW t \in Threads, Clients!FindHeap(t)
  PROVE  ClientsInv'
<1> USE DEF ClientsInv
<1>0. PICK h \in Heaps :
        /\ IF cache.heap = Nobody THEN h \notin Clients!Referred(cache, at) ELSE h = cache.heap
        /\ cache' = Clients!Found(h)
        /\ at' = [at EXCEPT ![t].pc = "check", ![t].heap = h]
  BY DEF Clients!FindHeap
<1>a. /\ at[t].pc = "find" /\ mem' = mem /\ lock' = lock /\ mapped' = mapped
  BY DEF Clients!FindHeap
<1>b. Clients!TypeOK /\ Nobody \notin Heaps /\ Nobody \notin Threads /\ MaxCount \in Nat
  BY ClientsAssumption DEF Clients!HeapCacheAssumption
<1>1. cache'.heap = h /\ cache'.count = cache.count + 1
      /\ cache' = [heap |-> h, count |-> cache.count + 1]
  BY <1>0, <1>b DEF Clients!TypeOK, Clients!Found
<1>2. /\ at'[t].pc = "check" /\ at'[t].proxy = at[t].proxy /\ at'[t].heap = h
      /\ \A u \in Threads \ {t} : at'[u] = at[u]
  BY <1>0, <1>b DEF Clients!TypeOK
<1>3. UserThreads' \subseteq UserThreads \cup {t} /\ UserProxies' = UserProxies
  BY <1>2, <1>a DEF UserThreads, UserProxies
<1>4. t \in Finders /\ Finders' \subseteq Finders \ {t}
  BY <1>2, <1>a DEF Finders
<1>5. Cardinality(UserThreads') <= Cardinality(UserThreads) + 1
  BY <1>3, OneMore, UsersAreFinite
<1>6. Cardinality(Finders') + 1 <= Cardinality(Finders)
  BY <1>4, OneLess, UsersAreFinite
<1>7. CountInv'
  BY <1>b, <1>1, <1>3, <1>5, <1>6, UsersAreFinite DEF CountInv, Clients!TypeOK
<1>8. Clients!TypeOK'
  <2>1. cache.count + 1 \in 0 .. MaxCount /\ cache.count \in Nat
    BY <1>b, <1>6, UsersAreFinite DEF CountInv, Clients!TypeOK
  <2>2. at' \in [Threads -> Places]
    <3>1. at[t] \in Places /\ at \in [Threads -> Places]
      BY <1>b DEF Clients!TypeOK, Places
    <3>2. [at[t] EXCEPT !.pc = "check", !.heap = h] \in Places
      BY <3>1 DEF Places
    <3>3. at' = [at EXCEPT ![t] = [at[t] EXCEPT !.pc = "check", !.heap = h]]
      BY <1>0, <3>1
    <3> QED
      BY <3>1, <3>2, <3>3
  <2>3. cache' \in [heap : Heaps \union {Nobody}, count : 0 .. MaxCount]
    BY <1>1, <2>1
  <2>4. cache'.heap = Nobody <=> cache'.count = 0
    BY <1>b, <1>1, <2>1
  <2> QED
    BY <1>a, <1>b, <2>2, <2>3, <2>4 DEF Clients!TypeOK, Places
<1>9. UsersInv'
  <2>1. cache.heap # Nobody => h = cache.heap
    BY <1>0
  <2>2. cache.heap = Nobody => UserThreads = {} /\ \A p \in Proxies : mem[p].base = Nobody
    BY <1>b DEF UsersInv
  <2>3. \A u \in UserThreads' : at'[u].heap = h
    BY <1>2, <1>3, <2>1, <2>2 DEF UsersInv, UserThreads
  <2>4. \A p \in Proxies : mem[p].base # Nobody => mem[p].base = h
    BY <2>1, <2>2 DEF UsersInv
  <2> QED
    BY <1>a, <1>1, <1>2, <2>3, <2>4 DEF UsersInv
<1>10. LocksInv'
  BY <1>2, <1>a, <1>b DEF LocksInv, Clients!TypeOK, Clients!HeapObjects
<1> QED
  BY <1>7, <1>8, <1>9, <1>10

(* A thread that goes on with the same proxy and heap.                     *)
LEMMA GoesOn ==
  ASSUME Clients!TypeOK, NEW t \in Threads, NEW pc, Clients!Goto(t, pc),
         pc \in {"find", "check", "map", "publish", "test", "fail", "copy", "dup", "leave"}
  PROVE  /\ at' \in [Threads -> Places]
         /\ at'[t].pc = pc /\ at'[t].proxy = at[t].proxy /\ at'[t].heap = at[t].heap
         /\ \A u \in Threads \ {t} : at'[u] = at[u]
<1>1. at[t] \in Places /\ at \in [Threads -> Places]
  BY DEF Clients!TypeOK, Places
<1>2. [at[t] EXCEPT !.pc = pc] \in Places
  BY <1>1 DEF Places
<1>3. at' = [at EXCEPT ![t] = [at[t] EXCEPT !.pc = pc]]
  BY <1>1 DEF Clients!Goto
<1> QED
  BY <1>1, <1>2, <1>3 DEF Places

(* The steps of a thread that has found the heap, and that neither maps it *)
(* nor copies its fields.                                                  *)
LEMMA LooksKeepInv ==
  ASSUME ClientsInv, NEW t \in Threads, NEW pc, Clients!Goto(t, pc),
         at[t].pc \in Using \ {"dup"}, pc \in {"map", "test", "fail", "copy", "leave"},
         pc = "copy" => mem[at[t].heap].base # Nobody,
         UNCHANGED <<mem, lock, cache, mapped>>
  PROVE  ClientsInv'
<1> USE DEF ClientsInv
<1>1. /\ at' \in [Threads -> Places]
      /\ at'[t].pc = pc /\ at'[t].proxy = at[t].proxy /\ at'[t].heap = at[t].heap
      /\ \A u \in Threads \ {t} : at'[u] = at[u]
  BY GoesOn
<1>2. Clients!TypeOK'
  BY <1>1 DEF Clients!TypeOK, Places
<1>3. UserThreads' \subseteq UserThreads /\ UserProxies' = UserProxies
      /\ Finders' \subseteq Finders
  BY <1>1 DEF UserThreads, UserProxies, Finders, Using
<1>4. CountInv'
  BY <1>3, FewerUsers
<1>5. UsersInv'
  <2>1. \A u \in UserThreads' : at'[u].heap = cache.heap /\ at'[u].heap \in Heaps
    BY <1>1, <1>3 DEF UsersInv, UserThreads
  <2>2. \A u \in Threads : at'[u].pc \in {"publish", "copy", "dup"} =>
                             mem[at'[u].heap].base # Nobody
    BY <1>1 DEF UsersInv
  <2> QED
    BY <2>1, <2>2 DEF UsersInv
<1>6. LocksInv'
  BY <1>1 DEF LocksInv, Using, Clients!TypeOK, Clients!HeapObjects
<1> QED
  BY <1>2, <1>4, <1>5, <1>6

LEMMA MapHeapKeepsInv ==
  ASSUME ClientsInv, NEW t \in Threads, Clients!MapHeap(t)
  PROVE  ClientsInv'
<1> DEFINE h == at[t].heap
<1> USE DEF ClientsInv
<1>1. at[t].pc = "map" /\ lock[h] = Nobody /\ cache' = cache
  BY DEF Clients!MapHeap
<1>2. CASE mem[h].id
  BY <1>1, <1>2, LooksKeepInv DEF Clients!MapHeap, Using
<1>3. CASE ~mem[h].id
  <2>1. /\ mem' = [mem EXCEPT ![h].base = h] /\ mapped' = mapped \union {h}
        /\ lock' = [lock EXCEPT ![h] = t] /\ Clients!Goto(t, "publish")
    BY <1>3 DEF Clients!MapHeap
  <2>2. /\ at' \in [Threads -> Places]
        /\ at'[t].pc = "publish" /\ at'[t].proxy = at[t].proxy /\ at'[t].heap = h
        /\ \A u \in Threads \ {t} : at'[u] = at[u]
    BY <2>1, GoesOn
  <2>3. /\ h \in Heaps /\ h \notin Proxies /\ h # Nobody /\ Nobody \notin Threads
        /\ Clients!TypeOK
    BY <1>1, ClientsAssumption
    DEF UsersInv, UserThreads, Using, Clients!HeapCacheAssumption
  <2>4. /\ mem'[h] = [mem[h] EXCEPT !.base = h]
        /\ \A o \in Clients!HeapObjects \ {h} : mem'[o] = mem[o] /\ lock'[o] = lock[o]
    BY <2>1, <2>3 DEF Clients!TypeOK, Clients!HeapObjects
  <2>5. Clients!TypeOK'
    <3>1. mem' \in [Clients!HeapObjects -> Fields]
      BY <2>1, <2>3 DEF Clients!TypeOK, Clients!HeapObjects, Fields
    <3>2. lock' \in [Clients!HeapObjects -> Threads \union {Nobody}]
      BY <2>1, <2>3 DEF Clients!TypeOK
    <3>3. \A g \in Heaps : mem'[g].id => mem'[g].base # Nobody /\ mem'[g].sized
      BY <1>3, <2>3, <2>4 DEF Clients!TypeOK, Clients!HeapObjects
    <3> QED
      BY <1>1, <2>1, <2>2, <2>3, <3>1, <3>2, <3>3 DEF Clients!TypeOK, Places, Fields
  <2>6. UserThreads' \subseteq UserThreads /\ UserProxies' = UserProxies
        /\ Finders' \subseteq Finders
    BY <1>1, <2>2, <2>3, <2>4
    DEF UserThreads, UserProxies, Finders, Using, Clients!HeapObjects
  <2>7. CountInv'
    BY <1>1, <2>6, FewerUsers
  <2>8. UsersInv'
    <3>1. \A u \in UserThreads' : at'[u].heap = cache.heap /\ at'[u].heap \in Heaps
      BY <2>2, <2>6 DEF UsersInv, UserThreads
    <3>2. \A p \in Proxies : mem'[p] = mem[p]
      BY <2>3, <2>4 DEF Clients!HeapObjects
    <3>3. \A u \in Threads : at'[u].pc \in {"publish", "copy", "dup"} =>
                               mem'[at'[u].heap].base # Nobody
      <4> SUFFICES ASSUME NEW u \in Threads, at'[u].pc \in {"publish", "copy", "dup"}
                   PROVE  mem'[at'[u].heap].base # Nobody
        OBVIOUS
      <4>1. at'[u].heap \in Heaps
        BY <3>1 DEF UserThreads, Using
      <4>2. CASE at'[u].heap = h
        BY <2>3, <2>4, <4>2 DEF Clients!TypeOK, Clients!HeapObjects
      <4>3. CASE at'[u].heap # h
        BY <2>2, <2>4, <4>1, <4>3 DEF UsersInv, Clients!HeapObjects
      <4> QED
        BY <4>2, <4>3
    <3>4. \A g \in Heaps : mem'[g].base # Nobody => mem'[g].base = g /\ g \in mapped'
      BY <2>1, <2>3, <2>4 DEF UsersInv, Clients!TypeOK, Clients!HeapObjects
    <3>5. \A g \in Heaps : mem[g].base # Nobody => mem'[g].base # Nobody
      BY <2>3, <2>4 DEF Clients!TypeOK, Clients!HeapObjects
    <3> QED
      BY <1>1, <3>1, <3>2, <3>3, <3>4, <3>5 DEF UsersInv
  <2>9. LocksInv'
    <3>1. \A p \in Proxies : mem'[p] = mem[p] /\ lock'[p] = lock[p]
      BY <2>3, <2>4 DEF Clients!HeapObjects
    <3>2. \A p \in Proxies : lock[p] # Nobody => lock[p] \in Threads \ {t}
      BY <1>1, <2>3 DEF LocksInv, Clients!TypeOK, Clients!HeapObjects
    <3> QED
      BY <1>1, <2>2, <3>1, <3>2 DEF LocksInv
  <2> QED
    BY <2>5, <2>7, <2>8, <2>9
<1> QED
  BY <1>2, <1>3

LEMMA PublishHeapKeepsInv ==
  ASSUME ClientsInv, NEW t \in Threads, Clients!PublishHeap(t)
  PROVE  ClientsInv'
<1> DEFINE h == at[t].heap
<1> USE DEF ClientsInv
<1>1. /\ at[t].pc = "publish" /\ cache' = cache /\ mapped' = mapped
      /\ mem' = [mem EXCEPT ![h] = [@ EXCEPT !.id = TRUE, !.sized = TRUE]]
      /\ lock' = [lock EXCEPT ![h] = Nobody] /\ Clients!Goto(t, "test")
  BY DEF Clients!PublishHeap
<1>2. /\ at' \in [Threads -> Places]
      /\ at'[t].pc = "test" /\ at'[t].proxy = at[t].proxy /\ at'[t].heap = h
      /\ \A u \in Threads \ {t} : at'[u] = at[u]
  BY <1>1, GoesOn
<1>3. /\ h \in Heaps /\ h \notin Proxies /\ mem[h].base # Nobody /\ Clients!TypeOK
  BY <1>1, ClientsAssumption
  DEF UsersInv, UserThreads, Using, Clients!HeapCacheAssumption
<1>4. /\ mem'[h].id /\ mem'[h].sized /\ mem'[h].base = mem[h].base
      /\ \A o \in Clients!HeapObjects \ {h} : mem'[o] = mem[o] /\ lock'[o] = lock[o]
  BY <1>1, <1>3 DEF Clients!TypeOK, Clients!HeapObjects
<1>5. Clients!TypeOK'
  <2>1. mem' \in [Clients!HeapObjects -> Fields]
    <3>1. mem[h] \in Fields
      BY <1>3 DEF Clients!TypeOK, Clients!HeapObjects, Fields
    <3>2. [mem[h] EXCEPT !.id = TRUE, !.sized = TRUE] \in Fields
      BY <3>1 DEF Fields
    <3> QED
      BY <1>1, <1>3, <3>2 DEF Clients!TypeOK, Fields
  <2>2. lock' \in [Clients!HeapObjects -> Threads \union {Nobody}]
    BY <1>1, <1>3 DEF Clients!TypeOK
  <2>3. \A g \in Heaps : mem'[g].id => mem'[g].base # Nobody /\ mem'[g].sized
    BY <1>3, <1>4 DEF Clients!TypeOK, Clients!HeapObjects
  <2> QED
    BY <1>1, <1>2, <1>3, <2>1, <2>2, <2>3 DEF Clients!TypeOK, Places, Fields
<1>6. UserThreads' \subseteq UserThreads /\ UserProxies' = UserProxies
      /\ Finders' \subseteq Finders
  <2>1. UserThreads' \subseteq UserThreads /\ Finders' \subseteq Finders
    BY <1>1, <1>2 DEF UserThreads, Finders, Using
  <2>2. UserProxies' = UserProxies
    BY <1>3, <1>4 DEF UserProxies, Clients!HeapObjects
  <2> QED
    BY <2>1, <2>2
<1>7. CountInv'
  BY <1>1, <1>6, FewerUsers
<1>8. UsersInv'
  <2>1. \A u \in UserThreads' : at'[u].heap = cache.heap /\ at'[u].heap \in Heaps
    BY <1>2, <1>6 DEF UsersInv, UserThreads
  <2>2. \A o \in Clients!HeapObjects : mem'[o].base = mem[o].base
    BY <1>4
  <2>3. \A p \in Proxies : mem'[p] = mem[p]
    BY <1>3, <1>4 DEF Clients!HeapObjects
  <2>4. \A u \in Threads : at'[u].pc \in {"publish", "copy", "dup"} =>
                             mem'[at'[u].heap].base # Nobody
    BY <1>2, <2>1, <2>2 DEF UsersInv, UserThreads, Using, Clients!HeapObjects
  <2>5. \A g \in Heaps : mem'[g].base # Nobody => mem'[g].base = g /\ g \in mapped
    BY <2>2 DEF UsersInv, Clients!HeapObjects
  <2> QED
    BY <1>1, <2>1, <2>3, <2>4, <2>5 DEF UsersInv
<1>9. LocksInv'
  BY <1>1, <1>2, <1>3, <1>4 DEF LocksInv, Clients!TypeOK, Clients!HeapObjects
<1> QED
  BY <1>5, <1>7, <1>8, <1>9

LEMMA FreeFailedKeepsInv ==
  ASSUME ClientsInv, NEW t \in Threads, Clients!FreeFailed(t)
  PROVE  ClientsInv'
<1> USE DEF ClientsInv
<1>1. /\ at[t].pc = "fail" /\ mem' = mem /\ lock' = lock /\ mapped' = mapped
      /\ cache' = Clients!Freed(cache) /\ Clients!Goto(t, "leave")
  BY DEF Clients!FreeFailed
<1>2. /\ at' \in [Threads -> Places]
      /\ at'[t].pc = "leave" /\ at'[t].proxy = at[t].proxy /\ at'[t].heap = at[t].heap
      /\ \A u \in Threads \ {t} : at'[u] = at[u]
  BY <1>1, GoesOn
<1>3. t \in UserThreads /\ UserThreads' \subseteq UserThreads \ {t}
      /\ UserProxies' = UserProxies /\ Finders' \subseteq Finders
  BY <1>1, <1>2 DEF UserThreads, UserProxies, Finders, Using
<1>4. LocksInv'
  BY <1>1, <1>2 DEF LocksInv, Clients!TypeOK, Clients!HeapObjects
<1>5. /\ Cardinality(UserThreads') + 1 <= Cardinality(UserThreads)
      /\ Cardinality(Finders') <= Cardinality(Finders)
  BY <1>3, OneLess, NoMore, UsersAreFinite
<1>6. CASE cache.count <= 1
  <2>1. UserThreads = {t} /\ UserProxies = {}
    BY <1>3, <1>6, LastUser
  <2>2. cache' = [heap |-> Nobody, count |-> 0]
    BY <1>1, <1>6 DEF Clients!Freed, Clients!NoEntry
  <2>3. UserThreads' = {} /\ UserProxies' = {}
    BY <1>3, <2>1
  <2>4. Clients!TypeOK' /\ CountInv'
    BY <1>1, <1>2, <1>5, <2>2, <2>3, FS_EmptySet, UsersAreFinite, ClientsAssumption
    DEF CountInv, Clients!TypeOK, Places, Clients!HeapCacheAssumption
  <2>5. \A p \in Proxies : mem[p].base = Nobody
    <3> SUFFICES ASSUME NEW p \in Proxies, mem[p].base # Nobody PROVE FALSE
      OBVIOUS
    <3>1. lock[p] \in Threads /\ at[lock[p]].pc = "dup"
      BY <2>1 DEF UserProxies, LocksInv, Clients!TypeOK, Clients!HeapObjects
    <3>2. lock[p] \in UserThreads
      BY <3>1 DEF UserThreads, Using
    <3> QED
      BY <1>1, <2>1, <3>1, <3>2
  <2>6. UsersInv'
    BY <1>1, <1>2, <2>3, <2>5 DEF UsersInv, UserThreads, Using
  <2> QED
    BY <1>4, <2>4, <2>6
<1>7. CASE cache.count > 1
  <2>1. cache' = [cache EXCEPT !.count = @ - 1] /\ cache.count \in 0 .. MaxCount
    BY <1>1, <1>7 DEF Clients!Freed, Clients!TypeOK
  <2>2. cache'.heap = cache.heap /\ cache'.count = cache.count - 1
    BY <2>1 DEF Clients!TypeOK
  <2>3. Clients!TypeOK'
    <3>1. cache' \in [heap : Heaps \union {Nobody}, count : 0 .. MaxCount]
      BY <1>7, <2>1, ClientsAssumption DEF Clients!TypeOK, Clients!HeapCacheAssumption
    <3> QED
      BY <1>1, <1>2, <1>7, <2>1, <2>2, <3>1 DEF Clients!TypeOK, Places
  <2>4. CountInv'
    BY <1>3, <1>5, <2>1, <2>2, UsersAreFinite, ClientsAssumption
    DEF CountInv, Clients!HeapCacheAssumption
  <2>5. UsersInv'
    BY <1>1, <1>2, <1>3, <2>2 DEF UsersInv, UserThreads
  <2> QED
    BY <1>4, <2>3, <2>4, <2>5
<1> QED
  BY <1>6, <1>7 DEF Clients!TypeOK

LEMMA CopyHeapKeepsInv ==
  ASSUME ClientsInv, NEW t \in Threads, Clients!CopyHeap(t)
  PROVE  ClientsInv'
<1> DEFINE p == at[t].proxy
           h == at[t].heap
<1> USE DEF ClientsInv
<1>1. at[t].pc = "copy" /\ lock[p] = Nobody /\ cache' = cache /\ mapped' = mapped
  BY DEF Clients!CopyHeap
<1>2. CASE mem[p].id
  BY <1>1, <1>2, LooksKeepInv DEF Clients!CopyHeap, Using
<1>3. CASE ~mem[p].id
  <2>1. /\ mem' = [mem EXCEPT ![p].base = mem[h].base, ![p].sized = mem[h].sized]
        /\ lock' = [lock EXCEPT ![p] = t] /\ Clients!Goto(t, "dup")
    BY <1>3 DEF Clients!CopyHeap
  <2>2. /\ at' \in [Threads -> Places]
        /\ at'[t].pc = "dup" /\ at'[t].proxy = p /\ at'[t].heap = h
        /\ \A u \in Threads \ {t} : at'[u] = at[u]
    BY <2>1, GoesOn
  <2>3. /\ p \in Proxies /\ h \in Heaps /\ p # h /\ Nobody \notin Threads
        /\ h = cache.heap /\ mem[h].base = h /\ h # Nobody /\ Clients!TypeOK
    BY <1>1, ClientsAssumption
    DEF UsersInv, LocksInv, UserThreads, Using, Clients!HeapCacheAssumption
  <2>4. mem[p] \in Fields /\ mem[h] \in Fields /\ mem \in [Clients!HeapObjects -> Fields]
        /\ p \in Clients!HeapObjects
    BY <2>3 DEF Clients!TypeOK, Clients!HeapObjects, Fields
  <2>5. /\ mem'[p].base = h /\ mem'[p].id = FALSE
        /\ lock'[p] = t
        /\ \A o \in Clients!HeapObjects \ {p} : mem'[o] = mem[o] /\ lock'[o] = lock[o]
    BY <1>3, <2>1, <2>3, <2>4 DEF Clients!TypeOK, Fields
  <2>6. Clients!TypeOK'
    <3>1. mem' \in [Clients!HeapObjects -> Fields]
      <4>1. [mem[p] EXCEPT !.base = mem[h].base, !.sized = mem[h].sized] \in Fields
        BY <2>4 DEF Fields
      <4>2. mem' = [mem EXCEPT ![p] = [mem[p] EXCEPT !.base = mem[h].base,
                                                     !.sized = mem[h].sized]]
        BY <2>1, <2>4
      <4> QED
        BY <2>4, <4>1, <4>2
    <3>2. lock' \in [Clients!HeapObjects -> Threads \union {Nobody}]
      BY <2>1, <2>3 DEF Clients!TypeOK
    <3>3. \A g \in Heaps : mem'[g].id => mem'[g].base # Nobody /\ mem'[g].sized
      BY <2>3, <2>5, ClientsAssumption
      DEF Clients!TypeOK, Clients!HeapObjects, Clients!HeapCacheAssumption
    <3> QED
      BY <1>1, <2>2, <2>3, <3>1, <3>2, <3>3 DEF Clients!TypeOK, Places, Fields
  <2>7. UserThreads' \subseteq UserThreads /\ UserProxies' \subseteq UserProxies
        /\ Finders' \subseteq Finders
    BY <1>1, <2>2, <2>3, <2>5
    DEF UserThreads, UserProxies, Finders, Using, Clients!HeapObjects
  <2>8. CountInv'
    BY <1>1, <2>7, FewerUsers
  <2>9. \A g \in Heaps : mem'[g] = mem[g]
    BY <2>3, <2>5, ClientsAssumption DEF Clients!HeapObjects, Clients!HeapCacheAssumption
  <2>10. UsersInv'
    <3>1. \A u \in UserThreads' : at'[u].heap = cache.heap /\ at'[u].heap \in Heaps
      BY <2>2, <2>7 DEF UsersInv, UserThreads
    <3>2. \A q \in Proxies : /\ mem'[q].base # Nobody => mem'[q].base = cache.heap
                             /\ mem'[q].id => mem'[q].base # Nobody
      BY <2>3, <2>5 DEF UsersInv, Clients!HeapObjects
    <3>4. cache.heap \in Heaps /\ mem'[cache.heap].base # Nobody
      BY <2>3, <2>9
    <3>3. \A u \in Threads : at'[u].pc \in {"publish", "copy", "dup"} =>
                               mem'[at'[u].heap].base # Nobody
      BY <2>2, <2>3, <2>9, <3>1 DEF UsersInv, UserThreads, Using
    <3> QED
      BY <1>1, <2>9, <3>1, <3>2, <3>3, <3>4 DEF UsersInv
  <2>11. LocksInv'
    <3>1. \A u \in Threads : at'[u].pc # "out" => at'[u].proxy \in Proxies
      BY <2>2, <2>3 DEF LocksInv
    <3>2. \A u \in Threads \ {t} : at[u].pc = "dup" => at[u].proxy # p
      BY <1>1, <2>3 DEF LocksInv
    <3>3. \A u \in Threads : at'[u].pc = "dup" =>
            lock'[at'[u].proxy] = u /\ mem'[at'[u].proxy].base # Nobody
      BY <2>2, <2>3, <2>5, <3>2 DEF LocksInv, Clients!HeapObjects
    <3>4. \A q \in Proxies : lock'[q] # Nobody =>
            at'[lock'[q]].pc = "dup" /\ at'[lock'[q]].proxy = q
      BY <1>1, <2>2, <2>3, <2>5 DEF LocksInv, Clients!TypeOK, Clients!HeapObjects
    <3> QED
      BY <3>1, <3>3, <3>4 DEF LocksInv
  <2> QED
    BY <2>6, <2>8, <2>10, <2>11
<1> QED
  BY <1>2, <1>3

LEMMA DupHeapKeepsInv ==
  ASSUME ClientsInv, NEW t \in Threads, Clients!DupHeap(t)
  PROVE  ClientsInv'
<1> DEFINE p == at[t].proxy
           h == at[t].heap
<1> USE DEF ClientsInv
<1>1. /\ at[t].pc = "dup" /\ cache' = cache /\ mapped' = mapped
      /\ mem' = [mem EXCEPT ![p].id = mem[h].id]
      /\ lock' = [lock EXCEPT ![p] = Nobody] /\ Clients!Goto(t, "leave")
  BY DEF Clients!DupHeap
<1>2. /\ at' \in [Threads -> Places]
      /\ at'[t].pc = "leave" /\ at'[t].proxy = p /\ at'[t].heap = h
      /\ \A u \in Threads \ {t} : at'[u] = at[u]
  BY <1>1, GoesOn
<1>3. /\ p \in Proxies /\ h \in Heaps /\ p \notin Heaps /\ lock[p] = t
      /\ mem[p].base # Nobody /\ Clients!TypeOK
  BY <1>1, ClientsAssumption
  DEF UsersInv, LocksInv, UserThreads, Using, Clients!HeapCacheAssumption
<1>4. mem[p] \in Fields /\ mem[h] \in Fields /\ mem \in [Clients!HeapObjects -> Fields]
      /\ p \in Clients!HeapObjects
  BY <1>3 DEF Clients!TypeOK, Clients!HeapObjects, Fields
<1>5. /\ mem'[p].base = mem[p].base /\ lock'[p] = Nobody
      /\ \A o \in Clients!HeapObjects \ {p} : mem'[o] = mem[o] /\ lock'[o] = lock[o]
  BY <1>1, <1>3, <1>4 DEF Clients!TypeOK, Fields
<1>6. Clients!TypeOK'
  <2>1. mem' \in [Clients!HeapObjects -> Fields]
    BY <1>1, <1>4 DEF Fields
  <2>2. lock' \in [Clients!HeapObjects -> Threads \union {Nobody}]
    BY <1>1, <1>3 DEF Clients!TypeOK
  <2>3. \A g \in Heaps : mem'[g].id => mem'[g].base # Nobody /\ mem'[g].sized
    BY <1>3, <1>5 DEF Clients!TypeOK, Clients!HeapObjects
  <2> QED
    BY <1>1, <1>2, <1>3, <2>1, <2>2, <2>3 DEF Clients!TypeOK, Places, Fields
<1>7. /\ t \in UserThreads /\ UserThreads' \subseteq UserThreads \ {t}
      /\ UserProxies' \subseteq UserProxies \cup {p} /\ Finders' \subseteq Finders
  BY <1>1, <1>2, <1>3, <1>5
  DEF UserThreads, UserProxies, Finders, Using, Clients!HeapObjects
<1>8. /\ Cardinality(UserThreads') + 1 <= Cardinality(UserThreads)
      /\ Cardinality(UserProxies') <= Cardinality(UserProxies) + 1
      /\ Cardinality(Finders') <= Cardinality(Finders)
  BY <1>7, OneLess, OneMore, NoMore, UsersAreFinite
<1>9. CountInv'
  BY <1>1, <1>8, UsersAreFinite, ClientsAssumption
  DEF CountInv, Clients!TypeOK, Clients!HeapCacheAssumption
<1>10. \A g \in Heaps : mem'[g] = mem[g]
  BY <1>3, <1>5 DEF Clients!HeapObjects
<1>11. UsersInv'
  <2>1. \A u \in UserThreads' : at'[u].heap = cache.heap /\ at'[u].heap \in Heaps
    BY <1>2, <1>7 DEF UsersInv, UserThreads
  <2>2. \A q \in Proxies : /\ mem'[q].base # Nobody => mem'[q].base = cache.heap
                           /\ mem'[q].id => mem'[q].base # Nobody
    BY <1>3, <1>5 DEF UsersInv, Clients!HeapObjects
  <2>3. \A u \in Threads : at'[u].pc \in {"publish", "copy", "dup"} =>
                             mem'[at'[u].heap].base # Nobody
    BY <1>2, <1>10, <2>1 DEF UsersInv, UserThreads, Using
  <2> QED
    BY <1>1, <1>10, <2>1, <2>2, <2>3 DEF UsersInv
<1>12. LocksInv'
  <2>1. \A u \in Threads : at'[u].pc # "out" => at'[u].proxy \in Proxies
    BY <1>2, <1>3 DEF LocksInv
  <2>2. \A u \in Threads \ {t} : at[u].pc = "dup" => at[u].proxy # p
    BY <1>1, <1>3 DEF LocksInv
  <2>3. \A u \in Threads : at'[u].pc = "dup" =>
          lock'[at'[u].proxy] = u /\ mem'[at'[u].proxy].base # Nobody
    BY <1>2, <1>5, <2>1, <2>2 DEF LocksInv, Clients!HeapObjects
  <2>4. \A q \in Proxies : lock'[q] # Nobody =>
          at'[lock'[q]].pc = "dup" /\ at'[lock'[q]].proxy = q
    BY <1>1, <1>2, <1>3, <1>5 DEF LocksInv, Clients!TypeOK, Clients!HeapObjects
  <2> QED
    BY <2>1, <2>3, <2>4 DEF LocksInv
<1> QED
  BY <1>6, <1>9, <1>11, <1>12

(* The destructor of the real heaps nobody refers to, with that of proxies *)
(* P, leaves the other proxies and what is referred to as they were.       *)
Reclaimed(gone, P) ==
  /\ mem' = [o \in Clients!HeapObjects |->
               IF o \in gone \union P THEN Clients!Fresh ELSE mem[o]]
  /\ mapped' = mapped \ {h \in gone : mem[h].id}

Spared(gone, P) ==
  /\ mem' \in [Clients!HeapObjects -> Fields] /\ mapped' \subseteq Heaps
  /\ \A h \in Heaps : mem'[h].id => mem'[h].base # Nobody /\ mem'[h].sized
  /\ \A h \in Heaps : mem'[h].base # Nobody => mem'[h].base = h /\ h \in mapped'
  /\ \A p \in Proxies : mem'[p] = IF p \in P THEN Clients!Fresh ELSE mem[p]
  /\ \A h \in Heaps \ gone : mem'[h] = mem[h]

LEMMA ReclaimSpares ==
  ASSUME ClientsInv, NEW gone \in SUBSET Heaps, NEW P \in SUBSET Proxies,
         Reclaimed(gone, P)
  PROVE  Spared(gone, P)
<1> USE ClientsAssumption DEF ClientsInv, Clients!HeapCacheAssumption, Reclaimed
<1>1. Clients!Fresh \in Fields /\ mem \in [Clients!HeapObjects -> Fields]
      /\ Clients!Fresh.base = Nobody /\ Clients!Fresh.id = FALSE
  BY DEF Clients!TypeOK, Fields, Clients!Fresh
<1>2. \A h \in Heaps : mem'[h] = IF h \in gone THEN Clients!Fresh ELSE mem[h]
  BY DEF Clients!HeapObjects
<1>3. mem' \in [Clients!HeapObjects -> Fields] /\ mapped' \subseteq Heaps
  BY <1>1 DEF Clients!TypeOK
<1>4. \A h \in Heaps : mem'[h].id => mem'[h].base # Nobody /\ mem'[h].sized
  BY <1>1, <1>2 DEF Clients!TypeOK
<1>5. \A h \in Heaps : mem'[h].base # Nobody => mem'[h].base = h /\ h \in mapped'
  BY <1>1, <1>2 DEF UsersInv
<1>6. \A p \in Proxies : mem'[p] = IF p \in P THEN Clients!Fresh ELSE mem[p]
  BY DEF Clients!HeapObjects
<1>7. \A h \in Heaps \ gone : mem'[h] = mem[h]
  BY <1>2
<1> QED
  BY <1>3, <1>4, <1>5, <1>6, <1>7 DEF Spared

LEMMA LeaveKeepsInv ==
  ASSUME ClientsInv, NEW t \in Threads, Clients!Leave(t)
  PROVE  ClientsInv'
<1> USE DEF ClientsInv
<1>1. /\ at[t].pc = "leave" /\ cache' = cache /\ lock' = lock
      /\ at' = [at EXCEPT ![t] = Clients!Outside] /\ Clients!Reclaim(cache, at')
  BY DEF Clients!Leave
<1>2. /\ at' \in [Threads -> Places] /\ at'[t].pc = "out"
      /\ \A u \in Threads \ {t} : at'[u] = at[u]
  BY <1>1 DEF Clients!TypeOK, Places, Clients!Outside
<1> DEFINE gone == Heaps \ Clients!Referred(cache, at')
<1>3. Reclaimed(gone, {}) /\ gone \in SUBSET Heaps
  BY <1>1 DEF Clients!Reclaim, Reclaimed
<1>4. /\ mem' \in [Clients!HeapObjects -> Fields] /\ mapped' \subseteq Heaps
      /\ \A h \in Heaps : mem'[h].id => mem'[h].base # Nobody /\ mem'[h].sized
      /\ \A h \in Heaps : mem'[h].base # Nobody => mem'[h].base = h /\ h \in mapped'
      /\ \A p \in Proxies : mem'[p] = mem[p]
      /\ \A h \in Heaps \ gone : mem'[h] = mem[h]
  <2>1. {} \in SUBSET Proxies
    OBVIOUS
  <2>2. Spared(gone, {})
    <3> HIDE DEF gone
    <3> QED
      BY <1>3, <2>1, ReclaimSpares
  <2> QED
    BY <2>2 DEF Spared
<1>5. Clients!TypeOK'
  BY <1>1, <1>2, <1>4 DEF Clients!TypeOK, Places, Fields
<1>6. UserThreads' \subseteq UserThreads /\ UserProxies' = UserProxies
      /\ Finders' \subseteq Finders
  BY <1>1, <1>2, <1>4 DEF UserThreads, UserProxies, Finders, Using
<1>7. CountInv'
  BY <1>1, <1>6, FewerUsers
<1>8. UsersInv'
  <2>1. \A u \in UserThreads' : at'[u].heap = cache.heap /\ at'[u].heap \in Heaps
    BY <1>2, <1>6 DEF UsersInv, UserThreads, Using
  <2>2. \A u \in Threads : at'[u].pc \in {"publish", "copy", "dup"} =>
                             mem'[at'[u].heap].base # Nobody
    <3> SUFFICES ASSUME NEW u \in Threads, at'[u].pc \in {"publish", "copy", "dup"}
                 PROVE  mem'[at'[u].heap].base # Nobody
      OBVIOUS
    <3>1. u # t /\ at'[u] = at[u] /\ mem[at[u].heap].base # Nobody
      BY <1>2 DEF UsersInv
    <3>2. at'[u].heap \in Heaps \ gone
      BY <2>1 DEF UserThreads, Using, Clients!Referred
    <3> QED
      BY <1>4, <3>1, <3>2
  <2>3. cache.heap \in Heaps => mem'[cache.heap] = mem[cache.heap]
    BY <1>4 DEF Clients!Referred
  <2> QED
    BY <1>1, <1>4, <2>1, <2>2, <2>3 DEF UsersInv
<1>9. LocksInv'
  BY <1>1, <1>2, <1>4 DEF LocksInv, Clients!TypeOK, Clients!HeapObjects
<1> QED
  BY <1>5, <1>7, <1>8, <1>9

LEMMA DestroyKeepsInv ==
  ASSUME ClientsInv, NEW p \in Proxies, Clients!Destroy(p)
  PROVE  ClientsInv'
<1> USE DEF ClientsInv
<1> DEFINE gone == Heaps \ Clients!Referred(cache', at)
<1>1. /\ mem[p] # Clients!Fresh /\ \A t \in Threads : at[t].proxy # p
      /\ cache' = IF mem[p].id THEN Clients!Freed(cache) ELSE cache
      /\ Reclaimed(gone, {p}) /\ gone \in SUBSET Heaps
      /\ lock' = lock /\ at' = at
  BY DEF Clients!Destroy, Reclaimed
<1>2. /\ mem' \in [Clients!HeapObjects -> Fields] /\ mapped' \subseteq Heaps
      /\ \A h \in Heaps : mem'[h].id => mem'[h].base # Nobody /\ mem'[h].sized
      /\ \A h \in Heaps : mem'[h].base # Nobody => mem'[h].base = h /\ h \in mapped'
      /\ \A q \in Proxies : mem'[q] = IF q \in {p} THEN Clients!Fresh ELSE mem[q]
      /\ \A h \in Heaps \ gone : mem'[h] = mem[h]
  <2> HIDE DEF gone
  <2>1. {p} \in SUBSET Proxies
    OBVIOUS
  <2> QED
    BY <1>1, <2>1, ReclaimSpares DEF Spared
<1>3. /\ mem'[p].base = Nobody /\ mem'[p].id = FALSE
      /\ \A q \in Proxies \ {p} : mem'[q] = mem[q]
  BY <1>2 DEF Clients!Fresh
<1>4. lock[p] = Nobody
  BY <1>1 DEF LocksInv, Clients!TypeOK, Clients!HeapObjects
<1>5. /\ UserThreads' = UserThreads /\ UserProxies' \subseteq UserProxies \ {p}
      /\ Finders' = Finders
  BY <1>1, <1>3 DEF UserThreads, UserProxies, Finders
<1>6. LocksInv'
  BY <1>1, <1>3, <1>4 DEF LocksInv, Clients!TypeOK, Clients!HeapObjects
(* The entry that is left, if there is one, is of the same heap.           *)
<1>7. SUFFICES /\ cache' \in [heap : Heaps \union {Nobody}, count : 0 .. MaxCount]
               /\ (cache'.heap = Nobody <=> cache'.count = 0)
               /\ CountInv'
               /\ \A u \in UserThreads : cache'.heap = cache.heap
               /\ \A q \in Proxies : mem'[q].base # Nobody => cache'.heap = cache.heap
  <2>1. Clients!TypeOK'
    BY <1>1, <1>2, <1>7 DEF Clients!TypeOK, Fields
  <2>2. \A u \in UserThreads' : at'[u].heap = cache'.heap /\ at'[u].heap \in Heaps
    BY <1>1, <1>5, <1>7 DEF UsersInv
  <2>3. \A u \in Threads : at'[u].pc \in {"publish", "copy", "dup"} =>
                             mem'[at'[u].heap].base # Nobody
    <3> SUFFICES ASSUME NEW u \in Threads, at[u].pc \in {"publish", "copy", "dup"}
                 PROVE  mem'[at[u].heap].base # Nobody
      BY <1>1
    <3>1. u \in UserThreads /\ mem[at[u].heap].base # Nobody
      BY DEF UsersInv, UserThreads, Using
    <3>2. at[u].heap \in Heaps \ gone
      BY <1>1, <1>5, <2>2, <3>1 DEF Clients!Referred
    <3> QED
      BY <1>2, <3>1, <3>2
  <2>4. cache'.heap \in Heaps => mem'[cache'.heap] = mem[cache'.heap]
    BY <1>2 DEF Clients!Referred
  <2>5. UsersInv'
    BY <1>1, <1>2, <1>3, <1>7, <2>2, <2>3, <2>4 DEF UsersInv
  <2> QED
    BY <1>6, <1>7, <2>1, <2>5
<1>8. CASE ~mem[p].id
  <2>1. cache' = cache
    BY <1>1, <1>8
  <2>2. CountInv'
    BY <1>5, <2>1, FewerUsers
  <2> QED
    BY <2>1, <2>2 DEF Clients!TypeOK
<1>9. CASE mem[p].id
  <2>1. p \in UserProxies
    BY <1>4, <1>9 DEF UsersInv, UserProxies
  <2>2. Cardinality(UserProxies') + 1 <= Cardinality(UserProxies)
    BY <1>5, <2>1, OneLess, UsersAreFinite
  <2>3. cache.count \in 0 .. MaxCount /\ MaxCount \in Nat
    BY ClientsAssumption DEF Clients!TypeOK, Clients!HeapCacheAssumption
  <2>4. CASE cache.count <= 1
    <3>1. cache' = [heap |-> Nobody, count |-> 0]
      BY <1>1, <1>9, <2>4 DEF Clients!Freed, Clients!NoEntry
    <3>2. UserThreads = {} /\ UserProxies = {p}
      BY <2>1, <2>4, LastUser
    <3>3. UserThreads' = {} /\ UserProxies' = {}
      BY <1>5, <3>2
    <3>4. CountInv'
      BY <1>5, <2>3, <3>1, <3>3, FS_EmptySet, UsersAreFinite DEF CountInv
    <3>5. \A q \in Proxies : mem'[q].base = Nobody
      <4> SUFFICES ASSUME NEW q \in Proxies \ {p}, mem[q].base # Nobody PROVE FALSE
        BY <1>3
      <4>1. lock[q] \in Threads /\ at[lock[q]].pc = "dup"
        BY <3>2 DEF UserProxies, LocksInv, Clients!TypeOK, Clients!HeapObjects
      <4> QED
        BY <3>2, <4>1 DEF UserThreads, Using
    <3> QED
      BY <2>3, <3>1, <3>2, <3>4, <3>5
  <2>5. CASE cache.count > 1
    <3>1. cache' = [cache EXCEPT !.count = @ - 1]
      BY <1>1, <1>9, <2>3, <2>5 DEF Clients!Freed
    <3>2. cache'.heap = cache.heap /\ cache'.count = cache.count - 1
          /\ cache' \in [heap : Heaps \union {Nobody}, count : 0 .. MaxCount]
      BY <2>3, <2>5, <3>1 DEF Clients!TypeOK
    <3>3. CountInv'
      BY <1>5, <2>2, <2>3, <3>2, UsersAreFinite DEF CountInv
    <3> QED
      BY <2>3, <2>5, <3>2, <3>3 DEF Clients!TypeOK
  <2> QED
    BY <2>3, <2>4, <2>5
<1> QED
  BY <1>8, <1>9

LEMMA ClientsKeepInv ==
  ASSUME ClientsInv, Clients!Next
  PROVE  ClientsInv'
<1>1. ASSUME NEW t \in Threads, Clients!AssertMapped(t) PROVE ClientsInv'
  <2>1. ASSUME NEW p \in Proxies, Clients!Enter(t, p) PROVE ClientsInv'
    BY <2>1, EnterKeepsInv
  <2>2. CASE Clients!FindHeap(t)
    BY <2>2, FindHeapKeepsInv
  <2>3. CASE Clients!CheckHeap(t)
    BY <2>3, LooksKeepInv DEF Clients!CheckHeap, Using
  <2>4. CASE Clients!MapHeap(t)
    BY <2>4, MapHeapKeepsInv
  <2>5. CASE Clients!MapFails(t)
    BY <2>5, LooksKeepInv DEF Clients!MapFails, Using
  <2>6. CASE Clients!PublishHeap(t)
    BY <2>6, PublishHeapKeepsInv
  <2>7. CASE Clients!TestHeap(t)
    BY <2>7, LooksKeepInv DEF Clients!TestHeap, Using
  <2>8. CASE Clients!FreeFailed(t)
    BY <2>8, FreeFailedKeepsInv
  <2>9. CASE Clients!CopyHeap(t)
    BY <2>9, CopyHeapKeepsInv
  <2>10. CASE Clients!DupHeap(t)
    BY <2>10, DupHeapKeepsInv
  <2>11. CASE Clients!Leave(t)
    BY <2>11, LeaveKeepsInv
  <2> QED
    BY <1>1, <2>1, <2>2, <2>3, <2>4, <2>5, <2>6, <2>7, <2>8, <2>9, <2>10, <2>11
    DEF Clients!AssertMapped
<1>2. ASSUME NEW p \in Proxies, Clients!Destroy(p) PROVE ClientsInv'
  BY <1>2, DestroyKeepsInv
<1> QED
  BY <1>1, <1>2 DEF Clients!Next

LEMMA ClientsUntouched ==
  ASSUME ClientsInv, UNCHANGED <<mem, lock, cache, at, mapped>>
  PROVE  ClientsInv'
  BY DEF ClientsInv, CountInv, UsersInv, LocksInv, Clients!TypeOK, UserThreads,
         UserProxies, Finders

(* The invariant gives what the run checks.                                *)
LEMMA InvIsEnough ==
  ASSUME ClientsInv
  PROVE  MappedWhileUsed
<1> USE DEF ClientsInv
<1>1. \A p \in Proxies : mem[p].base # Nobody =>
        mem[p].base = cache.heap /\ cache.heap \in mapped
  BY DEF UsersInv, Clients!TypeOK
<1>2. Clients!OneMappingInUse
  <2> DEFINE used == {mem[p].base : p \in Proxies} \ {Nobody}
  <2>1. used \subseteq {cache.heap}
    BY <1>1
  <2>2. IsFiniteSet({cache.heap}) /\ Cardinality({cache.heap}) = 1
    BY FS_Singleton
  <2>3. Cardinality(used) <= 1
    BY <2>1, <2>2, NoMore
  <2> QED
    BY <2>3, SameCardinality DEF Clients!OneMappingInUse
<1> QED
  BY <1>1, <1>2 DEF MappedWhileUsed, Clients!MappedWhileUsed

(* HeapCache and BpMemoryHeap, of any number of threads, proxies and real  *)
(* heaps: the memory a proxy has handed out stays mapped as long as the    *)
(* proxy lives, in one mapping for all.                                    *)
THEOREM ClientsStayMapped == Clients!Spec => []ClientsInv
<1>1. Clients!Init => ClientsInv
  BY ClientsBegin
<1>2. ClientsInv /\ [Clients!Next]_(Clients!vars) => ClientsInv'
  <2> SUFFICES ASSUME ClientsInv, [Clients!Next]_(Clients!vars) PROVE ClientsInv'
    OBVIOUS
  <2>1. CASE Clients!Next
    BY <2>1, ClientsKeepInv
  <2>2. CASE UNCHANGED Clients!vars
    BY <2>2, ClientsUntouched DEF Clients!vars
  <2> QED
    BY <2>1, <2>2
<1> QED
  BY <1>1, <1>2, PTL DEF Clients!Spec

(* The same beside the dealer, which has no state in common with them.     *)
THEOREM MappedWhileUsedAlways == SidesSpec => []MappedWhileUsed
<1>1. SidesInit => ClientsInv
  BY ClientsBegin DEF SidesInit
<1>2. ClientsInv /\ [SidesNext]_<<vars, clientsVars, side>> => ClientsInv'
  <2> SUFFICES ASSUME ClientsInv, [SidesNext]_<<vars, clientsVars, side>> PROVE ClientsInv'
    OBVIOUS
  <2>1. CASE Clients!Next
    BY <2>1, ClientsKeepInv
  <2>2. CASE UNCHANGED clientsVars
    BY <2>2, ClientsUntouched DEF clientsVars
  <2> QED
    BY <2>1, <2>2 DEF SidesNext
<1>3. ClientsInv => MappedWhileUsed
  BY InvIsEnough
<1> QED
  BY <1>1, <1>2, <1>3, PTL DEF SidesSpec

=============================================================================
