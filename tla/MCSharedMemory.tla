--------------------------- MODULE MCSharedMemory ---------------------------
(* The two sides of a heap in shared memory, which have no state in        *)
(* common: the one that deals it out (MemoryDealer), here three pages of   *)
(* two units each, and allocations that take less than a unit, less than a *)
(* page, a page, and more; and the clients that map it (HeapCache), here   *)
(* two proxies and three real heaps: one in use, one that a slow thread    *)
(* still holds, and a new one.  Each behaviour is of one side.             *)
EXTENDS MemoryDealer, TLC

CONSTANTS Threads, Proxies, Heaps, MayFail, Sharing, MaxCount
VARIABLES mem, lock, cache, at, mapped,
          side  \* whose behaviour it is

clientsVars == <<mem, lock, cache, at, mapped>>

Clients == INSTANCE HeapCache
ASSUME ClientsAssumption == Clients!HeapCacheAssumption

SidesInit == Init /\ Clients!Init /\ side \in {"dealer", "clients"}

(* Clients may stop; the dealer's users always can go on.                  *)
SidesNext ==
  \/ side = "dealer" /\ Next /\ UNCHANGED <<clientsVars, side>>
  \/ side = "clients" /\ Clients!Next /\ UNCHANGED <<vars, side>>
  \/ side = "clients" /\ UNCHANGED <<vars, clientsVars, side>>

SidesSpec == SidesInit /\ [][SidesNext]_<<vars, clientsVars, side>>

Symmetric == Permutations(Allocations) \union Permutations(Threads)

(* The memory a BpMemoryHeap has handed out stays mapped as long as it     *)
(* lives, all see one mapping, and whoever sees a real heap's mHeapId      *)
(* without its lock finds its other fields set too.                        *)
MappedWhileUsed == Clients!TypeOK /\ Clients!MappedWhileUsed /\ Clients!OneMappingInUse

=============================================================================
