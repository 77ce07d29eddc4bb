----------------------------- MODULE HeapExtents -----------------------------
(***************************************************************************)
(* What an allocator of one heap promises its callers, with no list, no    *)
(* search order and no merging: a caller is granted some extent of the     *)
(* heap that nobody else holds, and is refused only when the heap has no   *)
(* hole of the size it asked for.                                          *)
(***************************************************************************)
EXTENDS Integers

CONSTANTS
  Holders,
  Units,     \* the length of the heap
  Requests,  \* the lengths holders ask for
  NoExtent

VARIABLES
  extent,  \* what each holder holds: [lo, len] or NoExtent
  refused  \* the length each holder was refused by its last request, or 0

Extent == [lo : 0 .. Units - 1, len : 1 .. Units]
Overlap(e, f) == e.lo < f.lo + f.len /\ f.lo < e.lo + e.len

(* e lies in the heap and meets no extent that is held.                    *)
Available(e) ==
  /\ e.lo + e.len <= Units
  /\ \A h \in Holders : extent[h] # NoExtent => ~Overlap(e, extent[h])

Init == extent = [h \in Holders |-> NoExtent] /\ refused = [h \in Holders |-> 0]

Grant(h, e) ==
  /\ extent[h] = NoExtent /\ Available(e) /\ e.len \in Requests
  /\ extent' = [extent EXCEPT ![h] = e]
  /\ refused' = [refused EXCEPT ![h] = 0]

(* A refusal is honest: every hole of the heap is smaller than the request.*)
Refuse(h, len) ==
  /\ extent[h] = NoExtent
  /\ \A lo \in 0 .. Units - 1 : ~Available([lo |-> lo, len |-> len])
  /\ refused' = [refused EXCEPT ![h] = len]
  /\ UNCHANGED extent

(* An empty request succeeds and holds nothing.                            *)
GrantNothing(h) ==
  /\ extent[h] = NoExtent
  /\ refused' = [refused EXCEPT ![h] = 0]
  /\ UNCHANGED extent

Return(h) ==
  /\ extent[h] # NoExtent
  /\ extent' = [extent EXCEPT ![h] = NoExtent]
  /\ UNCHANGED refused

Next ==
  \E h \in Holders :
    \/ \E e \in Extent : Grant(h, e)
    \/ \E len \in Requests : Refuse(h, len)
    \/ GrantNothing(h)
    \/ Return(h)

Spec == Init /\ [][Next]_<<extent, refused>>

=============================================================================
