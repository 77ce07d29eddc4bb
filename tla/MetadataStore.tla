--------------------------- MODULE MetadataStore ---------------------------
(***************************************************************************)
(* What CameraMetadata promises: a bag of items, of each tag any number,   *)
(* as "multiple entries with the same tag are allowed".  An update puts an *)
(* item in the place of one with its tag, if there is one; an erasure      *)
(* takes one away; appending adds all items of another.  While a store is  *)
(* locked nothing changes it.                                              *)
(***************************************************************************)
EXTENDS Integers, FiniteSets, Bags

CONSTANTS Stores, Tags

VARIABLES
  items,   \* the bag of items of each store
  locked   \* the stores that are locked

Tagged(bag, t) == {i \in BagToSet(bag) : i.tag = t}
Without(bag, t) ==
  IF Tagged(bag, t) = {} THEN {bag} ELSE {bag (-) SetToBag({i}) : i \in Tagged(bag, t)}

Init == items \in [Stores -> {EmptyBag}] /\ locked = {}

(* What an update, an erasure makes of a bag: an item's tag tells its type. *)
Put(old, new, t) ==
  \E i \in Tagged(new, t), rest \in Without(old, t) : new = rest (+) SetToBag({i})
Erased(old, new, t) == new \in Without(old, t)

Only(S) == \A s \in Stores \ S : items'[s] = items[s]

Changed(old, new) ==
  \/ new = EmptyBag
  \/ \E t \in Tags : Erased(old, new, t) \/ Put(old, new, t)
  \/ \E r \in Stores : new = items[r] \/ new = old (+) items[r]

Change(s) == s \notin locked /\ Only({s}) /\ Changed(items[s], items'[s])

(* What one store had goes to another, or they change places.              *)
Move(s, r) ==
  /\ {s, r} \intersect locked = {} /\ Only({s, r})
  /\ items'[s] = items[r] /\ items'[r] \in {EmptyBag, items[s]}

(* A store is destroyed, locked or not, and one made in its place.         *)
Renew(s) == locked' = locked \ {s} /\ Only({s}) /\ items'[s] = EmptyBag

Lock(s) == locked' \in {locked \union {s}, locked \ {s}} /\ items' = items

Next ==
  \/ \E s \in Stores : Lock(s) \/ Renew(s)
  \/ /\ locked' = locked
     /\ \E s \in Stores : Change(s) \/ \E r \in Stores : Move(s, r)

Spec == Init /\ [][Next]_<<items, locked>>

=============================================================================
