------------------------------ MODULE DeathWatch ------------------------------
(***************************************************************************)
(* What a remote object promises those who watch for its death, without    *)
(* proxies, threads or a driver: a watch ends in exactly one way, called   *)
(* off by its owner or told of a death that did happen.                    *)
(***************************************************************************)
EXTENDS Naturals

CONSTANT Watchers

VARIABLES
  dead,      \* the remote object has died
  watches,   \* how many watches each watcher has that are not settled
  told       \* how many times each watcher was told

Init ==
  /\ dead = FALSE
  /\ watches = [w \in Watchers |-> 0]
  /\ told = [w \in Watchers |-> 0]

Die == dead' = TRUE /\ UNCHANGED <<watches, told>>

Watch(w) ==
  /\ watches' = [watches EXCEPT ![w] = @ + 1]
  /\ UNCHANGED <<dead, told>>

CallOff(w) ==
  /\ watches[w] > 0
  /\ watches' = [watches EXCEPT ![w] = @ - 1]
  /\ UNCHANGED <<dead, told>>

Tell(w) ==
  /\ dead /\ watches[w] > 0
  /\ watches' = [watches EXCEPT ![w] = @ - 1]
  /\ told' = [told EXCEPT ![w] = @ + 1]
  /\ UNCHANGED dead

Next == Die \/ \E w \in Watchers : Watch(w) \/ CallOff(w) \/ Tell(w)

(* Telling is not optional: a dead object leaves no watch unsettled.       *)
Spec ==
  /\ Init /\ [][Next]_<<dead, watches, told>>
  /\ \A w \in Watchers : WF_<<dead, watches, told>>(Tell(w))

=============================================================================
