----------------------------- MODULE RouteMixer -----------------------------
(***************************************************************************)
(* What the users of audio_route.c see of it: each control has values that *)
(* are wanted and values that the mixer shows.  A call is either no update *)
(* and changes only what is wanted; or it is an update of the controls of  *)
(* one route, may change what is wanted of those, and has to show it: when *)
(* it ends, each control it was for shows what is wanted of it, and no     *)
(* other has changed.                                                      *)
(***************************************************************************)
CONSTANTS
  Controls,
  Settings   \* the values of a control

VARIABLES
  wanted, shown,
  routes,    \* the sets of controls that are updated together
  updated    \* the route that the last call was to update, {} if none

Init ==
  /\ wanted \in [Controls -> Settings]
  /\ shown = wanted
  /\ updated = {}

(* The routes may only change while nothing is updated.                    *)
Want ==
  /\ updated' = {}
  /\ UNCHANGED shown

(* Which call is an update is not the implementation's to choose: updated  *)
(* says it.                                                                *)
Show(route) ==
  /\ updated' = route
  /\ \A c \in Controls \ route : wanted'[c] = wanted[c]
  /\ shown' = [c \in Controls |-> IF c \in route THEN wanted'[c] ELSE shown[c]]
  /\ UNCHANGED routes

Next ==
  /\ wanted' \in [Controls -> Settings]
  /\ Want \/ \E route \in routes : Show(route)

Spec == Init /\ [][Next]_<<wanted, shown, routes, updated>>

=============================================================================
