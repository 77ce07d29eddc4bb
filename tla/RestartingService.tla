------------------------- MODULE RestartingService -------------------------
(* A service that may die and come back under another binder, as its       *)
(* clients in libbinder see it: through the service manager, and through   *)
(* their process's one proxy for each binder (BpBinder.cpp).               *)
EXTENDS Integers, Sequences

CONSTANT MaxIncarnations  \* the last one does not die

RestartingServiceAssumption == MaxIncarnations \in Nat \ {0}
Incarnations == 1 .. MaxIncarnations
NULL == 0  \* of a binder

VARIABLES
  started,     \* how many incarnations there were
  running,     \* the last of them is alive
  registered,  \* what the service manager has under the name
  mAlive       \* of each incarnation's proxy

serviceVars == <<started, running, registered, mAlive>>

ServiceInit ==
  /\ started = 0 /\ running = FALSE /\ registered = NULL
  /\ mAlive = [i \in Incarnations |-> TRUE]

(* The service registers, over what an earlier one has left.               *)
Start ==
  /\ ~ running /\ started < MaxIncarnations
  /\ started' = started + 1 /\ running' = TRUE /\ registered' = started + 1
  /\ UNCHANGED mAlive

Die ==
  /\ running /\ started < MaxIncarnations
  /\ running' = FALSE
  /\ UNCHANGED <<started, registered, mAlive>>

(* The service manager reads the notice of death.                          *)
Forget ==
  /\ ~ running /\ registered # NULL
  /\ registered' = NULL
  /\ UNCHANGED <<started, running, mAlive>>

ServiceNext == Start \/ Die \/ Forget
ServiceFairness == WF_serviceVars(Start)

Answers(i) == running /\ i = started

(* A transaction on a dead binder fails, at once if the proxy knows.       *)
Transact(i) ==
  /\ mAlive' = [mAlive EXCEPT ![i] = mAlive[i] /\ Answers(i)]
  /\ UNCHANGED <<started, running, registered>>

(* What checkService() returns is a new proxy unless one is "held".        *)
Found(held) ==
  /\ mAlive' = IF registered \in held \union {NULL} THEN mAlive
               ELSE [mAlive EXCEPT ![registered] = TRUE]
  /\ UNCHANGED <<started, running, registered>>

=============================================================================
