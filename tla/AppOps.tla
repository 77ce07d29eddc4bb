------------------------------- MODULE AppOps -------------------------------
(* AppOpsManager.cpp: the threads of a client of the app ops service,      *)
(* which finds the service again when it died, under its lock, and gives   *)
(* up after ten seconds; and ProcessInfoService.cpp, which tries five      *)
(* times with no lock held.  Both services are the one of                  *)
(* RestartingService: a thread uses one of them.                           *)
EXTENDS RestartingService

CONSTANTS
  Threads,
  Patience,      \* how often AppOpsManager looks before ten seconds are over
  InTime,        \* the service comes back before they are
  BINDER_ATTEMPT_LIMIT

AppOpsAssumption == InTime \in BOOLEAN /\ BINDER_ATTEMPT_LIMIT \in Nat

VARIABLES
  mLock,     \* the threads that hold AppOpsManager's lock
  mService, mProcessInfoService,
  where,     \* of each thread
  service,   \* of each thread: its local
  tries      \* of each thread: how often it has looked

appVars == <<mLock, mService, mProcessInfoService, where, service, tries>>

(* ProcessInfoService's constructor looks its service up: there is none    *)
(* yet.                                                                    *)
Init ==
  /\ ServiceInit
  /\ mLock = {} /\ mService = NULL /\ mProcessInfoService = NULL
  /\ where = [t \in Threads |-> "idle"]
  /\ service = [t \in Threads |-> NULL]
  /\ tries = [t \in Threads |-> 0]

Goes(t, place) == where' = [where EXCEPT ![t] = place]
Gets(t, i) == service' = [service EXCEPT ![t] = i]
Tries(t, n) == tries' = [tries EXCEPT ![t] = n]
Leaves(t) == Goes(t, "idle") /\ Gets(t, NULL) /\ Tries(t, 0)
Kept == {mService, mProcessInfoService} \union {service[t] : t \in Threads}
-----------------------------------------------------------------------------
Call(t) ==
  /\ where[t] = "idle"
  /\ Goes(t, "lock")
  /\ UNCHANGED <<mLock, mService, mProcessInfoService, service, tries, serviceVars>>

Lock(t) ==
  /\ where[t] = "lock" /\ mLock = {}
  /\ mLock' = {t}
  /\ Gets(t, mService)
  /\ Goes(t, "look")
  /\ UNCHANGED <<mService, mProcessInfoService, tries, serviceVars>>

IsAlive(i) == i # NULL /\ mAlive[i]

(* A pass of the loop that waits for a service.                            *)
Look(t) ==
  /\ where[t] = "look" /\ ~ IsAlive(service[t])
  /\ \/ /\ registered # NULL
        /\ Found(Kept)
        /\ mService' = registered /\ Gets(t, registered)
        /\ UNCHANGED <<where, tries>>
     \/ /\ registered = NULL /\ tries[t] < Patience
        /\ Tries(t, tries[t] + 1)
        /\ UNCHANGED <<mService, service, where, serviceVars>>
  /\ UNCHANGED <<mLock, mProcessInfoService>>

Unlock(t) ==
  /\ where[t] = "look" /\ IsAlive(service[t])
  /\ mLock' = {}
  /\ Goes(t, "use")
  /\ UNCHANGED <<mService, mProcessInfoService, service, tries, serviceVars>>

(* It returns without unlocking; the operation is ignored.                 *)
GiveUp(t) ==
  /\ ~ InTime
  /\ where[t] = "look" /\ registered = NULL /\ ~ IsAlive(service[t])
  /\ tries[t] = Patience
  /\ Leaves(t)
  /\ UNCHANGED <<mLock, mService, mProcessInfoService, serviceVars>>

(* The operation itself, whatever its answer.                              *)
Use(t) ==
  /\ where[t] = "use"
  /\ Transact(service[t])
  /\ Leaves(t)
  /\ UNCHANGED <<mLock, mService, mProcessInfoService>>
-----------------------------------------------------------------------------
GetProcessStates(t) ==
  /\ where[t] = "idle"
  /\ Gets(t, mProcessInfoService)
  /\ Goes(t, "attempt")
  /\ UNCHANGED <<mLock, mService, mProcessInfoService, tries, serviceVars>>

(* A call that fails though the service is there returns its error.        *)
Attempt(t) ==
  /\ where[t] = "attempt" /\ tries[t] < BINDER_ATTEMPT_LIMIT
  /\ IF service[t] = NULL
       THEN UNCHANGED serviceVars ELSE Transact(service[t])
  /\ IF service[t] # NULL /\ mAlive'[service[t]]
       THEN Leaves(t) ELSE Goes(t, "update") /\ UNCHANGED <<service, tries>>
  /\ UNCHANGED <<mLock, mService, mProcessInfoService>>

(* Under mProcessInfoLock, unless another thread has updated it.           *)
UpdateBinderLocked(t) ==
  /\ where[t] = "update"
  /\ IF service[t] = mProcessInfoService
       THEN Found(Kept) /\ mProcessInfoService' = registered
       ELSE UNCHANGED <<serviceVars, mProcessInfoService>>
  /\ Gets(t, mProcessInfoService')
  /\ Tries(t, tries[t] + 1)
  /\ Goes(t, "attempt")
  /\ UNCHANGED <<mLock, mService>>

TimedOut(t) ==
  /\ where[t] = "attempt" /\ tries[t] = BINDER_ATTEMPT_LIMIT
  /\ Leaves(t)
  /\ UNCHANGED <<mLock, mService, mProcessInfoService, serviceVars>>
-----------------------------------------------------------------------------
Proceed(t) ==
  \/ Lock(t) \/ Look(t) \/ Unlock(t) \/ GiveUp(t) \/ Use(t)
  \/ Attempt(t) \/ UpdateBinderLocked(t) \/ TimedOut(t)

Next ==
  \/ \E t \in Threads : Call(t) \/ GetProcessStates(t) \/ Proceed(t)
  \/ ServiceNext /\ UNCHANGED appVars

(* The lock is given to each that waits for it again and again.            *)
Fairness ==
  /\ ServiceFairness
  /\ \A t \in Threads :
       /\ WF_<<appVars, serviceVars>>(Proceed(t))
       /\ SF_<<appVars, serviceVars>>(Lock(t))

Spec == Init /\ [][Next]_<<appVars, serviceVars>> /\ Fairness
-----------------------------------------------------------------------------
(* Every call returns once the service stays, or after the attempts.       *)
EveryCallReturns ==
  \A t \in Threads : where[t] # "idle" ~> where[t] = "idle"

(* "Waiting too long for app ops service, giving up": who has given up no  *)
(* longer keeps the others from asking.                                    *)
GivingUpFreesTheLock == \A t \in mLock : where[t] # "idle"

=============================================================================
