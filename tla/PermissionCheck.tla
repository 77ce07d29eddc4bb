-------------------------- MODULE PermissionCheck --------------------------
(* checkPermission() of IServiceManager.cpp and the cache before it        *)
(* (PermissionCache.cpp): several threads, one permission controller that  *)
(* dies and comes back.  A step is what is done under a lock, or one call. *)
EXTENDS RestartingService

CONSTANTS
  Threads,
  Queries,  \* pairs of a permission and a uid
  Idle      \* no query

VARIABLES
  policy,      \* what each incarnation grants
  gPermissionController,
  mCache,      \* the answer for each query that has one, {} for the others
  query, at,   \* of each thread: what it checks, and where it is
  pc, granted  \* of each thread: its locals

permissionVars == <<policy, gPermissionController, mCache, query, at, pc, granted>>

Init ==
  /\ ServiceInit
  /\ policy \in [Incarnations -> SUBSET Queries]
  /\ gPermissionController = NULL
  /\ mCache = [q \in Queries |-> {}]
  /\ query = [t \in Threads |-> Idle]
  /\ at = [t \in Threads |-> "idle"]
  /\ pc = [t \in Threads |-> NULL]
  /\ granted = [t \in Threads |-> FALSE]

GoesTo(t, where) == at' = [at EXCEPT ![t] = where]
Holds(t, i) == pc' = [pc EXCEPT ![t] = i]

(* PermissionCache::checkPermission() looks first at what is cached, and   *)
(* returns it; root and the process itself are not asked about.            *)
Check(t, q) ==
  /\ at[t] = "idle" /\ mCache[q] = {}
  /\ query' = [query EXCEPT ![t] = q]
  /\ GoesTo(t, "begin")
  /\ UNCHANGED <<policy, gPermissionController, mCache, pc, granted, serviceVars>>

Begin(t) ==
  /\ at[t] = "begin"
  /\ Holds(t, gPermissionController)
  /\ GoesTo(t, IF gPermissionController = NULL THEN "find" ELSE "ask")
  /\ UNCHANGED <<policy, gPermissionController, mCache, query, granted, serviceVars>>

(* Nothing can be read from the reply of a dead controller: it says no.    *)
Ask(t) ==
  /\ at[t] = "ask"
  /\ Transact(pc[t])
  /\ granted' = [granted EXCEPT ![t] =
                   Answers(pc[t]) /\ query[t] \in policy[pc[t]]]
  /\ GoesTo(t, IF granted'[t] THEN "cache" ELSE "refused")
  /\ UNCHANGED <<policy, gPermissionController, mCache, query, pc>>

RefusedForGood(t) ==
  /\ at[t] = "refused"
  /\ GoesTo(t, "cache")
  /\ UNCHANGED <<policy, gPermissionController, mCache, query, pc, granted, serviceVars>>

(* Is this a permission failure, or did the controller go away?            *)
Refused(t) ==
  /\ at[t] = "refused"
  /\ GoesTo(t, IF mAlive[pc[t]] THEN "cache" ELSE "forget")
  /\ UNCHANGED <<policy, gPermissionController, mCache, query, pc, granted, serviceVars>>

ForgetController(t) ==
  /\ at[t] = "forget"
  /\ gPermissionController' =
       IF gPermissionController = pc[t] THEN NULL ELSE gPermissionController
  /\ GoesTo(t, "find")
  /\ UNCHANGED <<policy, mCache, query, pc, granted, serviceVars>>

Held == {gPermissionController} \union {pc[t] : t \in Threads}

(* Sleeps and tries again if there is none.                                *)
Find(t) ==
  /\ at[t] = "find" /\ registered # NULL
  /\ Found(Held)
  /\ Holds(t, registered)
  /\ GoesTo(t, "install")
  /\ UNCHANGED <<policy, gPermissionController, mCache, query, granted>>

Install(t) ==
  /\ at[t] = "install"
  /\ gPermissionController' = pc[t]
  /\ GoesTo(t, "ask")
  /\ UNCHANGED <<policy, mCache, query, pc, granted, serviceVars>>

(* The first of two threads' answers stays in the cache; each returns its  *)
(* own.                                                                    *)
Cache(t) ==
  /\ at[t] = "cache"
  /\ mCache' = [mCache EXCEPT ![query[t]] =
                  IF @ = {} THEN {granted[t]} ELSE @]
  /\ query' = [query EXCEPT ![t] = Idle]
  /\ granted' = [granted EXCEPT ![t] = FALSE]
  /\ Holds(t, NULL)
  /\ GoesTo(t, "idle")
  /\ UNCHANGED <<policy, gPermissionController, serviceVars>>

Purge ==
  /\ \E q \in Queries : mCache[q] # {}
  /\ mCache' = [q \in Queries |-> {}]
  /\ UNCHANGED <<policy, gPermissionController, query, at, pc, granted, serviceVars>>

Proceed(t) ==
  \/ Begin(t) \/ Ask(t) \/ Refused(t) \/ ForgetController(t)
  \/ Find(t) \/ Install(t) \/ Cache(t)

Next ==
  \/ \E t \in Threads : (\E q \in Queries : Check(t, q)) \/ Proceed(t)
  \/ Purge
  \/ ServiceNext /\ UNCHANGED permissionVars

Fairness ==
  /\ ServiceFairness
  /\ \A t \in Threads : WF_<<permissionVars, serviceVars>>(Proceed(t))

Spec == Init /\ [][Next]_<<permissionVars, serviceVars>> /\ Fairness
-----------------------------------------------------------------------------
(* What is returned and cached is an answer of a controller that was       *)
(* alive: no controller's death is taken for its refusal.                  *)
AnswersAreGiven ==
  \A q \in Queries :
    \A answer \in mCache[q] \union
                  {granted[t] : t \in {u \in Threads : at[u] = "cache" /\ query[u] = q}} :
      \E i \in 1 .. started : answer = (q \in policy[i])

(* Whenever the controller dies and whichever thread puts back an old one, *)
(* every check ends once a controller stays.                               *)
EveryCheckEnds ==
  \A t \in Threads : at[t] # "idle" ~> at[t] = "idle"

=============================================================================
