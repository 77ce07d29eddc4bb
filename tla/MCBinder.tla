------------------------------ MODULE MCBinder ------------------------------
(* What the processes that use binder do around their calls; each          *)
(* behaviour is of one part.                                               *)
(*   - The death of the remote of a proxy (BpBinder), with two pool        *)
(*     threads, two recipients and as many death records as can be pending *)
(*     at once with them.                                                  *)
(*   - The service manager's registry (ServiceManager), of two names and   *)
(*     two services: enough to override each other, to die before, between *)
(*     and after, to be given the other's handle and, with MaxNames = 2,   *)
(*     to register under both.                                             *)
(*   - The growth of the pool (ThreadPool): two threads that join and one  *)
(*     or two that the driver asks for, started before they join.          *)
(*   - A check of a permission (PermissionCheck), by two threads, of a     *)
(*     controller that dies twice.                                         *)
(*   - The other clients of services that die (AppOps), with a service     *)
(*     that is back in time.                                               *)
EXTENDS BpBinder

CONSTANTS
  Names, Services, Nothing, MaxHandle, MaxNames,
  Pool, Nobody, MaxCalls, StartedFirst,
  Queries, Idle, MaxIncarnations,
  Patience, InTime, BINDER_ATTEMPT_LIMIT
VARIABLES
  svclist, svc, ref, deadServices, unread, owner, aliased, lister,
  mThreadPoolStarted, mExecutingThreadsCount, mMaxThreads, state, isMain, mIn,
  requested, poolRegistered, calls, arrived, blocked,
  started, running, registered, mAlive,
  policy, gPermissionController, mCache, query, at, pcOf, granted,
  mLock, mService, mProcessInfoService, where, service, tries,
  used  \* whose behaviour it is

registryVars ==
  <<svclist, svc, ref, deadServices, unread, owner, aliased, lister>>
poolVars == <<mThreadPoolStarted, mExecutingThreadsCount, mMaxThreads, state,
              isMain, mIn, requested, poolRegistered, calls, arrived, blocked>>
serviceVars == <<started, running, registered, mAlive>>
permissionVars == <<policy, gPermissionController, mCache, query, at, pcOf, granted>>
appVars == <<mLock, mService, mProcessInfoService, where, service, tries>>

Registry == INSTANCE ServiceManager WITH dead <- deadServices, last <- unread
Grow == INSTANCE ThreadPool WITH registered <- poolRegistered
Permission == INSTANCE PermissionCheck WITH pc <- pcOf
Apps == INSTANCE AppOps
ASSUME BinderPartsAssumption ==
  /\ Registry!ServiceManagerAssumption /\ Grow!ThreadPoolAssumption
  /\ Permission!RestartingServiceAssumption /\ Apps!AppOpsAssumption

(* What is not used begins in one way only.                                *)
BinderInit ==
  /\ used \in {"proxy", "registry", "pool", "permission", "apps"}
  /\ Init /\ Registry!Init /\ Grow!Init /\ Permission!Init /\ Apps!Init
  /\ used # "pool" => mMaxThreads = 1
  /\ used # "permission" => policy = [i \in 1 .. MaxIncarnations |-> {}]

OfProxy(A) == used = "proxy" /\ A
  /\ UNCHANGED <<registryVars, poolVars, serviceVars, permissionVars, appVars, used>>
OfRegistry(A) == used = "registry" /\ A
  /\ UNCHANGED <<vars, poolVars, serviceVars, permissionVars, appVars, used>>
OfPool(A) == used = "pool" /\ A
  /\ UNCHANGED <<vars, registryVars, serviceVars, permissionVars, appVars, used>>
OfPermission(A) == used = "permission" /\ A
  /\ UNCHANGED <<vars, registryVars, poolVars, appVars, used>>
OfApps(A) == used = "apps" /\ A
  /\ UNCHANGED <<vars, registryVars, poolVars, permissionVars, used>>

BinderNext ==
  \/ OfProxy(Next) \/ OfRegistry(Registry!Next) \/ OfPool(Grow!Next)
  \/ OfPermission(Permission!Next) \/ OfApps(Apps!Next)

(* The fairness of each.                                                   *)
BinderSpec ==
  /\ BinderInit
  /\ [][BinderNext]_<<vars, registryVars, poolVars, serviceVars, permissionVars,
                      appVars, used>>
  /\ \A t \in Threads : WF_vars(used = "proxy" /\ Handle(t))
  /\ WF_registryVars(\E h \in 1 .. MaxHandle : used = "registry" /\ Registry!DeathNotice(h))
  /\ WF_poolVars(used = "pool" /\ Grow!StartThreadPool)
  /\ WF_poolVars(used = "pool" /\ Grow!Arrive)
  /\ WF_poolVars(used = "pool" /\ Grow!Unblock)
  /\ \A t \in Pool : WF_poolVars(used = "pool" /\ Grow!Proceed(t))
  /\ WF_serviceVars(used \in {"permission", "apps"} /\ Apps!Start)
  /\ \A t \in Threads :
       /\ WF_<<permissionVars, serviceVars>>(used = "permission" /\ Permission!Proceed(t))
       /\ WF_<<appVars, serviceVars>>(used = "apps" /\ Apps!Proceed(t))
       /\ SF_<<appVars, serviceVars>>(used = "apps" /\ Apps!Lock(t))

(* The driver watches for the death exactly while somebody is linked, and  *)
(* every cookie it or a handler has is covered by a weak reference, so     *)
(* that no link goes unwatched and no handler is run on a deleted proxy.   *)
LinksAreSound == TypeOK /\ WatchedWhileLinked /\ CookiesAreCounted

(* Each name has a reference of its own to a handle, a handle that is      *)
(* listed is the one of the service that registered it, and a client that  *)
(* lists the names misses none that was there.                             *)
NamesAreServed ==
  /\ Registry!TypeOK /\ Registry!ReferencesMatchNames
  /\ Registry!HandlesNameTheirService /\ Registry!ListingIsComplete

(* A name whose service is alive is found, as long as no service has had   *)
(* two names at once.                                                      *)
LiveServicesAreFound == Registry!LiveServicesAreFound

(* A dead service's handle is dropped when the manager reads of the death. *)
DeadServicesAreForgotten == Registry!DeadServicesAreForgotten

(* The executing threads are counted, and the driver is given no more      *)
(* threads than it was told of.                                            *)
ThreadsAreCounted == Grow!ThreadsAreCounted

(* No controller's death is taken for its refusal, by any thread, and what *)
(* is cached was answered.                                                 *)
AnswersAreGiven == Permission!AnswersAreGiven

(* An incoming call ends even if it waits for a later one, a thread that   *)
(* waits for a free one goes on, and a check of a permission or an         *)
(* operation of another service ends once that service stays, whatever     *)
(* died meanwhile and however the threads' steps interleave.               *)
EveryCallEnds ==
  /\ Grow!EveryCallEnds
  /\ Permission!EveryCheckEnds
  /\ Apps!EveryCallReturns

=============================================================================
