--------------------------- MODULE ServiceManager ---------------------------
(***************************************************************************)
(* The service manager process, native/cmds/servicemanager/                *)
(* service_manager.c and binder.c, with the services that register, a      *)
(* client that lists them (BpServiceManager::listServices of               *)
(* IServiceManager.cpp) and the references the binder driver keeps for it. *)
(*                                                                         *)
(* The process has one thread, which handles one command of the driver     *)
(* after the other: a request, with everything it makes the driver do, is  *)
(* one step.  Services die at any time in between, and the notice of a     *)
(* death may be read many requests later.                                  *)
(***************************************************************************)
EXTENDS Naturals, Sequences, SequencesExt, FiniteSets

CONSTANTS
  Names,      \* the names of services
  Services,   \* binder objects that register; they may die and not return
  Nothing,    \* no name, no service
  MaxHandle,  \* bound: handles the driver needs at a time
  MaxNames    \* bound: names one service registers under

ServiceManagerAssumption ==
  /\ Nothing \notin Names \union Services
  /\ IsFiniteSet(Names)
  /\ MaxHandle \in Nat /\ MaxNames \in Nat

Handles == 1 .. MaxHandle

VARIABLES
  svclist,  \* the names in the order of the list of svcinfo
  svc,      \* svcinfo of each name: its handle, 0 if none
  ref,      \* driver: its reference behind each handle
  dead,     \* the services that have died
  last,     \* those of them with a request the manager has not read yet
  owner,    \* history: the service that last registered each name
  aliased,  \* history: whether a service has ever had two names at once
  lister    \* a client inside listServices(), and what it has still to list

vars == <<svclist, svc, ref, dead, last, owner, aliased, lister>>

(* A reference of the driver: the node it is for, its strong count, the    *)
(* cookie of its death notification and what has become of that.           *)
NoRef == [node |-> Nothing, strong |-> 0, cookie |-> Nothing, notice |-> "none"]
Notices == {"none", "armed", "queued", "delivered"}

Listed == {svclist[i] : i \in 1 .. Len(svclist)}

Init ==
  /\ svclist = <<>>
  /\ svc = [n \in Names |-> 0]
  /\ ref = [h \in Handles |-> NoRef]
  /\ dead = {}
  /\ last = {}
  /\ owner = [n \in Names |-> Nothing]
  /\ aliased = FALSE
  /\ lister = [at |-> 0, missing |-> {}, on |-> FALSE]

-----------------------------------------------------------------------------
(* The driver's references *)

(* The handle of a service sent to the manager: the one it has, or the     *)
(* lowest that is free.                                                    *)
HandleFor(s) ==
  IF \E h \in Handles : ref[h].node = s
  THEN CHOOSE h \in Handles : ref[h].node = s
  ELSE CHOOSE h \in Handles :
         /\ ref[h] = NoRef
         /\ \A g \in Handles : ref[g] = NoRef => h <= g

(* BC_RELEASE: with its last strong reference the driver forgets the       *)
(* handle, death notification and all, unless a buffer holds it.           *)
Released(r, h, buffered) ==
  IF r[h].strong = 1 /\ h # buffered
  THEN [r EXCEPT ![h] = NoRef]
  ELSE [r EXCEPT ![h].strong = @ - 1]

(* BC_ACQUIRE and BC_REQUEST_DEATH_NOTIFICATION, on a handle the request's *)
(* buffer holds; the latter is refused if there is one.  The variant asks  *)
(* for no notification under a name that is known.                         *)
LinkedOnce(r, h, s, name) ==
  [r EXCEPT ![h] =
     [node   |-> s,
      strong |-> @.strong + 1,
      cookie |-> IF Contains(svclist, name) THEN @.cookie ELSE name,
      notice |-> IF Contains(svclist, name) THEN @.notice
                 ELSE IF s \in dead THEN "queued" ELSE "armed"]]
Linked(r, h, s, name) ==
  [r EXCEPT ![h] =
     [node   |-> s,
      strong |-> @.strong + 1,
      cookie |-> IF @.cookie = Nothing THEN name ELSE @.cookie,
      notice |-> IF @.cookie # Nothing THEN @.notice
                 ELSE IF s \in dead THEN "queued" ELSE "armed"]]

-----------------------------------------------------------------------------
(* Requests *)

(* A new svcinfo goes to the head of the list, a known one stays where it  *)
(* is.                                                                     *)
Inserted(l, n) == IF Contains(l, n) THEN l ELSE <<n>> \o l

(* svcinfo_death() as do_add_service() calls it on a name that is taken,   *)
(* and a variant that drops the name and keeps the reference.              *)
OverriddenLeaking(name, h) == ref
Overridden(name, h) ==
  IF svc[name] = 0 THEN ref ELSE Released(ref, svc[name], h)

(* SVC_MGR_ADD_SERVICE, for a caller that may register and may have died   *)
(* since it sent the request.                                              *)
AddService(s, name) ==
  /\ s \in dead => s \in last
  /\ \E h \in Handles : ref[h] = NoRef \/ ref[h].node = s
  /\ last' = last \ {s}
  /\ LET h == HandleFor(s)
         others == {n \in Names \ {name} : svc[n] = h}
     IN
     /\ Cardinality(others) < MaxNames
     /\ aliased' = (aliased \/ others # {})
     /\ ref' = Linked(Overridden(name, h), h, s, name)
     /\ svc' = [svc EXCEPT ![name] = h]
  /\ svclist' = Inserted(svclist, name)
  /\ owner' = [owner EXCEPT ![name] = s]
  /\ UNCHANGED <<dead, lister>>

(* SVC_MGR_LIST_SERVICES: the n-th name from the head.  The client asks    *)
(* for n = 0, 1, ... until it is refused.                                  *)
BeginListing ==
  /\ ~lister.on
  /\ lister' = [at |-> 0, missing |-> Listed, on |-> TRUE]
  /\ UNCHANGED <<svclist, svc, ref, dead, last, owner, aliased>>

ListNext ==
  /\ lister.on
  /\ lister' =
       IF lister.at < Len(svclist)
       THEN [lister EXCEPT !.at = @ + 1, !.missing = @ \ {svclist[lister.at + 1]}]
       ELSE [lister EXCEPT !.at = 0, !.on = FALSE]
  /\ UNCHANGED <<svclist, svc, ref, dead, last, owner, aliased>>

(* What SVC_MGR_CHECK_SERVICE answers a caller that may look the name up:  *)
(* a handle, or 0.                                                         *)
DoFindService(name) == IF Contains(svclist, name) THEN svc[name] ELSE 0

-----------------------------------------------------------------------------
(* Death *)

Die(s) ==
  /\ s \notin dead
  /\ dead' = dead \union {s}
  /\ last' \in {last, last \union {s}}
  /\ ref' = [h \in Handles |->
               IF ref[h].node = s /\ ref[h].notice = "armed"
               THEN [ref[h] EXCEPT !.notice = "queued"] ELSE ref[h]]
  /\ UNCHANGED <<svclist, svc, owner, aliased, lister>>

(* BR_DEAD_BINDER and svcinfo_death(): the name whose svcinfo is the       *)
(* cookie loses its handle; and a variant that does not clear it.          *)
DeathNoticeKept(h) ==
  /\ ref[h].notice = "queued"
  /\ LET name == ref[h].cookie
         read == [ref EXCEPT ![h].notice = "delivered"]
     IN ref' = IF svc[name] = 0 THEN read
               ELSE Released(read, svc[name], 0)
  /\ UNCHANGED <<svclist, svc, dead, last, owner, aliased, lister>>

DeathNotice(h) ==
  /\ ref[h].notice = "queued"
  /\ LET name == ref[h].cookie
         read == [ref EXCEPT ![h].notice = "delivered"]
     IN /\ ref' = IF svc[name] = 0 THEN read
                  ELSE Released(read, svc[name], 0)
        /\ svc' = [svc EXCEPT ![name] = 0]
  /\ UNCHANGED <<svclist, dead, last, owner, aliased, lister>>

-----------------------------------------------------------------------------
Next ==
  \/ \E s \in Services, name \in Names : AddService(s, name)
  \/ BeginListing \/ ListNext
  \/ \E s \in Services : Die(s)
  \/ \E h \in Handles : DeathNotice(h)

(* binder_loop() reads what the driver has for it, for ever.               *)
Spec == Init /\ [][Next]_vars /\ WF_vars(\E h \in Handles : DeathNotice(h))

-----------------------------------------------------------------------------
(* Properties *)

TypeOK ==
  /\ svclist \in Seq(Names)
  /\ svc \in [Names -> Handles \union {0}]
  /\ ref \in [Handles -> [node : Services \union {Nothing}, strong : 0 .. Cardinality(Names),
                          cookie : Names \union {Nothing}, notice : Notices]]
  /\ last \subseteq dead /\ dead \subseteq Services
  /\ owner \in [Names -> Services \union {Nothing}]
  /\ aliased \in BOOLEAN
  /\ lister \in [at : 0 .. Cardinality(Names), missing : SUBSET Names, on : BOOLEAN]

(* The manager holds one strong reference in the driver for each name that *)
(* has a handle: overriding, dying and registering again lose none and     *)
(* leak none.                                                              *)
ReferencesMatchNames ==
  \A h \in Handles : ref[h].strong = Cardinality({n \in Names : svc[n] = h})

(* A name's handle stands for the service that registered it last, though  *)
(* the driver gives the handle of a forgotten service to the next one.     *)
HandlesNameTheirService ==
  \A n \in Names : svc[n] # 0 => ref[svc[n]].node = owner[n]

(* listServices() returns every name that was there when it began, however *)
(* many are registered meanwhile (some it may return twice).               *)
ListingIsComplete == ~lister.on => lister.missing = {}

(* "Retrieve an existing service": a name whose service is alive is found, *)
(* as long as no service has had two names at once; the notice of a death  *)
(* never takes away the handle of whoever took the name over.              *)
Found(n) == owner[n] \notin dead \union {Nothing} => DoFindService(n) # 0

LiveServicesAreFound == ~aliased => \A n \in Names : Found(n)

(* The same whatever the services registered before.                       *)
EveryLiveServiceIsFound == \A n \in Names : Found(n)

(* The manager hands out a dead service only until it has read the notice, *)
(* again of services with one name each: the driver takes one notification *)
(* for a handle, whose cookie is one name.                                 *)
DeadServicesAreForgotten ==
  \A n \in Names : (~aliased /\ owner[n] \in dead) ~>
    (svc[n] = 0 \/ owner[n] \notin dead \/ aliased)

=============================================================================
