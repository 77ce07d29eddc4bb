------------------------------ MODULE BpBinder ------------------------------
(***************************************************************************)
(* Death notification in libbinder: a BpBinder and its list of obituaries  *)
(* (native/libs/binder/BpBinder.cpp), the BR_DEAD_BINDER and               *)
(* BR_CLEAR_DEATH_NOTIFICATION_DONE handlers that pool threads run on it   *)
(* (IPCThreadState.cpp), and the part of the binder driver they talk to.   *)
(*                                                                         *)
(* linkToDeath and unlinkToDeath hold mLock from end to end and flush      *)
(* their command before they release it: each is one step.  sendObituary   *)
(* looks at mObitsSent before it takes mLock and reports after it released *)
(* it: a step each, and one per recipient.                                 *)
(*                                                                         *)
(* The driver keeps a record for each request (struct binder_ref_death)    *)
(* which knows the proxy only as a raw cookie.  A proxy lives while a weak *)
(* reference to it is left; linkToDeath takes one on behalf of the driver. *)
(***************************************************************************)
EXTENDS Naturals, FiniteSets, FiniteSetsExt

CONSTANTS
  Threads,     \* pool threads, which run the handlers
  Recipients,  \* DeathRecipients (a recipient with its cookie and flags)
  Records,     \* death records the driver may have at a time
  NoRecord,
  MaxEntries   \* bound: entries a recipient may have in the list

ASSUME BpBinderAssumption ==
  /\ IsFiniteSet(Threads) /\ IsFiniteSet(Recipients) /\ IsFiniteSet(Records)
  /\ NoRecord \notin Records
  /\ MaxEntries \in Nat

VARIABLES
  obits,      \* mObituaries: how many entries each recipient has
  hasObits,   \* mObituaries # NULL
  obitsSent,  \* mObitsSent
  alive,      \* mAlive
  held,       \* somebody holds a strong reference to the proxy
  deathRefs,  \* weak references taken by linkToDeath, not yet given back
  destroyed,  \* ~BpBinder has run
  dead,       \* driver: the remote object is dead
  current,    \* driver: ref->death of the handle
  record,     \* driver: where each death record is
  pc,         \* what each thread is doing
  report,     \* the entries each thread's sendObituary has still to report
  told        \* history: how often binderDied was called on each recipient

listVars == <<obits, hasObits, obitsSent>>
lifeVars == <<held, deathRefs, destroyed>>
driverVars == <<dead, current, record>>
threadVars == <<pc, report, told>>
vars == <<listVars, alive, lifeVars, driverVars, threadVars>>

None == [r \in Recipients |-> 0]

(* A record is "free", "armed" until the death, "queued" on a todo list as *)
(* BINDER_WORK_DEAD_BINDER, "delivered" once read and until                *)
(* BC_DEAD_BINDER_DONE, then "spent"; "queuedClear" or "deliveredClear" if *)
(* it is cleared meanwhile; and "clear" when what is queued is             *)
(* BINDER_WORK_CLEAR_DEATH_NOTIFICATION.                                   *)
RecordStates == {"free", "armed", "queued", "queuedClear", "delivered",
                 "deliveredClear", "spent", "clear"}

(* A thread is "idle" in the driver, has read BR_DEAD_BINDER ("dead"), is  *)
(* in sendObituary "before" its lock or "reporting", is "done" with it, or *)
(* has read BR_CLEAR_DEATH_NOTIFICATION_DONE ("clearing").                 *)
ThreadStates == {"idle", "dead", "before", "reporting", "done", "clearing"}

Init ==
  /\ obits = None /\ hasObits = FALSE /\ obitsSent = FALSE
  /\ alive = TRUE
  /\ held = TRUE /\ deathRefs = 0 /\ destroyed = FALSE
  /\ dead = FALSE /\ current = NoRecord
  /\ record = [d \in Records |-> "free"]
  /\ pc = [t \in Threads |-> "idle"]
  /\ report = [t \in Threads |-> None]
  /\ told = None

-----------------------------------------------------------------------------
(* The driver's side *)

(* BC_REQUEST_DEATH_NOTIFICATION: ignored when one is set already.         *)
RequestDeathNotification(d) ==
  IF current = NoRecord
  THEN /\ current' = d
       /\ record' = [record EXCEPT ![d] = IF dead THEN "queued" ELSE "armed"]
  ELSE UNCHANGED <<current, record>>

(* BC_CLEAR_DEATH_NOTIFICATION: ignored when none is set.                  *)
Cleared(s) ==
  CASE s \in {"armed", "spent"} -> "clear"
    [] s = "queued"             -> "queuedClear"
    [] s = "delivered"          -> "deliveredClear"
    [] OTHER                    -> s

ClearDeathNotification ==
  /\ current' = NoRecord
  /\ record' = [d \in Records |-> IF d = current THEN Cleared(record[d]) ELSE record[d]]

(* BC_DEAD_BINDER_DONE finds a delivered record by its cookie: any one of  *)
(* the proxy's.                                                            *)
DeadBinderDone ==
  \E d \in Records :
    /\ record[d] \in {"delivered", "deliveredClear"}
    /\ record' = [record EXCEPT ![d] = IF @ = "delivered" THEN "spent" ELSE "clear"]

(* The process of the remote object goes away.                             *)
RemoteDies ==
  /\ ~dead
  /\ dead' = TRUE
  /\ record' = [d \in Records |-> IF record[d] = "armed" THEN "queued" ELSE record[d]]
  /\ UNCHANGED <<listVars, alive, lifeVars, current, threadVars>>

-----------------------------------------------------------------------------
(* The users' calls, from any thread *)

(* linkToDeath() that returns NO_ERROR; and one that takes no reference.   *)
LinkUncounted(r) ==
  /\ held /\ ~obitsSent /\ obits[r] < MaxEntries
  /\ obits' = [obits EXCEPT ![r] = @ + 1]
  /\ \/ hasObits /\ UNCHANGED <<hasObits, current, record>>
     \/ /\ ~hasObits /\ hasObits' = TRUE
        /\ \E d \in Records : record[d] = "free" /\ RequestDeathNotification(d)
  /\ UNCHANGED <<obitsSent, alive, lifeVars, dead, threadVars>>

LinkToDeath(r) ==
  /\ held /\ ~obitsSent /\ obits[r] < MaxEntries
  /\ obits' = [obits EXCEPT ![r] = @ + 1]
  /\ \/ hasObits /\ UNCHANGED <<hasObits, deathRefs, current, record>>
     \/ /\ ~hasObits /\ hasObits' = TRUE
        /\ deathRefs' = deathRefs + 1
        /\ \E d \in Records : record[d] = "free" /\ RequestDeathNotification(d)
  /\ UNCHANGED <<obitsSent, alive, held, destroyed, dead, threadVars>>

(* unlinkToDeath() that returns NO_ERROR.                                  *)
UnlinkToDeath(r) ==
  /\ held /\ ~obitsSent /\ obits[r] > 0
  /\ obits' = [obits EXCEPT ![r] = @ - 1]
  /\ \/ obits' # None /\ UNCHANGED <<hasObits, current, record>>
     \/ obits' = None /\ ClearDeathNotification /\ hasObits' = FALSE
  /\ UNCHANGED <<obitsSent, alive, lifeVars, dead, threadVars>>

(* transact() whose status is DEAD_OBJECT.  The driver gives it for a dead *)
(* remote; a live remote may also reply it, as the status of its own       *)
(* onTransact(), and waitForResponse() hands that on.                      *)
TransactGetsDeadObject ==
  /\ held /\ alive
  /\ alive' = FALSE
  /\ UNCHANGED <<listVars, lifeVars, driverVars, threadVars>>

(* ~BpBinder, when no reference is left: deletes a list it still has and   *)
(* calls its notification off.                                             *)
DeleteWhen(unreferenced) ==
  /\ destroyed' = unreferenced
  /\ IF unreferenced /\ hasObits
     THEN ClearDeathNotification /\ hasObits' = FALSE /\ obits' = None
     ELSE UNCHANGED <<current, record, hasObits, obits>>

(* The last strong reference goes; another comes for the same handle while *)
(* the proxy lives (ProcessState::getStrongProxyForHandle).                *)
DropProxy ==
  /\ held
  /\ held' = FALSE
  /\ DeleteWhen(deathRefs = 0)
  /\ UNCHANGED <<obitsSent, alive, deathRefs, dead, threadVars>>

GetProxy ==
  /\ ~held /\ ~destroyed
  /\ held' = TRUE
  /\ UNCHANGED <<listVars, alive, deathRefs, destroyed, driverVars, threadVars>>

-----------------------------------------------------------------------------
(* The handlers, on pool threads *)

(* Reading from the driver: a BINDER_WORK_DEAD_BINDER as BR_DEAD_BINDER,   *)
(* or a BINDER_WORK_CLEAR_DEATH_NOTIFICATION as its BR_..._DONE.           *)
Read(t) ==
  /\ pc[t] = "idle"
  /\ \E d \in Records :
       \/ /\ record[d] \in {"queued", "queuedClear"}
          /\ record' = [record EXCEPT ![d] =
                          IF @ = "queued" THEN "delivered" ELSE "deliveredClear"]
          /\ pc' = [pc EXCEPT ![t] = "dead"]
       \/ /\ record[d] = "clear"
          /\ record' = [record EXCEPT ![d] = "free"]
          /\ pc' = [pc EXCEPT ![t] = "clearing"]
  /\ UNCHANGED <<listVars, alive, lifeVars, dead, current, report, told>>

(* sendObituary() up to its lock: it returns at once if the obituaries     *)
(* were sent.                                                              *)
SendObituary(t) ==
  /\ pc[t] = "dead"
  /\ alive' = FALSE
  /\ pc' = [pc EXCEPT ![t] = IF obitsSent THEN "done" ELSE "before"]
  /\ UNCHANGED <<listVars, lifeVars, driverVars, report, told>>

(* Under its lock: it takes the list and calls the notification off; and   *)
(* variants that leave the list to the next, or the notification on.       *)
TakeObituaries(t) ==
  /\ pc[t] = "before"
  /\ report' = [report EXCEPT ![t] = obits]
  /\ pc' = [pc EXCEPT ![t] = "reporting"]
  /\ obitsSent' = TRUE

LockAndShareList(t) ==
  /\ TakeObituaries(t)
  /\ IF hasObits THEN ClearDeathNotification ELSE UNCHANGED <<current, record>>
  /\ UNCHANGED <<obits, hasObits, alive, lifeVars, dead, told>>

LockAndKeepNotification(t) ==
  /\ TakeObituaries(t)
  /\ obits' = None /\ hasObits' = FALSE
  /\ UNCHANGED <<alive, lifeVars, driverVars, told>>

LockObituaries(t) ==
  /\ TakeObituaries(t)
  /\ IF hasObits THEN ClearDeathNotification ELSE UNCHANGED <<current, record>>
  /\ obits' = None /\ hasObits' = FALSE
  /\ UNCHANGED <<alive, lifeVars, dead, told>>

(* reportOneDeath(), for the recipients that still exist.                  *)
ReportOneDeath(t, r) ==
  /\ pc[t] = "reporting" /\ report[t][r] > 0
  /\ report' = [report EXCEPT ![t][r] = @ - 1]
  /\ told' = [told EXCEPT ![r] = @ + 1]
  /\ UNCHANGED <<listVars, alive, lifeVars, driverVars, pc>>

(* sendObituary() returns, and BC_DEAD_BINDER_DONE goes to the driver.     *)
AllReported(t) ==
  /\ pc[t] = "reporting" /\ report[t] = None
  /\ pc' = [pc EXCEPT ![t] = "done"]
  /\ UNCHANGED <<listVars, alive, lifeVars, driverVars, report, told>>

SayDone(t) ==
  /\ pc[t] = "done"
  /\ DeadBinderDone
  /\ pc' = [pc EXCEPT ![t] = "idle"]
  /\ UNCHANGED <<listVars, alive, lifeVars, dead, current, report, told>>

(* BR_CLEAR_DEATH_NOTIFICATION_DONE: the driver's reference is given back. *)
ClearDone(t) ==
  /\ pc[t] = "clearing"
  /\ pc' = [pc EXCEPT ![t] = "idle"]
  /\ deathRefs' = deathRefs - 1
  /\ DeleteWhen(~held /\ deathRefs = 1)
  /\ UNCHANGED <<obitsSent, alive, held, dead, report, told>>

-----------------------------------------------------------------------------
Handle(t) ==
  \/ Read(t) \/ SendObituary(t) \/ LockObituaries(t)
  \/ \E r \in Recipients : ReportOneDeath(t, r)
  \/ AllReported(t) \/ SayDone(t) \/ ClearDone(t)

UserCall ==
  \/ \E r \in Recipients : LinkToDeath(r) \/ UnlinkToDeath(r)
  \/ TransactGetsDeadObject
  \/ DropProxy \/ GetProxy

Next == RemoteDies \/ UserCall \/ \E t \in Threads : Handle(t)

(* Pool threads loop in joinThreadPool() and finish what they handle.      *)
Spec == Init /\ [][Next]_vars /\ \A t \in Threads : WF_vars(Handle(t))

-----------------------------------------------------------------------------
(* Properties *)

TypeOK ==
  /\ obits \in [Recipients -> 0 .. MaxEntries]
  /\ hasObits \in BOOLEAN /\ obitsSent \in BOOLEAN /\ alive \in BOOLEAN
  /\ held \in BOOLEAN /\ deathRefs \in Nat /\ destroyed \in BOOLEAN
  /\ dead \in BOOLEAN
  /\ current \in Records \union {NoRecord}
  /\ record \in [Records -> RecordStates]
  /\ pc \in [Threads -> ThreadStates]
  /\ report \in [Threads -> [Recipients -> 0 .. MaxEntries]]
  /\ told \in [Recipients -> Nat]

(* The driver watches for the death exactly while somebody is linked, so   *)
(* no request is refused and no link goes unwatched.                       *)
WatchedWhileLinked ==
  /\ hasObits <=> current # NoRecord
  /\ hasObits <=> \E r \in Recipients : obits[r] > 0
  /\ obitsSent => ~hasObits

(* Every cookie the driver or a handler still has is covered by a weak     *)
(* reference of its own, so that no handler is run on a deleted proxy.     *)
PendingRecords == {d \in Records : record[d] # "free"}
Clearing == {t \in Threads : pc[t] = "clearing"}

CookiesAreCounted ==
  /\ deathRefs = Cardinality(PendingRecords) + Cardinality(Clearing)
  /\ destroyed => deathRefs = 0 /\ \A t \in Threads : pc[t] = "idle"

(* Every watch is settled once: called off by unlinkToDeath() and then     *)
(* never reported, or reported once, of a remote that did die; and after   *)
(* the death every one left is reported.                                   *)
Watches(r) == obits[r] + SumFunction([t \in Threads |-> report[t][r]])

Watch == INSTANCE DeathWatch WITH
  Watchers <- Recipients,
  watches  <- [r \in Recipients |-> Watches(r)]

EveryWatchIsSettled == Watch!Spec

(* A proxy nobody uses is deleted once its remote is dead: the reference   *)
(* taken for the driver always comes back.                                 *)
ProxyIsReclaimed == (dead /\ ~held) ~> (destroyed \/ held)

=============================================================================
