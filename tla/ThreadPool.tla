---------------------------- MODULE ThreadPool ----------------------------
(* The pool of threads that take a process's incoming calls: started by    *)
(* startThreadPool(), grown when the driver asks (ProcessState.cpp), and   *)
(* counted while they execute (IPCThreadState.cpp).  The driver is         *)
(* external: it asks for a thread, once at a time, when it hands out work  *)
(* and none is left that waits for some.                                   *)
EXTENDS Integers, Sequences, FiniteSets

CONSTANTS
  Pool,         \* the threads there may be
  Nobody,
  MaxCalls,     \* incoming calls of a behaviour
  StartedFirst  \* startThreadPool() comes before the first joinThreadPool()

ThreadPoolAssumption ==
  /\ IsFiniteSet(Pool) /\ Nobody \notin Pool
  /\ MaxCalls \in Nat /\ StartedFirst \in BOOLEAN

VARIABLES
  mThreadPoolStarted, mExecutingThreadsCount, mMaxThreads,
  state,      \* of each thread
  isMain,     \* the threads that joined as main ones
  mIn,        \* the commands each thread has read and not executed
  requested,  \* the driver has asked and no new thread has registered
  registered, \* threads that have, since it asked
  calls,      \* incoming calls nobody has taken
  arrived,    \* incoming calls so far
  blocked     \* a thread outside the pool in blockUntilThreadAvailable()

poolVars == <<mThreadPoolStarted, mExecutingThreadsCount, mMaxThreads, state,
              isMain, mIn, requested, registered, calls, arrived, blocked>>

Init ==
  /\ mThreadPoolStarted = FALSE /\ mExecutingThreadsCount = 0
  /\ mMaxThreads \in 1 .. Cardinality(Pool) - 2
  /\ state = [t \in Pool |-> "none"]
  /\ isMain = {}
  /\ mIn = [t \in Pool |-> <<>>]
  /\ requested = FALSE /\ registered = 0
  /\ calls = 0 /\ arrived = 0 /\ blocked = FALSE

In(s) == {t \in Pool : state[t] = s}
Spawned(t) == state' = [state EXCEPT ![t] = "spawned"]

(* Whatever thread is the next one.                                        *)
Fresh == IF In("none") = {} THEN Nobody ELSE CHOOSE t \in In("none") : TRUE

(* The first call starts a main thread.                                    *)
StartThreadPool ==
  /\ ~ mThreadPoolStarted /\ Fresh # Nobody
  /\ mThreadPoolStarted' = TRUE
  /\ Spawned(Fresh) /\ isMain' = isMain \union {Fresh}
  /\ UNCHANGED <<mExecutingThreadsCount, mMaxThreads, mIn, requested,
                 registered, calls, arrived, blocked>>

(* The process's own thread joins, once.                                   *)
JoinThreadPool ==
  /\ StartedFirst => mThreadPoolStarted
  /\ Fresh # Nobody
  /\ Cardinality(isMain) < (IF mThreadPoolStarted THEN 2 ELSE 1)
  /\ Spawned(Fresh) /\ isMain' = isMain \union {Fresh}
  /\ UNCHANGED <<mThreadPoolStarted, mExecutingThreadsCount, mMaxThreads, mIn,
                 requested, registered, calls, arrived, blocked>>

(* What joinThreadPool() writes first: the driver knows the thread, and    *)
(* that it has come if it asked for it.                                    *)
EnterLooper(t) ==
  /\ state[t] = "spawned"
  /\ state' = [state EXCEPT ![t] = "ready"]
  /\ requested' = (requested /\ t \in isMain)
  /\ registered' = IF t \in isMain THEN registered ELSE registered + 1
  /\ UNCHANGED <<mThreadPoolStarted, mExecutingThreadsCount, mMaxThreads,
                 isMain, mIn, calls, arrived, blocked>>

Arrive ==
  /\ arrived < MaxCalls
  /\ arrived' = arrived + 1 /\ calls' = calls + 1
  /\ UNCHANGED <<mThreadPoolStarted, mExecutingThreadsCount, mMaxThreads, state,
                 isMain, mIn, requested, registered, blocked>>

(* The driver hands out a call, and asks for a thread before it if it is   *)
(* time to.                                                                *)
Asks(t) ==
  ~ requested /\ In("ready") = {t} /\ registered < mMaxThreads

TalkWithDriver(t) ==
  /\ state[t] = "ready" /\ mIn[t] = <<>> /\ calls > 0
  /\ calls' = calls - 1
  /\ mIn' = [mIn EXCEPT ![t] =
               (IF Asks(t) THEN <<"BR_SPAWN_LOOPER">> ELSE <<>>)
                 \o <<"BR_TRANSACTION">>]
  /\ requested' = (requested \/ Asks(t))
  /\ state' = [state EXCEPT ![t] = "woken"]
  /\ UNCHANGED <<mThreadPoolStarted, mExecutingThreadsCount, mMaxThreads,
                 isMain, registered, arrived, blocked>>

(* getAndExecuteCommand() counts every command it executes; a call may     *)
(* wait for one of those that come after it.                               *)
Execute(t) ==
  /\ state[t] = "woken" /\ mIn[t] # <<>>
  /\ mExecutingThreadsCount' = mExecutingThreadsCount + 1
  /\ mIn' = [mIn EXCEPT ![t] = Tail(mIn[t])]
  /\ \/ /\ Head(mIn[t]) = "BR_SPAWN_LOOPER"
        /\ state' = [state EXCEPT ![t] = "spawning"]
     \/ /\ Head(mIn[t]) = "BR_TRANSACTION"
        /\ \/ state' = [state EXCEPT ![t] = "executing"]
           \/ /\ Cardinality(In("waiting")) < mMaxThreads
              /\ calls + MaxCalls - arrived > 0
              /\ state' = [state EXCEPT ![t] = "waiting"]
  /\ UNCHANGED <<mThreadPoolStarted, mMaxThreads, isMain, requested,
                 registered, calls, arrived, blocked>>

ExecutedUncounted(t) == UNCHANGED mExecutingThreadsCount

Executed(t) == mExecutingThreadsCount' = mExecutingThreadsCount - 1

SpawnPooledAsMain(t) ==
  /\ state[t] = "spawning"
  /\ state' = [u \in Pool |->
                 IF u = t THEN "woken"
                 ELSE IF u = Fresh /\ mThreadPoolStarted THEN "spawned"
                 ELSE state[u]]
  /\ isMain' = isMain \union {Fresh}
  /\ Executed(t)
  /\ UNCHANGED <<mThreadPoolStarted, mMaxThreads, mIn, requested,
                 registered, calls, arrived, blocked>>

SpawnPooledThread(t) ==
  /\ state[t] = "spawning"
  /\ state' = [u \in Pool |->
                 IF u = t THEN "woken"
                 ELSE IF u = Fresh /\ mThreadPoolStarted THEN "spawned"
                 ELSE state[u]]
  /\ Executed(t)
  /\ UNCHANGED <<mThreadPoolStarted, mMaxThreads, isMain, mIn, requested,
                 registered, calls, arrived, blocked>>

(* The call a waiting one waits for ends both.                             *)
EndOfCall(t) ==
  /\ state[t] = "executing"
  /\ state' = [u \in Pool |->
                 IF u = t THEN "ready"
                 ELSE IF state[u] = "waiting" THEN "executing" ELSE state[u]]
  /\ Executed(t)
  /\ UNCHANGED <<mThreadPoolStarted, mMaxThreads, isMain, mIn, requested,
                 registered, calls, arrived, blocked>>

BlockUntilThreadAvailable ==
  /\ ~ blocked /\ mExecutingThreadsCount >= mMaxThreads
  /\ blocked' = TRUE
  /\ UNCHANGED <<mThreadPoolStarted, mExecutingThreadsCount, mMaxThreads, state,
                 isMain, mIn, requested, registered, calls, arrived>>

Unblock ==
  /\ blocked /\ mExecutingThreadsCount < mMaxThreads
  /\ blocked' = FALSE
  /\ UNCHANGED <<mThreadPoolStarted, mExecutingThreadsCount, mMaxThreads, state,
                 isMain, mIn, requested, registered, calls, arrived>>

Proceed(t) ==
  \/ EnterLooper(t) \/ TalkWithDriver(t) \/ Execute(t)
  \/ SpawnPooledThread(t) \/ EndOfCall(t)

Next ==
  \/ StartThreadPool \/ JoinThreadPool \/ Arrive
  \/ \E t \in Pool : Proceed(t)
  \/ BlockUntilThreadAvailable \/ Unblock

Fairness ==
  /\ WF_poolVars(StartThreadPool)
  /\ WF_poolVars(Arrive)
  /\ WF_poolVars(Unblock)
  /\ \A t \in Pool : WF_poolVars(Proceed(t))

Spec == Init /\ [][Next]_poolVars /\ Fairness
-----------------------------------------------------------------------------
(* Every incoming call ends, also one that waits for another that comes    *)
(* after it: the pool grows while all its threads are busy.  And who waits *)
(* for a thread to be free goes on.                                        *)
EveryCallEnds ==
  /\ calls > 0 ~> calls = 0
  /\ \A t \in Pool : state[t] \in {"executing", "waiting"} ~> state[t] = "ready"
  /\ blocked ~> ~ blocked

(* The threads that execute are counted, and the driver is given no more   *)
(* threads than it was told of.                                            *)
ThreadsAreCounted ==
  /\ mExecutingThreadsCount =
       Cardinality(In("executing") \union In("waiting") \union In("spawning"))
  /\ registered + (IF requested THEN 1 ELSE 0) <= mMaxThreads
  /\ Cardinality(Pool \ (In("none") \union isMain)) <= mMaxThreads

=============================================================================
