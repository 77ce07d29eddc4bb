----------------------------- MODULE HandleTable -----------------------------
(***************************************************************************)
(* The proxies of remote objects in one process: the table of handles of   *)
(* native/libs/binder/ProcessState.cpp, the birth, revival and death of a  *)
(* BpBinder (BpBinder.cpp), and the reference commands its threads queue   *)
(* in their own mOut and write to the binder driver when they next talk to *)
(* it (IPCThreadState.cpp).                                                *)
(*                                                                         *)
(* getStrongProxyForHandle and expungeHandle run under mLock: a step each. *)
(* The reference counts of RefBase are atomic and no lock protects them;   *)
(* between the step that takes the last weak reference and the expunge the *)
(* proxy is still in the table.  What a thread queues in its mOut no other *)
(* thread sees, so queueing joins the step before it.                      *)
(***************************************************************************)
EXTENDS Naturals, Sequences, FiniteSets

CONSTANTS
  Threads,
  Handles,   \* handles other than 0, which the driver creates on demand
  Proxies,   \* BpBinder objects, reused once they are deleted
  NULL,
  MaxOut,    \* bound: commands in an mOut before its thread must write
  MaxRefs    \* bound: the driver's counts when a handle arrives

ASSUME HandleTableAssumption ==
  /\ NULL \notin Threads \union Handles \union Proxies
  /\ IsFiniteSet(Threads)
  /\ MaxOut \in Nat /\ MaxRefs \in Nat

VARIABLES
  table,      \* handle_entry::binder for each handle
  handle,     \* BpBinder::mHandle, NULL if there is no such object
  strong,     \* the strong count of each proxy
  weak,       \* its weak count: the strong references, and weak ones
  buffer,     \* the handle in the transaction each thread has read, or NULL
  mine,       \* the proxy each thread holds a strong reference to, or NULL
  dropping,   \* the proxy whose last references a thread is taking down
  out,        \* mOut of each thread
  drvStrong, drvWeak,  \* driver: the counts of the process's ref on a handle
  drvBuffers           \* driver: transaction buffers that hold the handle

counts == <<table, handle, strong, weak>>
threads == <<buffer, mine, dropping, out>>
driver == <<drvStrong, drvWeak, drvBuffers>>
vars == <<counts, threads, driver>>

Init ==
  /\ table = [h \in Handles |-> NULL]
  /\ handle = [p \in Proxies |-> NULL]
  /\ strong = [p \in Proxies |-> 0]
  /\ weak = [p \in Proxies |-> 0]
  /\ buffer = [t \in Threads |-> NULL]
  /\ mine = [t \in Threads |-> NULL]
  /\ dropping = [t \in Threads |-> NULL]
  /\ out = [t \in Threads |-> <<>>]
  /\ drvStrong = [h \in Handles |-> 0]
  /\ drvWeak = [h \in Handles |-> 0]
  /\ drvBuffers = [h \in Handles |-> 0]

Cmd(op, h) == [op |-> op, h |-> h]
Queue(t, cmds) ==
  /\ Len(out[t]) + Len(cmds) <= MaxOut
  /\ out' = [out EXCEPT ![t] = @ \o cmds]

-----------------------------------------------------------------------------
(* The driver *)

(* The process has a ref on the handle: without one a command is an error. *)
HasRef(h) == drvStrong[h] + drvWeak[h] + drvBuffers[h] > 0

Accepts(c) ==
  CASE c.op \in {"INCREFS", "ACQUIRE"} -> HasRef(c.h)
    [] c.op = "RELEASE"                -> drvStrong[c.h] > 0
    [] c.op = "DECREFS"                -> drvWeak[c.h] > 0
    [] c.op = "FREE_BUFFER"            -> drvBuffers[c.h] > 0

(* talkWithDriver() writes the mOut in order; the driver logs and ignores  *)
(* a command that is an error.                                             *)
Write(t) ==
  /\ out[t] # <<>>
  /\ LET c == Head(out[t])
         add(ops) == IF c.op \in ops THEN 1 ELSE 0
     IN IF Accepts(c)
        THEN /\ drvStrong' = [drvStrong EXCEPT ![c.h] =
                                @ + add({"ACQUIRE"}) - add({"RELEASE"})]
             /\ drvWeak' = [drvWeak EXCEPT ![c.h] =
                              @ + add({"INCREFS"}) - add({"DECREFS"})]
             /\ drvBuffers' = [drvBuffers EXCEPT ![c.h] = @ - add({"FREE_BUFFER"})]
        ELSE UNCHANGED driver
  /\ out' = [out EXCEPT ![t] = Tail(@)]
  /\ UNCHANGED <<counts, buffer, mine, dropping>>

(* A transaction that carries the handle arrives.  One ioctl writes before *)
(* it reads.                                                               *)
Receive(t, h) ==
  /\ buffer[t] = NULL /\ mine[t] = NULL /\ dropping[t] = NULL /\ out[t] = <<>>
  /\ drvStrong[h] + drvWeak[h] <= MaxRefs
  /\ buffer' = [buffer EXCEPT ![t] = h]
  /\ drvBuffers' = [drvBuffers EXCEPT ![h] = @ + 1]
  /\ UNCHANGED <<counts, mine, dropping, out, drvStrong, drvWeak>>

(* The Parcel goes, and with it the buffer: BC_FREE_BUFFER.                *)
FreeBuffer(t) ==
  /\ buffer[t] # NULL
  /\ Queue(t, <<Cmd("FREE_BUFFER", buffer[t])>>)
  /\ buffer' = [buffer EXCEPT ![t] = NULL]
  /\ UNCHANGED <<counts, mine, dropping, driver>>

-----------------------------------------------------------------------------
(* Proxies *)

(* A proxy that attemptIncWeak() can still reach.                          *)
Reachable(p) == p # NULL /\ weak[p] > 0

(* getStrongProxyForHandle() that makes a BpBinder: the handle has none,   *)
(* or one whose last reference is gone.  Its constructor queues BC_INCREFS,*)
(* the first strong reference BC_ACQUIRE; a variant queues only the first. *)
Create(t) ==
  LET h == buffer[t] IN
  /\ h # NULL /\ mine[t] = NULL /\ dropping[t] = NULL
  /\ ~Reachable(table[h])
  /\ \E p \in Proxies :
       /\ handle[p] = NULL
       /\ handle' = [handle EXCEPT ![p] = h]
       /\ strong' = [strong EXCEPT ![p] = 1]
       /\ weak' = [weak EXCEPT ![p] = 1]
       /\ table' = [table EXCEPT ![h] = p]
       /\ mine' = [mine EXCEPT ![t] = p]
  /\ UNCHANGED <<buffer, dropping, driver>>

NewProxyUnacquired(t) ==
  /\ Create(t)
  /\ Queue(t, <<Cmd("INCREFS", buffer[t])>>)

NewProxy(t) ==
  /\ Create(t)
  /\ Queue(t, <<Cmd("INCREFS", buffer[t]), Cmd("ACQUIRE", buffer[t])>>)

(* The same for a proxy that is still there, even with no strong reference *)
(* left: force_set() makes the first one again.                            *)
KnownProxy(t) ==
  LET p == table[buffer[t]] IN
  /\ buffer[t] # NULL /\ mine[t] = NULL /\ dropping[t] = NULL
  /\ Reachable(p)
  /\ strong' = [strong EXCEPT ![p] = @ + 1]
  /\ weak' = [weak EXCEPT ![p] = @ + 1]
  /\ mine' = [mine EXCEPT ![t] = p]
  /\ IF strong[p] = 0 THEN Queue(t, <<Cmd("ACQUIRE", buffer[t])>>) ELSE UNCHANGED out
  /\ UNCHANGED <<table, handle, buffer, dropping, driver>>

(* A thread copies the sp<> another one holds.                             *)
Copy(t, u) ==
  /\ mine[u] # NULL /\ mine[t] = NULL /\ dropping[t] = NULL
  /\ mine' = [mine EXCEPT ![t] = mine[u]]
  /\ strong' = [strong EXCEPT ![mine[u]] = @ + 1]
  /\ weak' = [weak EXCEPT ![mine[u]] = @ + 1]
  /\ UNCHANGED <<table, handle, buffer, dropping, out, driver>>

(* ~sp<>: decStrong(), and BC_RELEASE if it was the last, ...              *)
DropStrong(t) ==
  LET p == mine[t] IN
  /\ p # NULL
  /\ strong' = [strong EXCEPT ![p] = @ - 1]
  /\ IF strong[p] = 1 THEN Queue(t, <<Cmd("RELEASE", handle[p])>>) ELSE UNCHANGED out
  /\ mine' = [mine EXCEPT ![t] = NULL]
  /\ dropping' = [dropping EXCEPT ![t] = p]
  /\ UNCHANGED <<table, handle, weak, buffer, driver>>

(* ... then decWeak(): the proxy is to be deleted if that was the last.    *)
DropWeak(t) ==
  LET p == dropping[t] IN
  /\ p # NULL /\ weak[p] > 0
  /\ weak' = [weak EXCEPT ![p] = @ - 1]
  /\ dropping' = [dropping EXCEPT ![t] = IF weak[p] = 1 THEN p ELSE NULL]
  /\ UNCHANGED <<table, handle, strong, buffer, mine, out, driver>>

(* ~BpBinder: expungeHandle(), which leaves the entry alone if it has been *)
(* replaced, and BC_DECREFS; and variants that do not look, or forget it.  *)
Deleted(t, p) ==
  /\ handle' = [handle EXCEPT ![p] = NULL]
  /\ Queue(t, <<Cmd("DECREFS", handle[p])>>)
  /\ dropping' = [dropping EXCEPT ![t] = NULL]
  /\ UNCHANGED <<strong, weak, buffer, mine, driver>>

DeleteNotExpunging(t) ==
  LET p == dropping[t] IN
  /\ p # NULL /\ weak[p] = 0
  /\ Deleted(t, p)
  /\ UNCHANGED table

Delete(t) ==
  LET p == dropping[t] IN
  /\ p # NULL /\ weak[p] = 0
  /\ table' = [table EXCEPT ![handle[p]] = IF @ = p THEN NULL ELSE @]
  /\ Deleted(t, p)

-----------------------------------------------------------------------------
Next ==
  \E t \in Threads :
    \/ \E h \in Handles : Receive(t, h)
    \/ NewProxy(t) \/ KnownProxy(t)
    \/ \E u \in Threads : Copy(t, u)
    \/ FreeBuffer(t) \/ Write(t)
    \/ DropStrong(t) \/ DropWeak(t) \/ Delete(t)

Spec == Init /\ [][Next]_vars

-----------------------------------------------------------------------------
(* Properties *)

TypeOK ==
  /\ table \in [Handles -> Proxies \union {NULL}]
  /\ handle \in [Proxies -> Handles \union {NULL}]
  /\ strong \in [Proxies -> Nat] /\ weak \in [Proxies -> Nat]
  /\ buffer \in [Threads -> Handles \union {NULL}]
  /\ mine \in [Threads -> Proxies \union {NULL}]
  /\ dropping \in [Threads -> Proxies \union {NULL}]
  /\ \A t \in Threads : Len(out[t]) <= MaxOut
  /\ drvStrong \in [Handles -> Nat] /\ drvWeak \in [Handles -> Nat]
  /\ drvBuffers \in [Handles -> Nat]

(* A process never has two usable proxies for one remote object: users     *)
(* compare remote objects by the address of their proxy.                   *)
OneProxyPerHandle ==
  \A p, q \in Proxies :
    handle[p] # NULL /\ handle[p] = handle[q] /\ weak[p] > 0 /\ weak[q] > 0 => p = q

(* The table never points to a deleted BpBinder, so attemptIncWeak() is    *)
(* safe on what it finds there; and it finds every proxy that is in use.   *)
TableIsCurrent ==
  /\ \A h \in Handles : table[h] # NULL => handle[table[h]] = h
  /\ \A p \in Proxies : weak[p] > 0 => table[handle[p]] = p

(* While a thread holds a proxy the driver keeps the handle, and the       *)
(* remote object strongly, even if the commands of several threads reach   *)
(* the driver in another order than they were queued in.                   *)
HeldHandlesStayValid ==
  \A p \in Proxies : strong[p] > 0 => drvStrong[handle[p]] + drvBuffers[handle[p]] > 0

=============================================================================
