--------------------------- MODULE ProcessProofs ---------------------------
(***************************************************************************)
(* Proofs about the proxies of one process (HandleTable), for any finite   *)
(* set of threads, any handles and proxies and any bounds, alone and       *)
(* beside the loop of a pool thread (MCProcess).                           *)
(*                                                                         *)
(* The argument: a proxy's counts are the threads that hold it and those   *)
(* that take its last references down (CountsInv), so that one thread      *)
(* alone deletes it, and after the last.  The table has each proxy that    *)
(* can still be reached (TableIsCurrent).  The driver's strong count and   *)
(* the acquires on their way to it are at least the releases on their way, *)
(* and one more where a thread holds the proxy (DriverInv): an acquire is  *)
(* never refused, since the buffer its handle came in is freed after it    *)
(* (OrderInv).  There is no equality: a release that overtakes another     *)
(* thread's acquire is refused, and the driver keeps the reference.        *)
(*                                                                         *)
(* The second part is about a pool thread (IPCThreadState), for any        *)
(* callers and objects and any nesting of calls: first the identity it     *)
(* works under.  Then its calls: which activation begins which (Above), so *)
(* that the calls open are counted by the stack alone; and what the thread *)
(* is at, with what the driver may still send it (Phased), so that the     *)
(* driver's stack of transactions takes turns with the program's.  And     *)
(* then references: an object's strong count, with the acquires that come, *)
(* is what is owed to other processes, of whom at most one reference is    *)
(* known, given back or put off, and what activations hold (RefsInv).      *)
(***************************************************************************)
EXTENDS MCProcess, CountingLemmas

(* How many threads hold a proxy, take it down, have read its handle.      *)
Held(p) == Cardinality(Having(Threads, mine, p))
Dropped(p) == Cardinality(Having(Threads, dropping, p))
Reading(h) == Cardinality(Having(Threads, buffer, h))

Commands ==
  [op : {"INCREFS", "ACQUIRE", "RELEASE", "DECREFS", "FREE_BUFFER"}, h : Handles]

(* How often a command is on its way to the driver.                        *)
OnTheWay(op, h) == Cardinality(Queued(Threads, MaxOut, out, Cmd(op, h)))

QueuesOK == out \in [Threads -> Seq(Commands)]

(* A proxy that can be reached counts who refers to it; of one that cannot *)
(* a single thread is left, which deletes it.                              *)
CountsInv ==
  /\ \A p \in Proxies :
       /\ strong[p] = Held(p)
       /\ weak[p] > 0 => handle[p] # NULL /\ weak[p] = Held(p) + Dropped(p)
       /\ weak[p] = 0 => Held(p) = 0 /\ Dropped(p) = IF handle[p] = NULL THEN 0 ELSE 1
  /\ \A t \in Threads : mine[t] = NULL \/ dropping[t] = NULL

DriverInv ==
  /\ \A h \in Handles :
       /\ drvBuffers[h] >= Reading(h) + OnTheWay("FREE_BUFFER", h)
       /\ drvStrong[h] + OnTheWay("ACQUIRE", h) >= OnTheWay("RELEASE", h)
  /\ \A p \in Proxies : strong[p] > 0 =>
       drvStrong[handle[p]] + OnTheWay("ACQUIRE", handle[p])
         >= OnTheWay("RELEASE", handle[p]) + 1

(* The buffer b that an acquire's handle came in is freed after it.        *)
Ordered(q, b) ==
  \A i \in 1 .. Len(q) : q[i].op = "ACQUIRE" =>
    b = q[i].h \/ \E j \in i + 1 .. Len(q) : q[j] = Cmd("FREE_BUFFER", q[i].h)

OrderInv == \A t \in Threads : Ordered(out[t], buffer[t])

ProxiesInv == TypeOK /\ QueuesOK /\ CountsInv /\ TableIsCurrent /\ DriverInv /\ OrderInv

-----------------------------------------------------------------------------
(* What a step does to the queues and to the counts of threads *)

LEMMA ThreadsAreFinite ==
  /\ IsFiniteSet(Threads) /\ MaxOut \in Nat /\ NULL \notin Threads
  /\ NULL \notin Handles /\ NULL \notin Proxies
  BY HandleTableAssumption

LEMMA CountsAreNat ==
  /\ \A p : Held(p) \in Nat /\ Dropped(p) \in Nat
  /\ \A h : Reading(h) \in Nat
  /\ \A op, h : OnTheWay(op, h) \in Nat
  /\ \A t \in Threads : Held(mine[t]) > 0 /\ Dropped(dropping[t]) > 0 /\ Reading(buffer[t]) > 0
<1> USE ThreadsAreFinite
<1>1. \A p : Held(p) \in Nat /\ Dropped(p) \in Nat
  BY HavingIsFinite DEF Held, Dropped
<1>2. \A h : Reading(h) \in Nat
  BY HavingIsFinite DEF Reading
<1>3. \A op, h : OnTheWay(op, h) \in Nat
  BY QueuedIsFinite DEF OnTheWay
<1>4. \A t \in Threads : Held(mine[t]) > 0 /\ Dropped(dropping[t]) > 0 /\ Reading(buffer[t]) > 0
  BY HavingIsFinite DEF Held, Dropped, Reading
<1> QED
  BY <1>1, <1>2, <1>3, <1>4

LEMMA HeldChanges ==
  ASSUME TypeOK, NEW t \in Threads, NEW y, mine' = [mine EXCEPT ![t] = y]
  PROVE  \A p : Held(p)' = Held(p) + (IF y = p THEN 1 ELSE 0) - (IF mine[t] = p THEN 1 ELSE 0)
<1>1. mine'[t] = y /\ \A u \in Threads \ {t} : mine'[u] = mine[u]
  BY DEF TypeOK
<1>2. \A x : Recounted(Held(x)', Held(x), x, mine[t], mine'[t])
  BY <1>1, HavingChanges, ThreadsAreFinite DEF Held
<1> QED
  BY <1>1, <1>2 DEF Recounted

LEMMA DroppedChanges ==
  ASSUME TypeOK, NEW t \in Threads, NEW y, dropping' = [dropping EXCEPT ![t] = y]
  PROVE  \A p : Dropped(p)' = Dropped(p) + (IF y = p THEN 1 ELSE 0)
                                         - (IF dropping[t] = p THEN 1 ELSE 0)
<1>1. dropping'[t] = y /\ \A u \in Threads \ {t} : dropping'[u] = dropping[u]
  BY DEF TypeOK
<1>2. \A x : Recounted(Dropped(x)', Dropped(x), x, dropping[t], dropping'[t])
  BY <1>1, HavingChanges, ThreadsAreFinite DEF Dropped
<1> QED
  BY <1>1, <1>2 DEF Recounted

(* A thread takes a proxy in hand, or lets it go.                          *)
LEMMA HeldTaken ==
  ASSUME TypeOK, NEW t \in Threads, NEW p \in Proxies, mine[t] = NULL,
         mine' = [mine EXCEPT ![t] = p]
  PROVE  Held(p)' = Held(p) + 1 /\ \A q \in Proxies \ {p} : Held(q)' = Held(q)
<1>1. \A q : Held(q)' = Held(q) + (IF p = q THEN 1 ELSE 0) - (IF mine[t] = q THEN 1 ELSE 0)
  BY HeldChanges
<1>2. \A q : Held(q) \in Nat
  BY CountsAreNat
<1>3. \A q \in Proxies : mine[t] # q
  BY ThreadsAreFinite
<1>4. Held(p)' = Held(p) + 1
  BY <1>1, <1>2, <1>3
<1>5. ASSUME NEW q \in Proxies \ {p} PROVE Held(q)' = Held(q)
  BY <1>1, <1>2, <1>3
<1> QED
  BY <1>4, <1>5

LEMMA HeldGiven ==
  ASSUME TypeOK, NEW t \in Threads, NEW p \in Proxies, mine[t] = p,
         mine' = [mine EXCEPT ![t] = NULL]
  PROVE  Held(p)' = Held(p) - 1 /\ \A q \in Proxies \ {p} : Held(q)' = Held(q)
<1>1. \A q : Held(q)' = Held(q) + (IF NULL = q THEN 1 ELSE 0) - (IF mine[t] = q THEN 1 ELSE 0)
  BY HeldChanges
<1>2. \A q : Held(q) \in Nat
  BY CountsAreNat
<1>3. NULL \notin Proxies
  BY ThreadsAreFinite
<1>4. Held(p)' = Held(p) - 1
  BY <1>1, <1>2, <1>3
<1>5. ASSUME NEW q \in Proxies \ {p} PROVE Held(q)' = Held(q)
  BY <1>1, <1>2, <1>3
<1> QED
  BY <1>4, <1>5

(* A thread begins to take a proxy down, or is done with it.               *)
LEMMA DroppedTaken ==
  ASSUME TypeOK, NEW t \in Threads, NEW p \in Proxies, dropping[t] = NULL,
         dropping' = [dropping EXCEPT ![t] = p]
  PROVE  Dropped(p)' = Dropped(p) + 1 /\ \A q \in Proxies \ {p} : Dropped(q)' = Dropped(q)
<1>1. \A q : Dropped(q)' = Dropped(q) + (IF p = q THEN 1 ELSE 0)
                                       - (IF dropping[t] = q THEN 1 ELSE 0)
  BY DroppedChanges
<1>2. \A q : Dropped(q) \in Nat
  BY CountsAreNat
<1>3. \A q \in Proxies : dropping[t] # q
  BY ThreadsAreFinite
<1>4. Dropped(p)' = Dropped(p) + 1
  BY <1>1, <1>2, <1>3
<1>5. ASSUME NEW q \in Proxies \ {p} PROVE Dropped(q)' = Dropped(q)
  BY <1>1, <1>2, <1>3
<1> QED
  BY <1>4, <1>5

LEMMA DroppedGiven ==
  ASSUME TypeOK, NEW t \in Threads, NEW p \in Proxies, dropping[t] = p,
         dropping' = [dropping EXCEPT ![t] = NULL]
  PROVE  Dropped(p)' = Dropped(p) - 1 /\ \A q \in Proxies \ {p} : Dropped(q)' = Dropped(q)
<1>1. \A q : Dropped(q)' = Dropped(q) + (IF NULL = q THEN 1 ELSE 0)
                                       - (IF dropping[t] = q THEN 1 ELSE 0)
  BY DroppedChanges
<1>2. \A q : Dropped(q) \in Nat
  BY CountsAreNat
<1>3. NULL \notin Proxies
  BY ThreadsAreFinite
<1>4. Dropped(p)' = Dropped(p) - 1
  BY <1>1, <1>2, <1>3
<1>5. ASSUME NEW q \in Proxies \ {p} PROVE Dropped(q)' = Dropped(q)
  BY <1>1, <1>2, <1>3
<1> QED
  BY <1>4, <1>5

LEMMA ReadingChanges ==
  ASSUME TypeOK, NEW t \in Threads, NEW y, buffer' = [buffer EXCEPT ![t] = y]
  PROVE  \A h : Reading(h)' = Reading(h) + (IF y = h THEN 1 ELSE 0)
                                         - (IF buffer[t] = h THEN 1 ELSE 0)
<1>1. buffer'[t] = y /\ \A u \in Threads \ {t} : buffer'[u] = buffer[u]
  BY DEF TypeOK
<1>2. \A x : Recounted(Reading(x)', Reading(x), x, buffer[t], buffer'[t])
  BY <1>1, HavingChanges, ThreadsAreFinite DEF Reading
<1> QED
  BY <1>1, <1>2 DEF Recounted

LEMMA Untouched ==
  /\ mine' = mine => \A p : Held(p)' = Held(p)
  /\ dropping' = dropping => \A p : Dropped(p)' = Dropped(p)
  /\ buffer' = buffer => \A h : Reading(h)' = Reading(h)
  /\ out' = out => \A op, h : OnTheWay(op, h)' = OnTheWay(op, h)
  BY DEF Held, Dropped, Reading, OnTheWay

(* What is queued comes after what was.                                    *)
LEMMA QueueAppends ==
  ASSUME QueuesOK, NEW t \in Threads, NEW cmds \in Seq(Commands), Queue(t, cmds)
  PROVE  /\ QueuesOK' /\ Len(out[t]) + Len(cmds) <= MaxOut
         /\ out' = [out EXCEPT ![t] = out[t] \o cmds]
         /\ \A u \in Threads \ {t} : out'[u] = out[u]
         /\ out'[t] = out[t] \o cmds /\ Len(out[t]) \in Nat /\ Len(cmds) \in Nat
         /\ Len(out'[t]) = Len(out[t]) + Len(cmds)
         /\ \A i \in 1 .. Len(out'[t]) : out'[t][i] = IF i <= Len(out[t]) THEN out[t][i]
                                                      ELSE cmds[i - Len(out[t])]
<1>1. out' = [out EXCEPT ![t] = out[t] \o cmds] /\ Len(out[t]) + Len(cmds) <= MaxOut
  BY DEF Queue
<1>2. out[t] \in Seq(Commands)
  BY DEF QueuesOK
<1>3. /\ out[t] \o cmds \in Seq(Commands) /\ Len(out[t] \o cmds) = Len(out[t]) + Len(cmds)
      /\ \A i \in 1 .. Len(out[t]) + Len(cmds) : (out[t] \o cmds)[i] =
           IF i <= Len(out[t]) THEN out[t][i] ELSE cmds[i - Len(out[t])]
  BY <1>2, ConcatProperties
<1>4. QueuesOK'
  BY <1>1, <1>3 DEF QueuesOK
<1>5. out'[t] = out[t] \o cmds /\ \A u \in Threads \ {t} : out'[u] = out[u]
  BY <1>1 DEF QueuesOK
<1>6. Len(out[t]) \in Nat /\ Len(cmds) \in Nat
  BY <1>2, LenProperties
<1> QED
  BY <1>1, <1>3, <1>4, <1>5, <1>6

LEMMA QueueCounts ==
  ASSUME QueuesOK, NEW t \in Threads, NEW cmds \in Seq(Commands), Queue(t, cmds),
         NEW op, NEW h
  PROVE  /\ (\A i \in 1 .. Len(cmds) : cmds[i] # Cmd(op, h)) =>
              OnTheWay(op, h)' = OnTheWay(op, h)
         /\ \A k \in 1 .. Len(cmds) :
              (\A i \in 1 .. Len(cmds) : cmds[i] = Cmd(op, h) <=> i = k) =>
              OnTheWay(op, h)' = OnTheWay(op, h) + 1
<1>1. Len(out[t]) + Len(cmds) <= MaxOut /\ Appends(Threads, Commands, out, out', t, cmds)
  BY QueueAppends DEF QueuesOK, Appends
<1>2. ASSUME \A i \in 1 .. Len(cmds) : cmds[i] # Cmd(op, h)
      PROVE  OnTheWay(op, h)' = OnTheWay(op, h)
  BY <1>1, <1>2, QueueOthers, ThreadsAreFinite DEF OnTheWay
<1>3. ASSUME NEW k \in 1 .. Len(cmds), \A i \in 1 .. Len(cmds) : cmds[i] = Cmd(op, h) <=> i = k
      PROVE  OnTheWay(op, h)' = OnTheWay(op, h) + 1
  <2>1. OneMoreThan(OnTheWay(op, h)', OnTheWay(op, h))
    BY <1>1, <1>3, QueueOne, ThreadsAreFinite DEF OnTheWay
  <2> QED
    BY <2>1 DEF OneMoreThan
<1> QED
  BY <1>2, <1>3

(* One command is queued.                                                  *)
LEMMA QueueSingle ==
  ASSUME QueuesOK, NEW t \in Threads, NEW c \in Commands, Queue(t, <<c>>)
  PROVE  \A op, h : OnTheWay(op, h)' = OnTheWay(op, h) + (IF c = Cmd(op, h) THEN 1 ELSE 0)
<1> DEFINE cmds == <<c>>
<1>1. cmds \in Seq(Commands) /\ Len(cmds) = 1 /\ cmds[1] = c
  OBVIOUS
<1>2. \A i \in 1 .. Len(cmds) : i = 1 /\ cmds[i] = c
  BY <1>1
<1> HIDE DEF cmds
<1> SUFFICES ASSUME NEW op, NEW h
             PROVE  OnTheWay(op, h)' = OnTheWay(op, h) + (IF c = Cmd(op, h) THEN 1 ELSE 0)
  OBVIOUS
<1>3. Queue(t, cmds)
  BY DEF cmds
<1>4. CASE c = Cmd(op, h)
  <2>1. 1 \in 1 .. Len(cmds) /\ \A i \in 1 .. Len(cmds) : cmds[i] = Cmd(op, h) <=> i = 1
    BY <1>1, <1>2, <1>4
  <2> QED
    BY <1>1, <1>3, <1>4, <2>1, QueueCounts
<1>5. CASE c # Cmd(op, h)
  <2>1. \A i \in 1 .. Len(cmds) : cmds[i] # Cmd(op, h)
    BY <1>2, <1>5
  <2>2. OnTheWay(op, h)' = OnTheWay(op, h)
    BY <1>1, <1>3, <2>1, QueueCounts
  <2> QED
    BY <1>5, <2>2, CountsAreNat
<1> QED
  BY <1>4, <1>5

(* A new proxy's two commands are queued.                                  *)
LEMMA QueuePair ==
  ASSUME QueuesOK, NEW t \in Threads, NEW g \in Handles,
         Queue(t, <<Cmd("INCREFS", g), Cmd("ACQUIRE", g)>>)
  PROVE  /\ \A h : OnTheWay("ACQUIRE", h)' = OnTheWay("ACQUIRE", h) + (IF h = g THEN 1 ELSE 0)
         /\ \A h : OnTheWay("RELEASE", h)' = OnTheWay("RELEASE", h)
         /\ \A h : OnTheWay("FREE_BUFFER", h)' = OnTheWay("FREE_BUFFER", h)
<1> DEFINE cmds == <<Cmd("INCREFS", g), Cmd("ACQUIRE", g)>>
<1>1. cmds \in Seq(Commands) /\ Len(cmds) = 2
  BY DEF Commands, Cmd
<1>2. cmds[1].op = "INCREFS" /\ cmds[2] = Cmd("ACQUIRE", g)
  BY DEF Cmd
<1>3. \A i \in 1 .. Len(cmds) : i = 1 \/ i = 2
  BY <1>1
<1> HIDE DEF cmds
<1>4. Queue(t, cmds)
  BY DEF cmds
<1>5. \A op, h : Cmd(op, h).op = op /\ Cmd(op, h).h = h
  BY DEF Cmd
<1>6. ASSUME NEW op, NEW h, op # "INCREFS", op # "ACQUIRE" \/ h # g
      PROVE  OnTheWay(op, h)' = OnTheWay(op, h)
  <2>1. \A i \in 1 .. Len(cmds) : cmds[i] # Cmd(op, h)
    BY <1>2, <1>3, <1>5, <1>6
  <2> QED
    BY <1>1, <1>4, <2>1, QueueCounts
<1>7. OnTheWay("ACQUIRE", g)' = OnTheWay("ACQUIRE", g) + 1
  <2>1. 2 \in 1 .. Len(cmds)
        /\ \A i \in 1 .. Len(cmds) : cmds[i] = Cmd("ACQUIRE", g) <=> i = 2
    BY <1>1, <1>2, <1>3, <1>5
  <2> QED
    BY <1>1, <1>4, <2>1, QueueCounts
<1>8. \A h : OnTheWay("RELEASE", h)' = OnTheWay("RELEASE", h)
  BY <1>6
<1>9. \A h : OnTheWay("FREE_BUFFER", h)' = OnTheWay("FREE_BUFFER", h)
  BY <1>6
<1>10. \A h : h # g => OnTheWay("ACQUIRE", h)' = OnTheWay("ACQUIRE", h)
  BY <1>6
<1> QED
  BY <1>7, <1>8, <1>9, <1>10, CountsAreNat

(* A command is written.                                                   *)
LEMMA WriteTakes ==
  ASSUME QueuesOK, TypeOK, NEW t \in Threads, Write(t)
  PROVE  /\ QueuesOK' /\ Head(out[t]) \in Commands /\ Head(out[t]) = out[t][1]
         /\ \A u \in Threads \ {t} : out'[u] = out[u]
         /\ Len(out[t]) \in Nat \ {0} /\ Len(out'[t]) = Len(out[t]) - 1
         /\ \A i \in 1 .. Len(out'[t]) : out'[t][i] = out[t][i + 1]
         /\ \A op, h : OnTheWay(op, h) = OnTheWay(op, h)'
                                         + (IF Head(out[t]) = Cmd(op, h) THEN 1 ELSE 0)
<1>1. /\ out' = [out EXCEPT ![t] = Tail(out[t])] /\ out[t] # << >>
      /\ out[t] \in Seq(Commands) /\ Len(out[t]) <= MaxOut
  BY DEF Write, QueuesOK, TypeOK
<1>2. /\ Head(out[t]) \in Commands /\ Tail(out[t]) \in Seq(Commands)
      /\ Len(Tail(out[t])) = Len(out[t]) - 1 /\ Len(out[t]) \in Nat \ {0}
      /\ \A i \in 1 .. Len(Tail(out[t])) : Tail(out[t])[i] = out[t][i + 1]
  BY <1>1, HeadTailProperties, EmptySeq
<1>3. QueuesOK' /\ out'[t] = Tail(out[t]) /\ \A u \in Threads \ {t} : out'[u] = out[u]
  BY <1>1, <1>2 DEF QueuesOK
<1>4. Takes(Threads, Commands, out, out', t)
  BY <1>1, <1>3 DEF Takes
<1>5. \A op, h : IF Head(out[t]) = Cmd(op, h)
                 THEN OneMoreThan(OnTheWay(op, h), OnTheWay(op, h)')
                 ELSE OnTheWay(op, h) = OnTheWay(op, h)'
  BY <1>1, <1>4, QueueTail, ThreadsAreFinite DEF OnTheWay
<1>6. \A op, h : OnTheWay(op, h)' \in Nat
  BY QueuedIsFinite, ThreadsAreFinite DEF OnTheWay
<1>7. Head(out[t]) = out[t][1]
  BY <1>1
<1> QED
  BY <1>2, <1>3, <1>5, <1>6, <1>7 DEF OneMoreThan

(* An acquire on its way will be accepted: its buffer keeps the handle.    *)
LEMMA AcquireIsAccepted ==
  ASSUME ProxiesInv, NEW h \in Handles, OnTheWay("ACQUIRE", h) > 0
  PROVE  drvBuffers[h] > 0
<1> DEFINE Q(op) == Queued(Threads, MaxOut, out, Cmd(op, h))
<1>1. PICK x \in Q("ACQUIRE") : TRUE
  <2>1. Q("ACQUIRE") # {}
    BY FS_EmptySet DEF OnTheWay
  <2> QED
    BY <2>1
<1>2. /\ x[1] \in Threads /\ x[2] \in 1 .. MaxOut /\ x[2] <= Len(out[x[1]])
      /\ out[x[1]][x[2]] = Cmd("ACQUIRE", h)
  BY <1>1 DEF Queued
<1>3. Len(out[x[1]]) \in Nat /\ Len(out[x[1]]) <= MaxOut /\ MaxOut \in Nat
  BY <1>2, LenProperties, ThreadsAreFinite DEF ProxiesInv, QueuesOK, TypeOK
<1>4. \/ buffer[x[1]] = h
      \/ \E j \in x[2] + 1 .. Len(out[x[1]]) : out[x[1]][j] = Cmd("FREE_BUFFER", h)
  BY <1>2, <1>3 DEF ProxiesInv, OrderInv, Ordered, Cmd
<1>5. CASE buffer[x[1]] = h
  <2>1. Reading(h) > 0
    BY <1>2, <1>5, CountsAreNat
  <2> QED
    BY <2>1, CountsAreNat DEF ProxiesInv, DriverInv, TypeOK
<1>6. CASE \E j \in x[2] + 1 .. Len(out[x[1]]) : out[x[1]][j] = Cmd("FREE_BUFFER", h)
  <2>1. PICK j \in x[2] + 1 .. Len(out[x[1]]) : out[x[1]][j] = Cmd("FREE_BUFFER", h)
    BY <1>6
  <2>2. j \in 1 .. MaxOut /\ j <= Len(out[x[1]])
    BY <1>2, <1>3, <2>1
  <2>3. <<x[1], j>> \in Q("FREE_BUFFER")
    BY <1>2, <2>1, <2>2 DEF Queued
  <2>4. OnTheWay("FREE_BUFFER", h) # 0
    <3>1. IsFiniteSet(Q("FREE_BUFFER"))
      BY QueuedIsFinite, ThreadsAreFinite
    <3> QED
      BY <2>3, <3>1, FS_EmptySet DEF OnTheWay
  <2> QED
    BY <2>4, CountsAreNat DEF ProxiesInv, DriverInv, TypeOK
<1> QED
  BY <1>4, <1>5, <1>6

(* Queueing keeps the order: what is acquired is so from the buffer at     *)
(* hand, and a buffer that goes is freed last.                             *)
LEMMA QueueKeepsOrder ==
  ASSUME QueuesOK, OrderInv, NEW t \in Threads, NEW cmds \in Seq(Commands), Queue(t, cmds),
         \A u \in Threads \ {t} : buffer'[u] = buffer[u],
         \/ /\ buffer'[t] = buffer[t]
            /\ \A i \in 1 .. Len(cmds) : cmds[i].op = "ACQUIRE" => cmds[i].h = buffer[t]
         \/ cmds = <<Cmd("FREE_BUFFER", buffer[t])>>
  PROVE  OrderInv'
<1>1. /\ \A u \in Threads \ {t} : out'[u] = out[u]
      /\ Len(out[t]) \in Nat /\ Len(cmds) \in Nat
      /\ Len(out'[t]) = Len(out[t]) + Len(cmds)
      /\ \A i \in 1 .. Len(out'[t]) : out'[t][i] = IF i <= Len(out[t]) THEN out[t][i]
                                                   ELSE cmds[i - Len(out[t])]
  BY QueueAppends
<1>2. Ordered(out'[t], buffer'[t])
  <2> SUFFICES ASSUME NEW i \in 1 .. Len(out'[t]), out'[t][i].op = "ACQUIRE"
               PROVE  \/ buffer'[t] = out'[t][i].h
                      \/ \E j \in i + 1 .. Len(out'[t]) :
                           out'[t][j] = Cmd("FREE_BUFFER", out'[t][i].h)
    BY DEF Ordered
  <2>1. CASE i <= Len(out[t])
    <3>1. i \in 1 .. Len(out[t]) /\ out'[t][i] = out[t][i]
      BY <1>1, <2>1
    <3>2. CASE buffer[t] = out[t][i].h
      <4>1. CASE buffer'[t] = buffer[t]
        BY <3>1, <3>2, <4>1
      <4>2. CASE cmds = <<Cmd("FREE_BUFFER", buffer[t])>>
        <5>1. Len(cmds) = 1 /\ cmds[1] = Cmd("FREE_BUFFER", buffer[t])
          BY <4>2
        <5> DEFINE j == Len(out[t]) + 1
        <5>a. j \in 1 .. Len(out'[t]) /\ ~ (j <= Len(out[t])) /\ j - Len(out[t]) = 1
              /\ j \in i + 1 .. Len(out'[t])
          BY <1>1, <2>1, <5>1
        <5>2. j \in i + 1 .. Len(out'[t]) /\ out'[t][j] = cmds[1]
          <6> HIDE DEF j
          <6> QED
            BY <1>1, <5>a
        <5> HIDE DEF j
        <5> QED
          BY <3>1, <3>2, <5>1, <5>2
      <4> QED
        BY <4>1, <4>2
    <3>3. CASE \E j \in i + 1 .. Len(out[t]) : out[t][j] = Cmd("FREE_BUFFER", out[t][i].h)
      <4>1. PICK j \in i + 1 .. Len(out[t]) : out[t][j] = Cmd("FREE_BUFFER", out[t][i].h)
        BY <3>3
      <4>2. j \in i + 1 .. Len(out'[t]) /\ out'[t][j] = out[t][j]
        BY <1>1, <4>1
      <4> QED
        BY <3>1, <4>1, <4>2
    <3> QED
      BY <3>1, <3>2, <3>3 DEF OrderInv, Ordered
  <2>2. CASE i > Len(out[t])
    <3>1. i - Len(out[t]) \in 1 .. Len(cmds) /\ out'[t][i] = cmds[i - Len(out[t])]
      BY <1>1, <2>2
    <3>2. cmds # <<Cmd("FREE_BUFFER", buffer[t])>>
      BY <3>1 DEF Cmd
    <3> QED
      BY <3>1, <3>2
  <2> QED
    BY <1>1, <2>1, <2>2
<1> QED
  BY <1>1, <1>2 DEF OrderInv

(* A proxy that can be reached is the table's for its handle: no other one *)
(* of the handle can be.                                                   *)
LEMMA OneReachable ==
  ASSUME ProxiesInv
  PROVE  /\ \A p \in Proxies : strong[p] > 0 => weak[p] > 0
         /\ \A p, q \in Proxies : weak[p] > 0 /\ weak[q] > 0 /\ handle[p] = handle[q] => p = q
         /\ \A p \in Proxies : weak[p] > 0 => handle[p] \in Handles
         /\ \A t \in Threads : mine[t] # NULL => strong[mine[t]] > 0 /\ handle[mine[t]] \in Handles
<1>1. \A p \in Proxies : strong[p] > 0 => weak[p] > 0
  BY CountsAreNat DEF ProxiesInv, CountsInv, TypeOK
<1>2. \A p, q \in Proxies : weak[p] > 0 /\ weak[q] > 0 /\ handle[p] = handle[q] => p = q
  BY DEF ProxiesInv, TableIsCurrent
<1>3. \A p \in Proxies : weak[p] > 0 => handle[p] \in Handles
  BY DEF ProxiesInv, CountsInv, TypeOK
<1>4. \A t \in Threads : mine[t] # NULL => strong[mine[t]] > 0
  BY CountsAreNat DEF ProxiesInv, CountsInv, TypeOK
<1> QED
  BY <1>1, <1>2, <1>3, <1>4 DEF ProxiesInv, TypeOK

-----------------------------------------------------------------------------
(* The steps of the process's threads *)

LEMMA ProxiesBegin ==
  ASSUME Init
  PROVE  ProxiesInv
<1> USE ThreadsAreFinite DEF Init
<1>1. TypeOK
  BY DEF TypeOK
<1>2. QueuesOK
  BY DEF QueuesOK
<1>3. \A p \in Proxies : Held(p) = 0 /\ Dropped(p) = 0
  <2>1. \A p \in Proxies : Having(Threads, mine, p) = {} /\ Having(Threads, dropping, p) = {}
    BY DEF Having
  <2> QED
    BY <2>1, FS_EmptySet DEF Held, Dropped
<1>4. CountsInv
  BY <1>3 DEF CountsInv
<1>5. TableIsCurrent
  BY DEF TableIsCurrent
<1>6. \A op, h : OnTheWay(op, h) = 0
  <2>1. \A op, h : Queued(Threads, MaxOut, out, Cmd(op, h)) = {}
    BY DEF Queued
  <2> QED
    BY <2>1, FS_EmptySet DEF OnTheWay
<1>7. \A h \in Handles : Reading(h) = 0
  <2>1. \A h \in Handles : Having(Threads, buffer, h) = {}
    BY DEF Having
  <2> QED
    BY <2>1, FS_EmptySet DEF Reading
<1>8. DriverInv
  BY <1>6, <1>7 DEF DriverInv
<1>9. OrderInv
  BY DEF OrderInv, Ordered
<1> QED
  BY <1>1, <1>2, <1>4, <1>5, <1>8, <1>9 DEF ProxiesInv

LEMMA ReceiveKeepsInv ==
  ASSUME ProxiesInv, NEW t \in Threads, NEW h \in Handles, Receive(t, h)
  PROVE  ProxiesInv'
<1> USE DEF ProxiesInv
<1>1. /\ buffer[t] = NULL /\ out[t] = << >>
      /\ buffer' = [buffer EXCEPT ![t] = h]
      /\ drvBuffers' = [drvBuffers EXCEPT ![h] = @ + 1]
      /\ UNCHANGED <<counts, mine, dropping, out, drvStrong, drvWeak>>
  BY DEF Receive
<1>2. TypeOK' /\ QueuesOK'
  BY <1>1 DEF TypeOK, QueuesOK, counts
<1>3. CountsInv' /\ TableIsCurrent'
  BY <1>1, Untouched DEF CountsInv, TableIsCurrent, counts
<1>4. DriverInv'
  <2> SUFFICES ASSUME NEW g \in Handles
               PROVE  drvBuffers'[g] >= Reading(g)' + OnTheWay("FREE_BUFFER", g)
    BY <1>1, Untouched DEF DriverInv, counts
  <2>1. Reading(g)' = Reading(g) + (IF h = g THEN 1 ELSE 0) - (IF buffer[t] = g THEN 1 ELSE 0)
    BY <1>1, ReadingChanges
  <2>2. buffer[t] # g
    BY <1>1, ThreadsAreFinite
  <2>3. drvBuffers'[g] = drvBuffers[g] + (IF h = g THEN 1 ELSE 0)
    BY <1>1 DEF TypeOK
  <2>4. Reading(g) \in Nat /\ OnTheWay("FREE_BUFFER", g) \in Nat /\ drvBuffers[g] \in Nat
    BY CountsAreNat DEF TypeOK
  <2>5. drvBuffers[g] >= Reading(g) + OnTheWay("FREE_BUFFER", g)
    BY DEF DriverInv
  <2> QED
    BY <2>1, <2>2, <2>3, <2>4, <2>5
<1>5. OrderInv'
  BY <1>1 DEF OrderInv, Ordered, TypeOK
<1> QED
  BY <1>2, <1>3, <1>4, <1>5

(* What a step that only queues asks of the driver's counts: the acquires  *)
(* and releases on their way keep up with the threads that hold a proxy.   *)
LEMMA QueuedInStep ==
  ASSUME ProxiesInv, UNCHANGED <<driver, buffer>>,
         \A h \in Handles : OnTheWay("FREE_BUFFER", h)' = OnTheWay("FREE_BUFFER", h),
         \A h \in Handles : OnTheWay("ACQUIRE", h)' >= OnTheWay("ACQUIRE", h),
         \A h \in Handles : OnTheWay("RELEASE", h)' = OnTheWay("RELEASE", h),
         \A p \in Proxies : strong'[p] > 0 => handle'[p] \in Handles,
         \A p \in Proxies, h \in Handles : strong'[p] > 0 /\ handle'[p] = h =>
           \/ strong[p] > 0 /\ handle[p] = h
           \/ OnTheWay("ACQUIRE", h)' = OnTheWay("ACQUIRE", h) + 1
  PROVE  DriverInv'
<1> USE DEF ProxiesInv
<1>1. \A h : Reading(h)' = Reading(h)
  BY Untouched
<1>2. drvStrong' = drvStrong /\ drvBuffers' = drvBuffers
  BY DEF driver
<1>3. \A h \in Handles : /\ OnTheWay("ACQUIRE", h) \in Nat /\ OnTheWay("RELEASE", h) \in Nat
                         /\ OnTheWay("ACQUIRE", h)' \in Nat /\ drvStrong[h] \in Nat
  <2>1. \A op, h : OnTheWay(op, h)' \in Nat
    BY QueuedIsFinite, ThreadsAreFinite DEF OnTheWay
  <2> QED
    BY <2>1, CountsAreNat DEF TypeOK
<1>4. \A h \in Handles : /\ drvBuffers'[h] >= Reading(h)' + OnTheWay("FREE_BUFFER", h)'
                         /\ drvStrong'[h] + OnTheWay("ACQUIRE", h)' >= OnTheWay("RELEASE", h)'
  BY <1>1, <1>2, <1>3 DEF DriverInv
<1>5. ASSUME NEW p \in Proxies, NEW g \in Handles, strong'[p] > 0, handle'[p] = g
      PROVE  drvStrong'[g] + OnTheWay("ACQUIRE", g)' >= OnTheWay("RELEASE", g)' + 1
  <2>1. drvStrong[g] + OnTheWay("ACQUIRE", g) >= OnTheWay("RELEASE", g)
    BY DEF DriverInv
  <2>2. CASE strong[p] > 0 /\ handle[p] = g
    <3>1. drvStrong[g] + OnTheWay("ACQUIRE", g) >= OnTheWay("RELEASE", g) + 1
      BY <2>2 DEF DriverInv
    <3> QED
      BY <1>2, <1>3, <3>1
  <2>3. CASE OnTheWay("ACQUIRE", g)' = OnTheWay("ACQUIRE", g) + 1
    BY <1>2, <1>3, <2>1, <2>3
  <2>4. \/ strong[p] > 0 /\ handle[p] = g
        \/ OnTheWay("ACQUIRE", g)' = OnTheWay("ACQUIRE", g) + 1
    BY <1>5
  <2> QED
    BY <2>2, <2>3, <2>4
<1>6. ASSUME NEW p \in Proxies, strong'[p] > 0
      PROVE  (drvStrong[handle[p]] + OnTheWay("ACQUIRE", handle[p])
               >= OnTheWay("RELEASE", handle[p]) + 1)'
  <2>1. PICK g \in Handles : g = handle'[p]
    BY <1>6
  <2>2. drvStrong'[g] + OnTheWay("ACQUIRE", g)' >= OnTheWay("RELEASE", g)' + 1
    BY <1>5, <1>6, <2>1
  <2> QED
    BY <2>1, <2>2
<1> QED
  BY <1>4, <1>6 DEF DriverInv

LEMMA NewProxyKeepsInv ==
  ASSUME ProxiesInv, NEW t \in Threads, NewProxy(t)
  PROVE  ProxiesInv'
<1> USE DEF ProxiesInv
<1>0. PICK h \in Handles : h = buffer[t]
  BY DEF NewProxy, Create, TypeOK
<1> DEFINE cmds == <<Cmd("INCREFS", h), Cmd("ACQUIRE", h)>>
<1>1. PICK p \in Proxies :
        /\ handle[p] = NULL
        /\ handle' = [handle EXCEPT ![p] = h]
        /\ strong' = [strong EXCEPT ![p] = 1]
        /\ weak' = [weak EXCEPT ![p] = 1]
        /\ table' = [table EXCEPT ![h] = p]
        /\ mine' = [mine EXCEPT ![t] = p]
  BY <1>0 DEF NewProxy, Create
<1>2. /\ buffer[t] = h /\ mine[t] = NULL /\ dropping[t] = NULL /\ ~Reachable(table[h])
      /\ UNCHANGED <<buffer, dropping, driver>>
      /\ Queue(t, cmds)
  BY <1>0 DEF NewProxy, Create
<1>3. cmds \in Seq(Commands)
  BY DEF Commands, Cmd
<1>4. /\ QueuesOK' /\ Len(out[t]) + Len(cmds) <= MaxOut
      /\ \A u \in Threads \ {t} : out'[u] = out[u]
      /\ Len(out'[t]) = Len(out[t]) + Len(cmds)
  BY <1>2, <1>3, QueueAppends
<1>5. TypeOK'
  <2>1. \A u \in Threads : Len(out'[u]) <= MaxOut
    BY <1>4 DEF TypeOK
  <2> QED
    BY <1>1, <1>2, <2>1 DEF TypeOK, driver
<1>6. weak[p] = 0 /\ strong[p] = 0 /\ Held(p) = 0 /\ Dropped(p) = 0
  BY <1>1 DEF CountsInv, TypeOK
<1>7. /\ Held(p)' = Held(p) + 1 /\ \A q \in Proxies \ {p} : Held(q)' = Held(q)
      /\ \A q \in Proxies : Dropped(q)' = Dropped(q)
  BY <1>1, <1>2, HeldTaken, Untouched
<1>8. CountsInv'
  <2>1. ASSUME NEW q \in Proxies, q # p
        PROVE  /\ Held(q)' = Held(q) /\ Dropped(q)' = Dropped(q)
               /\ strong'[q] = strong[q] /\ weak'[q] = weak[q] /\ handle'[q] = handle[q]
    BY <1>1, <1>7, <2>1 DEF TypeOK
  <2>2. /\ Held(p)' = 1 /\ Dropped(p)' = 0
        /\ strong'[p] = 1 /\ weak'[p] = 1 /\ handle'[p] = h /\ h # NULL
    BY <1>1, <1>2, <1>6, <1>7, ThreadsAreFinite DEF TypeOK
  <2>3. \A u \in Threads : mine'[u] = NULL \/ dropping'[u] = NULL
    BY <1>1, <1>2 DEF CountsInv, TypeOK
  <2> QED
    BY <2>1, <2>2, <2>3 DEF CountsInv
<1>9. TableIsCurrent'
  <2>1. ASSUME NEW g \in Handles, table'[g] # NULL
        PROVE  handle'[table'[g]] = g
    BY <1>1, <1>2, <2>1, ThreadsAreFinite DEF TableIsCurrent, TypeOK
  <2>2. ASSUME NEW q \in Proxies, weak'[q] > 0
        PROVE  table'[handle'[q]] = q
    <3>1. CASE q = p
      BY <1>1, <1>2, <3>1 DEF TypeOK
    <3>2. CASE q # p
      <4>1. weak[q] > 0 /\ handle'[q] = handle[q]
        BY <1>1, <2>2, <3>2 DEF TypeOK
      <4>2. table[handle[q]] = q /\ handle[q] \in Handles /\ q # NULL
        BY <4>1, OneReachable, ThreadsAreFinite DEF TableIsCurrent
      <4>3. handle[q] # h
        BY <1>2, <4>1, <4>2 DEF Reachable
      <4> QED
        BY <1>1, <4>1, <4>2, <4>3 DEF TypeOK
    <3> QED
      BY <3>1, <3>2
  <2> QED
    BY <2>1, <2>2 DEF TableIsCurrent
<1>10. DriverInv'
  <2>1. /\ \A g : OnTheWay("ACQUIRE", g)' = OnTheWay("ACQUIRE", g) + (IF g = h THEN 1 ELSE 0)
        /\ \A g : OnTheWay("RELEASE", g)' = OnTheWay("RELEASE", g)
        /\ \A g : OnTheWay("FREE_BUFFER", g)' = OnTheWay("FREE_BUFFER", g)
    BY <1>2, QueuePair
  <2>2. \A g \in Handles : OnTheWay("ACQUIRE", g)' >= OnTheWay("ACQUIRE", g)
    BY <2>1, CountsAreNat
  <2>3. ASSUME NEW q \in Proxies, strong'[q] > 0
        PROVE  /\ handle'[q] \in Handles
               /\ \/ strong[q] > 0 /\ handle'[q] = handle[q]
                  \/ handle'[q] = h /\ OnTheWay("ACQUIRE", h)' = OnTheWay("ACQUIRE", h) + 1
    <3>1. CASE q = p
      <4>1. handle'[q] = h
        BY <1>1, <3>1 DEF TypeOK
      <4> QED
        BY <1>2, <2>1, <4>1
    <3>2. CASE q # p
      <4>1. strong[q] > 0 /\ handle'[q] = handle[q]
        BY <1>1, <2>3, <3>2 DEF TypeOK
      <4> QED
        BY <4>1, OneReachable DEF TypeOK
    <3> QED
      BY <3>1, <3>2
  <2> QED
    BY <1>2, <2>1, <2>2, <2>3, QueuedInStep
<1>11. OrderInv'
  <2>1. Len(cmds) = 2 /\ cmds[1].h = h /\ cmds[2].h = h
    BY DEF Cmd
  <2>2. \A i \in 1 .. Len(cmds) : cmds[i].op = "ACQUIRE" => cmds[i].h = buffer[t]
    BY <1>2, <2>1
  <2> HIDE DEF cmds
  <2> QED
    BY <1>2, <1>3, <2>2, QueueKeepsOrder
<1> QED
  BY <1>4, <1>5, <1>8, <1>9, <1>10, <1>11

LEMMA KnownProxyKeepsInv ==
  ASSUME ProxiesInv, NEW t \in Threads, KnownProxy(t)
  PROVE  ProxiesInv'
<1> USE DEF ProxiesInv
<1>0. PICK h \in Handles, p \in Proxies : h = buffer[t] /\ p = table[h]
  BY DEF KnownProxy, Reachable, TypeOK
<1> DEFINE cmds == <<Cmd("ACQUIRE", h)>>
<1>1. /\ buffer[t] = h /\ mine[t] = NULL /\ dropping[t] = NULL
      /\ table[h] = p /\ weak[p] > 0 /\ handle[p] = h
  BY <1>0, ThreadsAreFinite DEF KnownProxy, Reachable, TypeOK, TableIsCurrent
<1>2. /\ strong' = [strong EXCEPT ![p] = strong[p] + 1]
      /\ weak' = [weak EXCEPT ![p] = weak[p] + 1]
      /\ mine' = [mine EXCEPT ![t] = p]
      /\ IF strong[p] = 0 THEN Queue(t, cmds) ELSE UNCHANGED out
      /\ UNCHANGED <<table, handle, buffer, dropping, driver>>
  BY <1>0 DEF KnownProxy
<1>3. cmds \in Seq(Commands) /\ Cmd("ACQUIRE", h) \in Commands
  BY DEF Commands, Cmd
<1>4. QueuesOK' /\ \A u \in Threads : Len(out'[u]) <= MaxOut
  <2>1. CASE strong[p] = 0
    BY <1>2, <1>3, <2>1, QueueAppends DEF TypeOK
  <2>2. CASE strong[p] # 0
    BY <1>2, <2>2 DEF TypeOK, QueuesOK
  <2> QED
    BY <2>1, <2>2
<1>5. TypeOK'
  BY <1>1, <1>2, <1>4 DEF TypeOK, driver
<1>6. CountsInv'
  <2>1. Held(p)' = Held(p) + 1 /\ \A q \in Proxies \ {p} : Held(q)' = Held(q)
    BY <1>1, <1>2, HeldTaken
  <2>2. \A q \in Proxies : Dropped(q)' = Dropped(q)
    BY <1>2, Untouched
  <2>3. ASSUME NEW q \in Proxies, q # p
        PROVE  /\ Held(q)' = Held(q) /\ Dropped(q)' = Dropped(q)
               /\ strong'[q] = strong[q] /\ weak'[q] = weak[q] /\ handle'[q] = handle[q]
    BY <1>2, <2>1, <2>2, <2>3 DEF TypeOK
  <2>4. /\ Held(p)' = Held(p) + 1 /\ Dropped(p)' = Dropped(p) /\ handle'[p] = handle[p]
        /\ strong'[p] = strong[p] + 1 /\ weak'[p] = weak[p] + 1
    BY <1>1, <1>2, <2>1, <2>2 DEF TypeOK
  <2>5. \A u \in Threads : mine'[u] = NULL \/ dropping'[u] = NULL
    BY <1>1, <1>2 DEF CountsInv, TypeOK
  <2>6. Held(p) \in Nat /\ Dropped(p) \in Nat /\ weak[p] \in Nat
    BY <1>1, CountsAreNat DEF TypeOK
  <2>7. /\ strong'[p] = Held(p)'
        /\ weak'[p] > 0 /\ handle'[p] # NULL /\ weak'[p] = Held(p)' + Dropped(p)'
    BY <1>1, <2>4, <2>6 DEF CountsInv
  <2> QED
    BY <2>3, <2>5, <2>7 DEF CountsInv
<1>7. TableIsCurrent'
  BY <1>1, <1>2 DEF TableIsCurrent, TypeOK
<1>8. DriverInv'
  <2>1. \A g \in Handles :
          /\ OnTheWay("FREE_BUFFER", g)' = OnTheWay("FREE_BUFFER", g)
          /\ OnTheWay("RELEASE", g)' = OnTheWay("RELEASE", g)
          /\ OnTheWay("ACQUIRE", g)' >= OnTheWay("ACQUIRE", g)
          /\ strong[p] = 0 /\ g = h => OnTheWay("ACQUIRE", g)' = OnTheWay("ACQUIRE", g) + 1
    <3>1. CASE strong[p] = 0
      <4>1. \A op, g : OnTheWay(op, g)' = OnTheWay(op, g)
                                         + (IF Cmd("ACQUIRE", h) = Cmd(op, g) THEN 1 ELSE 0)
        BY <1>2, <1>3, <3>1, QueueSingle
      <4>2. \A op, g : Cmd("ACQUIRE", h) = Cmd(op, g) <=> op = "ACQUIRE" /\ g = h
        BY DEF Cmd
      <4> QED
        BY <4>1, <4>2, CountsAreNat
    <3>2. CASE strong[p] # 0
      BY <1>2, <3>2, Untouched, CountsAreNat
    <3> QED
      BY <3>1, <3>2
  <2>2. ASSUME NEW q \in Proxies, strong'[q] > 0
        PROVE  /\ handle'[q] \in Handles
               /\ \/ strong[q] > 0 /\ handle'[q] = handle[q]
                  \/ handle'[q] = h /\ OnTheWay("ACQUIRE", h)' = OnTheWay("ACQUIRE", h) + 1
    <3>1. CASE q = p
      <4>1. handle'[q] = h /\ (strong[p] = 0 \/ strong[p] > 0)
        BY <1>1, <1>2, <3>1 DEF TypeOK
      <4> QED
        BY <1>1, <2>1, <3>1, <4>1
    <3>2. CASE q # p
      <4>1. strong[q] > 0 /\ handle'[q] = handle[q]
        BY <1>1, <1>2, <2>2, <3>2 DEF TypeOK
      <4> QED
        BY <4>1, OneReachable DEF TypeOK
    <3> QED
      BY <3>1, <3>2
  <2> QED
    BY <1>2, <2>1, <2>2, QueuedInStep
<1>9. OrderInv'
  <2>1. CASE strong[p] = 0
    <3>1. Len(cmds) = 1 /\ cmds[1].h = h
      BY DEF Cmd
    <3>2. \A i \in 1 .. Len(cmds) : cmds[i].op = "ACQUIRE" => cmds[i].h = buffer[t]
      BY <1>1, <3>1
    <3> HIDE DEF cmds
    <3> QED
      BY <1>2, <1>3, <2>1, <3>2, QueueKeepsOrder
  <2>2. CASE strong[p] # 0
    BY <1>2, <2>2 DEF OrderInv
  <2> QED
    BY <2>1, <2>2
<1> QED
  BY <1>4, <1>5, <1>6, <1>7, <1>8, <1>9

LEMMA CopyKeepsInv ==
  ASSUME ProxiesInv, NEW t \in Threads, NEW u \in Threads, Copy(t, u)
  PROVE  ProxiesInv'
<1> USE DEF ProxiesInv
<1>0. PICK p \in Proxies : p = mine[u]
  BY DEF Copy, TypeOK
<1>1. /\ mine[t] = NULL /\ dropping[t] = NULL
      /\ mine' = [mine EXCEPT ![t] = p]
      /\ strong' = [strong EXCEPT ![p] = strong[p] + 1]
      /\ weak' = [weak EXCEPT ![p] = weak[p] + 1]
      /\ UNCHANGED <<table, handle, buffer, dropping, out, driver>>
  BY <1>0 DEF Copy
<1>2. strong[p] > 0 /\ weak[p] > 0 /\ handle[p] \in Handles
  BY <1>0, OneReachable, ThreadsAreFinite
<1>3. TypeOK' /\ QueuesOK'
  BY <1>1 DEF TypeOK, QueuesOK, driver
<1>4. /\ Held(p)' = Held(p) + 1 /\ \A q \in Proxies \ {p} : Held(q)' = Held(q)
      /\ \A q : Dropped(q)' = Dropped(q)
  BY <1>1, HeldTaken, Untouched
<1>5. CountsInv'
  <2>1. ASSUME NEW q \in Proxies, q # p
        PROVE  /\ Held(q)' = Held(q) /\ Dropped(q)' = Dropped(q)
               /\ strong'[q] = strong[q] /\ weak'[q] = weak[q] /\ handle'[q] = handle[q]
    BY <1>1, <1>4, <2>1 DEF TypeOK
  <2>2. /\ Dropped(p)' = Dropped(p) /\ handle'[p] = handle[p]
        /\ strong'[p] = strong[p] + 1 /\ weak'[p] = weak[p] + 1
    BY <1>1, <1>4 DEF TypeOK
  <2>3. Held(p) \in Nat /\ Dropped(p) \in Nat /\ weak[p] \in Nat
    BY CountsAreNat DEF TypeOK
  <2>4. /\ strong'[p] = Held(p)'
        /\ weak'[p] > 0 /\ handle'[p] # NULL /\ weak'[p] = Held(p)' + Dropped(p)'
    BY <1>2, <1>4, <2>2, <2>3 DEF CountsInv
  <2>5. \A v \in Threads : mine'[v] = NULL \/ dropping'[v] = NULL
    BY <1>1 DEF CountsInv, TypeOK
  <2> QED
    BY <2>1, <2>4, <2>5 DEF CountsInv
<1>6. TableIsCurrent'
  BY <1>1, <1>2 DEF TableIsCurrent, TypeOK
<1>7. DriverInv'
  <2>1. \A op, h : OnTheWay(op, h)' = OnTheWay(op, h) /\ OnTheWay(op, h) \in Nat
    BY <1>1, Untouched, CountsAreNat
  <2>2. \A h \in Handles : OnTheWay("ACQUIRE", h)' >= OnTheWay("ACQUIRE", h)
    BY <2>1
  <2>3. ASSUME NEW q \in Proxies, strong'[q] > 0
        PROVE  strong[q] > 0 /\ handle'[q] = handle[q] /\ handle[q] \in Handles
    <3>1. strong[q] > 0
      BY <1>1, <1>2, <2>3 DEF TypeOK
    <3> QED
      BY <1>1, <3>1, OneReachable
  <2> QED
    BY <1>1, <2>1, <2>2, <2>3, QueuedInStep
<1>8. OrderInv'
  BY <1>1 DEF OrderInv
<1> QED
  BY <1>3, <1>5, <1>6, <1>7, <1>8

LEMMA FreeBufferKeepsInv ==
  ASSUME ProxiesInv, NEW t \in Threads, FreeBuffer(t)
  PROVE  ProxiesInv'
<1> USE DEF ProxiesInv
<1>0. PICK h \in Handles : h = buffer[t]
  BY DEF FreeBuffer, TypeOK
<1> DEFINE cmds == <<Cmd("FREE_BUFFER", h)>>
<1>1. /\ buffer[t] = h /\ Queue(t, cmds)
      /\ buffer' = [buffer EXCEPT ![t] = NULL]
      /\ UNCHANGED <<counts, mine, dropping, driver>>
  BY <1>0 DEF FreeBuffer
<1>2. Cmd("FREE_BUFFER", h) \in Commands /\ cmds \in Seq(Commands)
  BY DEF Commands, Cmd
<1>3. QueuesOK' /\ Len(out[t]) + Len(cmds) <= MaxOut
      /\ Len(out'[t]) = Len(out[t]) + Len(cmds)
      /\ \A u \in Threads \ {t} : out'[u] = out[u]
  BY <1>1, <1>2, QueueAppends
<1>4. TypeOK'
  <2>1. \A u \in Threads : Len(out'[u]) <= MaxOut
    BY <1>3 DEF TypeOK
  <2> QED
    BY <1>1, <2>1 DEF TypeOK, counts, driver
<1>5. CountsInv' /\ TableIsCurrent'
  BY <1>1, Untouched DEF CountsInv, TableIsCurrent, counts
<1>6. DriverInv'
  <2>1. \A op, g : OnTheWay(op, g)' = OnTheWay(op, g)
                                     + (IF Cmd("FREE_BUFFER", h) = Cmd(op, g) THEN 1 ELSE 0)
    BY <1>1, <1>2, QueueSingle
  <2>2. \A op, g : Cmd("FREE_BUFFER", h) = Cmd(op, g) <=> op = "FREE_BUFFER" /\ g = h
    BY DEF Cmd
  <2>3. ASSUME NEW g \in Handles
        PROVE  drvBuffers'[g] >= Reading(g)' + OnTheWay("FREE_BUFFER", g)'
    <3>1. Reading(g)' = Reading(g) + (IF NULL = g THEN 1 ELSE 0) - (IF buffer[t] = g THEN 1 ELSE 0)
      BY <1>1, ReadingChanges
    <3>2. NULL # g
      BY ThreadsAreFinite
    <3>3. Reading(g) \in Nat /\ OnTheWay("FREE_BUFFER", g) \in Nat /\ drvBuffers[g] \in Nat
      BY CountsAreNat DEF TypeOK
    <3>4. drvBuffers[g] >= Reading(g) + OnTheWay("FREE_BUFFER", g) /\ drvBuffers'[g] = drvBuffers[g]
      BY <1>1 DEF DriverInv, driver
    <3>5. OnTheWay("FREE_BUFFER", g)' = OnTheWay("FREE_BUFFER", g) + (IF g = h THEN 1 ELSE 0)
      BY <2>1, <2>2
    <3> QED
      BY <1>1, <3>1, <3>2, <3>3, <3>4, <3>5
  <2>4. \A g : /\ OnTheWay("ACQUIRE", g)' = OnTheWay("ACQUIRE", g)
              /\ OnTheWay("RELEASE", g)' = OnTheWay("RELEASE", g)
    BY <2>1, <2>2, CountsAreNat
  <2>5. drvStrong' = drvStrong /\ strong' = strong /\ handle' = handle
    BY <1>1 DEF counts, driver
  <2> QED
    BY <2>3, <2>4, <2>5 DEF DriverInv
<1>7. OrderInv'
  <2>1. \A u \in Threads \ {t} : buffer'[u] = buffer[u]
    BY <1>1 DEF TypeOK
  <2>2. cmds = <<Cmd("FREE_BUFFER", buffer[t])>>
    BY <1>1
  <2> HIDE DEF cmds
  <2> QED
    BY <1>1, <1>2, <2>1, <2>2, QueueKeepsOrder
<1> QED
  BY <1>3, <1>4, <1>5, <1>6, <1>7

LEMMA DropStrongKeepsInv ==
  ASSUME ProxiesInv, NEW t \in Threads, DropStrong(t)
  PROVE  ProxiesInv'
<1> USE DEF ProxiesInv
<1>0. PICK p \in Proxies : p = mine[t]
  BY DEF DropStrong, TypeOK
<1>1. strong[p] > 0 /\ weak[p] > 0 /\ p # NULL
  BY <1>0, OneReachable, ThreadsAreFinite
<1>2. PICK h \in Handles : h = handle[p]
  BY <1>0, OneReachable, ThreadsAreFinite
<1> DEFINE cmds == <<Cmd("RELEASE", h)>>
<1>3. /\ mine[t] = p /\ dropping[t] = NULL
      /\ strong' = [strong EXCEPT ![p] = strong[p] - 1]
      /\ IF strong[p] = 1 THEN Queue(t, cmds) ELSE UNCHANGED out
      /\ mine' = [mine EXCEPT ![t] = NULL]
      /\ dropping' = [dropping EXCEPT ![t] = p]
      /\ UNCHANGED <<table, handle, weak, buffer, driver>>
  BY <1>0, <1>1, <1>2 DEF DropStrong, CountsInv
<1>4. Cmd("RELEASE", h) \in Commands /\ cmds \in Seq(Commands)
  BY DEF Commands, Cmd
<1>5. QueuesOK' /\ \A u \in Threads : Len(out'[u]) <= MaxOut
  <2>1. CASE strong[p] = 1
    BY <1>3, <1>4, <2>1, QueueAppends DEF TypeOK
  <2>2. CASE strong[p] # 1
    BY <1>3, <2>2 DEF TypeOK, QueuesOK
  <2> QED
    BY <2>1, <2>2
<1>6. TypeOK'
  BY <1>1, <1>3, <1>5 DEF TypeOK, driver
<1>7. CountsInv'
  <2>1. /\ Held(p)' = Held(p) - 1 /\ \A q \in Proxies \ {p} : Held(q)' = Held(q)
        /\ Dropped(p)' = Dropped(p) + 1 /\ \A q \in Proxies \ {p} : Dropped(q)' = Dropped(q)
    BY <1>3, HeldGiven, DroppedTaken
  <2>2. ASSUME NEW q \in Proxies, q # p
        PROVE  /\ Held(q)' = Held(q) /\ Dropped(q)' = Dropped(q)
               /\ strong'[q] = strong[q] /\ weak'[q] = weak[q] /\ handle'[q] = handle[q]
    BY <1>3, <2>1, <2>2 DEF TypeOK
  <2>3. strong'[p] = strong[p] - 1 /\ weak'[p] = weak[p] /\ handle'[p] = handle[p]
    BY <1>3 DEF TypeOK
  <2>4. Held(p) \in Nat /\ Dropped(p) \in Nat /\ weak[p] \in Nat
    BY CountsAreNat DEF TypeOK
  <2>5. /\ strong'[p] = Held(p)'
        /\ weak'[p] > 0 /\ handle'[p] # NULL /\ weak'[p] = Held(p)' + Dropped(p)'
    BY <1>1, <2>1, <2>3, <2>4 DEF CountsInv
  <2>6. \A u \in Threads : mine'[u] = NULL \/ dropping'[u] = NULL
    BY <1>3 DEF CountsInv, TypeOK
  <2> QED
    BY <2>2, <2>5, <2>6 DEF CountsInv
<1>8. TableIsCurrent'
  BY <1>3 DEF TableIsCurrent
<1>9. DriverInv'
  <2>1. \A g : /\ OnTheWay("FREE_BUFFER", g)' = OnTheWay("FREE_BUFFER", g)
              /\ OnTheWay("ACQUIRE", g)' = OnTheWay("ACQUIRE", g)
              /\ OnTheWay("RELEASE", g)' = OnTheWay("RELEASE", g)
                                          + (IF strong[p] = 1 /\ g = h THEN 1 ELSE 0)
    <3>1. CASE strong[p] = 1
      <4>1. \A op, g : OnTheWay(op, g)' = OnTheWay(op, g)
                                         + (IF Cmd("RELEASE", h) = Cmd(op, g) THEN 1 ELSE 0)
        BY <1>3, <1>4, <3>1, QueueSingle
      <4>2. \A op, g : Cmd("RELEASE", h) = Cmd(op, g) <=> op = "RELEASE" /\ g = h
        BY DEF Cmd
      <4> QED
        BY <3>1, <4>1, <4>2, CountsAreNat
    <3>2. CASE strong[p] # 1
      BY <1>3, <3>2, Untouched, CountsAreNat
    <3> QED
      BY <3>1, <3>2
  <2>2. /\ \A g : Reading(g)' = Reading(g)
        /\ drvStrong' = drvStrong /\ drvBuffers' = drvBuffers /\ handle' = handle
    BY <1>3, Untouched DEF driver
  <2>3. ASSUME NEW g \in Handles
        PROVE  /\ OnTheWay("ACQUIRE", g) \in Nat /\ OnTheWay("RELEASE", g) \in Nat
               /\ drvStrong[g] \in Nat
    BY CountsAreNat DEF TypeOK
  <2>4. drvStrong[h] + OnTheWay("ACQUIRE", h) >= OnTheWay("RELEASE", h) + 1
    BY <1>1, <1>2 DEF DriverInv
  <2>5. ASSUME NEW g \in Handles
        PROVE  /\ drvBuffers'[g] >= Reading(g)' + OnTheWay("FREE_BUFFER", g)'
               /\ drvStrong'[g] + OnTheWay("ACQUIRE", g)' >= OnTheWay("RELEASE", g)'
    <3>1. drvStrong[g] + OnTheWay("ACQUIRE", g) >= OnTheWay("RELEASE", g)
      BY DEF DriverInv
    <3>2. drvStrong'[g] + OnTheWay("ACQUIRE", g)' >= OnTheWay("RELEASE", g)'
      BY <2>1, <2>2, <2>3, <2>4, <3>1
    <3> QED
      BY <2>1, <2>2, <3>2 DEF DriverInv
  <2>6. ASSUME NEW q \in Proxies, strong'[q] > 0
        PROVE  (drvStrong[handle[q]] + OnTheWay("ACQUIRE", handle[q])
                 >= OnTheWay("RELEASE", handle[q]) + 1)'
    <3>1. strong[q] > 0 /\ (q = p => strong[p] # 1)
      BY <1>1, <1>3, <2>6 DEF TypeOK
    <3>2. PICK g \in Handles : g = handle[q]
      BY <3>1, OneReachable
    <3>3. g = h => q = p
      BY <1>1, <1>2, <3>1, <3>2, OneReachable
    <3>4. drvStrong[g] + OnTheWay("ACQUIRE", g) >= OnTheWay("RELEASE", g) + 1
      BY <3>1, <3>2 DEF DriverInv
    <3>5. OnTheWay("RELEASE", g)' = OnTheWay("RELEASE", g)
      BY <2>1, <2>3, <3>1, <3>3
    <3> QED
      BY <2>1, <2>2, <3>2, <3>4, <3>5
  <2> QED
    BY <2>5, <2>6 DEF DriverInv
<1>10. OrderInv'
  <2>1. CASE strong[p] = 1
    <3>1. Len(cmds) = 1 /\ cmds[1].op = "RELEASE"
      BY DEF Cmd
    <3>2. \A i \in 1 .. Len(cmds) : cmds[i].op # "ACQUIRE"
      BY <3>1
    <3> HIDE DEF cmds
    <3> QED
      BY <1>3, <1>4, <2>1, <3>2, QueueKeepsOrder
  <2>2. CASE strong[p] # 1
    BY <1>3, <2>2 DEF OrderInv
  <2> QED
    BY <2>1, <2>2
<1> QED
  BY <1>5, <1>6, <1>7, <1>8, <1>9, <1>10

LEMMA DropWeakKeepsInv ==
  ASSUME ProxiesInv, NEW t \in Threads, DropWeak(t)
  PROVE  ProxiesInv'
<1> USE DEF ProxiesInv
<1>0. PICK p \in Proxies : p = dropping[t]
  BY DEF DropWeak, TypeOK
<1>1. /\ dropping[t] = p /\ weak[p] > 0 /\ weak[p] \in Nat
      /\ weak' = [weak EXCEPT ![p] = weak[p] - 1]
      /\ dropping' = [dropping EXCEPT ![t] = IF weak[p] = 1 THEN p ELSE NULL]
      /\ UNCHANGED <<table, handle, strong, buffer, mine, out, driver>>
  BY <1>0 DEF DropWeak, TypeOK
<1>2. TypeOK' /\ QueuesOK'
  BY <1>1 DEF TypeOK, QueuesOK, driver
<1>3. CountsInv'
  <2>1. /\ \A q : Held(q)' = Held(q)
        /\ Dropped(p)' = IF weak[p] = 1 THEN Dropped(p) ELSE Dropped(p) - 1
        /\ \A q \in Proxies \ {p} : Dropped(q)' = Dropped(q)
    <3>1. CASE weak[p] = 1
      <4>1. dropping' = dropping
        BY <1>1, <3>1 DEF TypeOK
      <4> QED
        BY <1>1, <3>1, <4>1, Untouched
    <3>2. CASE weak[p] # 1
      BY <1>1, <3>2, DroppedGiven, Untouched
    <3> QED
      BY <3>1, <3>2
  <2>2. ASSUME NEW q \in Proxies, q # p
        PROVE  /\ Held(q)' = Held(q) /\ Dropped(q)' = Dropped(q)
               /\ strong'[q] = strong[q] /\ weak'[q] = weak[q] /\ handle'[q] = handle[q]
    BY <1>1, <2>1, <2>2 DEF TypeOK
  <2>3. /\ strong'[p] = strong[p] /\ weak'[p] = weak[p] - 1 /\ handle'[p] = handle[p]
        /\ Held(p)' = Held(p)
    BY <1>1, <2>1 DEF TypeOK
  <2>4. Held(p) \in Nat /\ Dropped(p) \in Nat /\ Dropped(p) > 0
    BY <1>0, CountsAreNat
  <2>5. strong[p] = Held(p) /\ handle[p] # NULL /\ weak[p] = Held(p) + Dropped(p)
    BY <1>1 DEF CountsInv
  <2>6. /\ strong'[p] = Held(p)'
        /\ weak'[p] > 0 => handle'[p] # NULL /\ weak'[p] = Held(p)' + Dropped(p)'
        /\ weak'[p] = 0 => Held(p)' = 0 /\ Dropped(p)' = IF handle'[p] = NULL THEN 0 ELSE 1
    BY <1>1, <2>1, <2>3, <2>4, <2>5
  <2>7. \A u \in Threads : mine'[u] = NULL \/ dropping'[u] = NULL
    BY <1>1, ThreadsAreFinite DEF CountsInv, TypeOK
  <2> QED
    BY <2>2, <2>6, <2>7 DEF CountsInv
<1>4. TableIsCurrent'
  <2>1. \A q \in Proxies : weak'[q] > 0 => weak[q] > 0
    BY <1>1 DEF TypeOK
  <2> QED
    BY <1>1, <2>1 DEF TableIsCurrent
<1>5. DriverInv'
  BY <1>1, Untouched DEF DriverInv, driver
<1>6. OrderInv'
  BY <1>1 DEF OrderInv
<1> QED
  BY <1>2, <1>3, <1>4, <1>5, <1>6

LEMMA DeleteKeepsInv ==
  ASSUME ProxiesInv, NEW t \in Threads, Delete(t)
  PROVE  ProxiesInv'
<1> USE DEF ProxiesInv
<1>0. PICK p \in Proxies : p = dropping[t]
  BY DEF Delete, TypeOK
<1>1. weak[p] = 0 /\ handle[p] # NULL /\ Held(p) = 0 /\ Dropped(p) = 1 /\ strong[p] = 0
  <2>1. weak[p] = 0 /\ Dropped(p) > 0
    BY <1>0, CountsAreNat DEF Delete
  <2> QED
    BY <2>1 DEF CountsInv
<1>2. PICK h \in Handles : h = handle[p]
  BY <1>1 DEF TypeOK
<1> DEFINE cmds == <<Cmd("DECREFS", h)>>
<1>3. /\ dropping[t] = p /\ Queue(t, cmds)
      /\ table' = [table EXCEPT ![h] = IF table[h] = p THEN NULL ELSE table[h]]
      /\ handle' = [handle EXCEPT ![p] = NULL]
      /\ dropping' = [dropping EXCEPT ![t] = NULL]
      /\ UNCHANGED <<strong, weak, buffer, mine, driver>>
  BY <1>0, <1>2 DEF Delete, Deleted
<1>4. Cmd("DECREFS", h) \in Commands /\ cmds \in Seq(Commands)
  BY DEF Commands, Cmd
<1>5. QueuesOK' /\ \A u \in Threads : Len(out'[u]) <= MaxOut
  BY <1>3, <1>4, QueueAppends DEF TypeOK
<1>6. TypeOK'
  BY <1>3, <1>5 DEF TypeOK, driver
<1>7. CountsInv'
  <2>1. /\ \A q : Held(q)' = Held(q)
        /\ Dropped(p)' = Dropped(p) - 1 /\ \A q \in Proxies \ {p} : Dropped(q)' = Dropped(q)
    BY <1>3, DroppedGiven, Untouched
  <2>2. ASSUME NEW q \in Proxies, q # p
        PROVE  /\ Held(q)' = Held(q) /\ Dropped(q)' = Dropped(q)
               /\ strong'[q] = strong[q] /\ weak'[q] = weak[q] /\ handle'[q] = handle[q]
    BY <1>3, <2>1, <2>2 DEF TypeOK
  <2>3. /\ strong'[p] = 0 /\ weak'[p] = 0 /\ handle'[p] = NULL
        /\ Held(p)' = 0 /\ Dropped(p)' = 0
    BY <1>1, <1>3, <2>1 DEF TypeOK
  <2>4. \A u \in Threads : mine'[u] = NULL \/ dropping'[u] = NULL
    BY <1>3 DEF CountsInv, TypeOK
  <2> QED
    BY <2>2, <2>3, <2>4 DEF CountsInv
<1>8. TableIsCurrent'
  <2>1. ASSUME NEW g \in Handles, table'[g] # NULL
        PROVE  handle'[table'[g]] = g
    <3>1. table'[g] = table[g] /\ (g = h => table[g] # p)
      BY <1>3, <2>1 DEF TypeOK
    <3>2. handle[table[g]] = g /\ table[g] \in Proxies
      BY <2>1, <3>1 DEF TableIsCurrent, TypeOK
    <3>3. table[g] # p
      BY <1>2, <3>1, <3>2
    <3> QED
      BY <1>3, <3>1, <3>2, <3>3 DEF TypeOK
  <2>2. ASSUME NEW q \in Proxies, weak'[q] > 0
        PROVE  table'[handle'[q]] = q
    <3>1. weak[q] > 0 /\ q # p /\ handle'[q] = handle[q]
      BY <1>1, <1>3, <2>2 DEF TypeOK
    <3>2. table[handle[q]] = q /\ handle[q] \in Handles
      BY <3>1, OneReachable DEF TableIsCurrent
    <3> QED
      BY <1>3, <3>1, <3>2 DEF TypeOK
  <2> QED
    BY <2>1, <2>2 DEF TableIsCurrent
<1>9. DriverInv'
  <2>1. \A op, g : OnTheWay(op, g)' = OnTheWay(op, g)
                                     + (IF Cmd("DECREFS", h) = Cmd(op, g) THEN 1 ELSE 0)
    BY <1>3, <1>4, QueueSingle
  <2>2. \A op, g : op # "DECREFS" => Cmd("DECREFS", h) # Cmd(op, g)
    BY DEF Cmd
  <2>3. \A g \in Handles : /\ OnTheWay("FREE_BUFFER", g)' = OnTheWay("FREE_BUFFER", g)
                           /\ OnTheWay("ACQUIRE", g)' = OnTheWay("ACQUIRE", g)
                           /\ OnTheWay("ACQUIRE", g) \in Nat
                           /\ OnTheWay("RELEASE", g)' = OnTheWay("RELEASE", g)
    BY <2>1, <2>2, CountsAreNat
  <2>4. \A g \in Handles : OnTheWay("ACQUIRE", g)' >= OnTheWay("ACQUIRE", g)
    BY <2>3
  <2>5. ASSUME NEW q \in Proxies, strong'[q] > 0
        PROVE  strong[q] > 0 /\ handle'[q] = handle[q] /\ handle[q] \in Handles
    <3>1. strong[q] > 0 /\ q # p
      BY <1>1, <1>3, <2>5
    <3> QED
      BY <1>3, <3>1, OneReachable DEF TypeOK
  <2> QED
    BY <1>3, <2>3, <2>4, <2>5, QueuedInStep
<1>10. OrderInv'
  <2>1. Len(cmds) = 1 /\ cmds[1].op = "DECREFS"
    BY DEF Cmd
  <2>2. \A i \in 1 .. Len(cmds) : cmds[i].op # "ACQUIRE"
    BY <2>1
  <2> HIDE DEF cmds
  <2> QED
    BY <1>3, <1>4, <2>2, QueueKeepsOrder
<1> QED
  BY <1>5, <1>6, <1>7, <1>8, <1>9, <1>10

(* What the driver's counts become when it takes a command.                *)
LEMMA DriverTakes ==
  ASSUME ProxiesInv, NEW t \in Threads, Write(t), NEW c, c = Head(out[t])
  PROVE  /\ drvStrong' \in [Handles -> Nat] /\ drvWeak' \in [Handles -> Nat]
         /\ drvBuffers' \in [Handles -> Nat]
         /\ \A g \in Handles :
              /\ drvStrong'[g] = drvStrong[g]
                   + (IF Accepts(c) /\ c = Cmd("ACQUIRE", g) THEN 1 ELSE 0)
                   - (IF Accepts(c) /\ c = Cmd("RELEASE", g) THEN 1 ELSE 0)
              /\ drvBuffers'[g] = drvBuffers[g]
                   - (IF Accepts(c) /\ c = Cmd("FREE_BUFFER", g) THEN 1 ELSE 0)
         /\ c.op = "FREE_BUFFER" => (Accepts(c) <=> drvBuffers[c.h] > 0)
         /\ c.op = "RELEASE" => (Accepts(c) <=> drvStrong[c.h] > 0)
         /\ c.op = "ACQUIRE" /\ drvBuffers[c.h] > 0 => Accepts(c)
<1> USE DEF ProxiesInv
<1>1. c \in Commands
  BY WriteTakes
<1>2. \A op, g : c = Cmd(op, g) <=> c.op = op /\ c.h = g
  BY <1>1 DEF Cmd, Commands
<1>3. /\ c.h \in Handles /\ drvStrong[c.h] \in Nat /\ drvWeak[c.h] \in Nat
      /\ drvBuffers[c.h] \in Nat
      /\ c.op \in {"INCREFS", "ACQUIRE", "RELEASE", "DECREFS", "FREE_BUFFER"}
  BY <1>1 DEF Commands, TypeOK
<1>4. /\ c.op = "FREE_BUFFER" => (Accepts(c) <=> drvBuffers[c.h] > 0)
      /\ c.op = "RELEASE" => (Accepts(c) <=> drvStrong[c.h] > 0)
      /\ c.op = "DECREFS" => (Accepts(c) <=> drvWeak[c.h] > 0)
      /\ c.op = "ACQUIRE" /\ drvBuffers[c.h] > 0 => Accepts(c)
  <2>1. CASE c.op = "FREE_BUFFER"
    BY <2>1 DEF Accepts
  <2>2. CASE c.op = "RELEASE"
    BY <2>2 DEF Accepts
  <2>3. CASE c.op = "DECREFS"
    BY <2>3 DEF Accepts
  <2>4. CASE c.op = "ACQUIRE"
    <3>1. Accepts(c) <=> HasRef(c.h)
      BY <2>4 DEF Accepts
    <3>2. drvBuffers[c.h] > 0 => HasRef(c.h)
      BY <1>3 DEF HasRef
    <3> QED
      BY <2>4, <3>1, <3>2
  <2> QED
    BY <2>1, <2>2, <2>3, <2>4
<1>5. CASE ~Accepts(c)
  <2>1. UNCHANGED driver
    BY <1>5 DEF Write
  <2> QED
    BY <1>4, <1>5, <2>1 DEF driver, TypeOK
<1>6. CASE Accepts(c)
  <2> DEFINE add(ops) == IF c.op \in ops THEN 1 ELSE 0
  <2>1. /\ drvStrong' = [drvStrong EXCEPT ![c.h] = drvStrong[c.h] + add({"ACQUIRE"}) - add({"RELEASE"})]
        /\ drvWeak' = [drvWeak EXCEPT ![c.h] = drvWeak[c.h] + add({"INCREFS"}) - add({"DECREFS"})]
        /\ drvBuffers' = [drvBuffers EXCEPT ![c.h] = drvBuffers[c.h] - add({"FREE_BUFFER"})]
    BY <1>6 DEF Write
  <2>2. /\ drvStrong[c.h] + add({"ACQUIRE"}) - add({"RELEASE"}) \in Nat
        /\ drvWeak[c.h] + add({"INCREFS"}) - add({"DECREFS"}) \in Nat
        /\ drvBuffers[c.h] - add({"FREE_BUFFER"}) \in Nat
    BY <1>3, <1>4, <1>6
  <2>3. /\ drvStrong' \in [Handles -> Nat] /\ drvWeak' \in [Handles -> Nat]
        /\ drvBuffers' \in [Handles -> Nat]
    BY <2>1, <2>2 DEF TypeOK
  <2>4. ASSUME NEW g \in Handles
        PROVE  /\ drvStrong'[g] = drvStrong[g] + (IF c = Cmd("ACQUIRE", g) THEN 1 ELSE 0)
                                              - (IF c = Cmd("RELEASE", g) THEN 1 ELSE 0)
               /\ drvBuffers'[g] = drvBuffers[g] - (IF c = Cmd("FREE_BUFFER", g) THEN 1 ELSE 0)
    <3>1. CASE g = c.h
      BY <1>2, <2>1, <3>1 DEF TypeOK
    <3>2. CASE g # c.h
      <4>1. drvStrong'[g] = drvStrong[g] /\ drvBuffers'[g] = drvBuffers[g]
            /\ drvStrong[g] \in Nat /\ drvBuffers[g] \in Nat
        BY <2>1, <3>2 DEF TypeOK
      <4> QED
        BY <1>2, <3>2, <4>1
    <3> QED
      BY <3>1, <3>2
  <2> QED
    BY <1>4, <1>6, <2>3, <2>4
<1> QED
  BY <1>5, <1>6

LEMMA WriteKeepsInv ==
  ASSUME ProxiesInv, NEW t \in Threads, Write(t)
  PROVE  ProxiesInv'
<1> USE DEF ProxiesInv
<1>0. PICK c \in Commands : c = Head(out[t])
  BY WriteTakes
<1>1. /\ QueuesOK' /\ c = out[t][1]
      /\ \A u \in Threads \ {t} : out'[u] = out[u]
      /\ Len(out[t]) \in Nat \ {0} /\ Len(out'[t]) = Len(out[t]) - 1
      /\ \A i \in 1 .. Len(out'[t]) : out'[t][i] = out[t][i + 1]
      /\ \A op, h : OnTheWay(op, h) = OnTheWay(op, h)' + (IF c = Cmd(op, h) THEN 1 ELSE 0)
  BY <1>0, WriteTakes
<1>2. UNCHANGED <<counts, buffer, mine, dropping>>
  BY DEF Write
<1>3. TypeOK'
  <2>1. \A u \in Threads : Len(out'[u]) <= MaxOut
    <3>1. Len(out[t]) <= MaxOut /\ MaxOut \in Nat
      BY ThreadsAreFinite DEF TypeOK
    <3>2. Len(out'[t]) <= MaxOut
      BY <1>1, <3>1
    <3> QED
      BY <1>1, <3>2 DEF TypeOK
  <2>2. /\ drvStrong' \in [Handles -> Nat] /\ drvWeak' \in [Handles -> Nat]
        /\ drvBuffers' \in [Handles -> Nat]
    BY <1>0, DriverTakes
  <2> QED
    BY <1>2, <2>1, <2>2 DEF TypeOK, counts
<1>4. CountsInv' /\ TableIsCurrent'
  BY <1>2, Untouched DEF CountsInv, TableIsCurrent, counts
<1>5. DriverInv'
  <2>1. \A op, h : OnTheWay(op, h)' \in Nat
    BY QueuedIsFinite, ThreadsAreFinite DEF OnTheWay
  <2>2. \A h : Reading(h)' = Reading(h)
    BY <1>2, Untouched
  <2>3. ASSUME NEW g \in Handles
        PROVE  /\ drvBuffers'[g] >= Reading(g)' + OnTheWay("FREE_BUFFER", g)'
               /\ drvStrong'[g] + OnTheWay("ACQUIRE", g)' - OnTheWay("RELEASE", g)'
                    >= drvStrong[g] + OnTheWay("ACQUIRE", g) - OnTheWay("RELEASE", g)
    <3>1. /\ drvStrong[g] \in Nat /\ drvBuffers[g] \in Nat
          /\ Reading(g) \in Nat /\ drvBuffers[g] >= Reading(g) + OnTheWay("FREE_BUFFER", g)
      BY CountsAreNat DEF DriverInv, TypeOK
    <3>2. /\ drvStrong'[g] = drvStrong[g]
               + (IF Accepts(c) /\ c = Cmd("ACQUIRE", g) THEN 1 ELSE 0)
               - (IF Accepts(c) /\ c = Cmd("RELEASE", g) THEN 1 ELSE 0)
          /\ drvBuffers'[g] = drvBuffers[g]
               - (IF Accepts(c) /\ c = Cmd("FREE_BUFFER", g) THEN 1 ELSE 0)
      BY <1>0, DriverTakes
    <3>3. /\ OnTheWay("ACQUIRE", g) = OnTheWay("ACQUIRE", g)'
               + (IF c = Cmd("ACQUIRE", g) THEN 1 ELSE 0)
          /\ OnTheWay("RELEASE", g) = OnTheWay("RELEASE", g)'
               + (IF c = Cmd("RELEASE", g) THEN 1 ELSE 0)
          /\ OnTheWay("FREE_BUFFER", g) = OnTheWay("FREE_BUFFER", g)'
               + (IF c = Cmd("FREE_BUFFER", g) THEN 1 ELSE 0)
      BY <1>1
    <3>4. /\ OnTheWay("ACQUIRE", g)' \in Nat /\ OnTheWay("RELEASE", g)' \in Nat
          /\ OnTheWay("FREE_BUFFER", g)' \in Nat
      BY <2>1
    <3>5. c = Cmd("ACQUIRE", g) => Accepts(c)
      <4> SUFFICES ASSUME c = Cmd("ACQUIRE", g) PROVE Accepts(c)
        OBVIOUS
      <4>1. drvBuffers[g] > 0
        BY <3>3, <3>4, AcquireIsAccepted
      <4>2. c.op = "ACQUIRE" /\ c.h = g
        BY DEF Cmd
      <4> QED
        BY <1>0, <4>1, <4>2, DriverTakes
    <3>6. c = Cmd("FREE_BUFFER", g) => Accepts(c)
      <4> SUFFICES ASSUME c = Cmd("FREE_BUFFER", g) PROVE Accepts(c)
        OBVIOUS
      <4>1. drvBuffers[g] > 0
        BY <3>1, <3>3, <3>4
      <4>2. c.op = "FREE_BUFFER" /\ c.h = g
        BY DEF Cmd
      <4> QED
        BY <1>0, <4>1, <4>2, DriverTakes
    <3>7. c = Cmd("ACQUIRE", g) => c # Cmd("RELEASE", g)
      BY DEF Cmd
    <3>8. drvBuffers'[g] >= Reading(g)' + OnTheWay("FREE_BUFFER", g)'
      BY <2>2, <3>1, <3>2, <3>3, <3>4, <3>6
    <3>9. drvStrong'[g] + OnTheWay("ACQUIRE", g)' - OnTheWay("RELEASE", g)'
            >= drvStrong[g] + OnTheWay("ACQUIRE", g) - OnTheWay("RELEASE", g)
      BY <3>1, <3>2, <3>3, <3>4, <3>5, <3>7
    <3> QED
      BY <3>8, <3>9
  <2>4. ASSUME NEW g \in Handles
        PROVE  /\ drvStrong[g] \in Nat /\ drvStrong'[g] \in Nat
               /\ \A op : OnTheWay(op, g) \in Nat /\ OnTheWay(op, g)' \in Nat
    BY <1>3, <2>1, CountsAreNat DEF TypeOK
  <2>5. ASSUME NEW g \in Handles
        PROVE  drvStrong'[g] + OnTheWay("ACQUIRE", g)' >= OnTheWay("RELEASE", g)'
    <3>1. drvStrong[g] + OnTheWay("ACQUIRE", g) >= OnTheWay("RELEASE", g)
      BY DEF DriverInv
    <3> QED
      BY <2>3, <2>4, <3>1
  <2>6. ASSUME NEW q \in Proxies, strong'[q] > 0
        PROVE  (drvStrong[handle[q]] + OnTheWay("ACQUIRE", handle[q])
                 >= OnTheWay("RELEASE", handle[q]) + 1)'
    <3>1. strong[q] > 0 /\ handle' = handle
      BY <1>2, <2>6 DEF counts
    <3>2. PICK g \in Handles : g = handle[q]
      BY <3>1, OneReachable
    <3>3. drvStrong[g] + OnTheWay("ACQUIRE", g) >= OnTheWay("RELEASE", g) + 1
      BY <3>1, <3>2 DEF DriverInv
    <3>4. drvStrong'[g] + OnTheWay("ACQUIRE", g)' >= OnTheWay("RELEASE", g)' + 1
      BY <2>3, <2>4, <3>3
    <3> QED
      BY <3>1, <3>2, <3>4
  <2> QED
    BY <2>3, <2>5, <2>6 DEF DriverInv
<1>6. OrderInv'
  <2>1. ASSUME NEW i \in 1 .. Len(out'[t]), out'[t][i].op = "ACQUIRE"
        PROVE  \/ buffer[t] = out'[t][i].h
               \/ \E j \in i + 1 .. Len(out'[t]) : out'[t][j] = Cmd("FREE_BUFFER", out'[t][i].h)
    <3>1. i + 1 \in 1 .. Len(out[t]) /\ out'[t][i] = out[t][i + 1]
      BY <1>1
    <3>2. CASE \E j \in i + 2 .. Len(out[t]) : out[t][j] = Cmd("FREE_BUFFER", out[t][i + 1].h)
      <4>1. PICK j \in i + 2 .. Len(out[t]) : out[t][j] = Cmd("FREE_BUFFER", out[t][i + 1].h)
        BY <3>2
      <4>2. j - 1 \in i + 1 .. Len(out'[t]) /\ out'[t][j - 1] = out[t][j - 1 + 1]
            /\ j - 1 + 1 = j
        BY <1>1, <4>1
      <4> QED
        BY <3>1, <4>1, <4>2
    <3>3. CASE buffer[t] = out[t][i + 1].h
      BY <3>1, <3>3
    <3>4. (i + 1) + 1 = i + 2
      OBVIOUS
    <3> QED
      BY <2>1, <3>1, <3>2, <3>3, <3>4 DEF OrderInv, Ordered
  <2>2. Ordered(out'[t], buffer[t])
    BY <2>1 DEF Ordered
  <2> QED
    BY <1>1, <1>2, <2>2 DEF OrderInv
<1> QED
  BY <1>1, <1>3, <1>4, <1>5, <1>6

LEMMA ProxiesKeepInv ==
  ASSUME ProxiesInv, [Next]_vars
  PROVE  ProxiesInv'
<1>1. ASSUME NEW t \in Threads, NEW h \in Handles, Receive(t, h) PROVE ProxiesInv'
  BY <1>1, ReceiveKeepsInv
<1>2. ASSUME NEW t \in Threads, NewProxy(t) PROVE ProxiesInv'
  BY <1>2, NewProxyKeepsInv
<1>3. ASSUME NEW t \in Threads, KnownProxy(t) PROVE ProxiesInv'
  BY <1>3, KnownProxyKeepsInv
<1>4. ASSUME NEW t \in Threads, NEW u \in Threads, Copy(t, u) PROVE ProxiesInv'
  BY <1>4, CopyKeepsInv
<1>5. ASSUME NEW t \in Threads, FreeBuffer(t) PROVE ProxiesInv'
  BY <1>5, FreeBufferKeepsInv
<1>6. ASSUME NEW t \in Threads, Write(t) PROVE ProxiesInv'
  BY <1>6, WriteKeepsInv
<1>7. ASSUME NEW t \in Threads, DropStrong(t) PROVE ProxiesInv'
  BY <1>7, DropStrongKeepsInv
<1>8. ASSUME NEW t \in Threads, DropWeak(t) PROVE ProxiesInv'
  BY <1>8, DropWeakKeepsInv
<1>9. ASSUME NEW t \in Threads, Delete(t) PROVE ProxiesInv'
  BY <1>9, DeleteKeepsInv
<1>10. CASE UNCHANGED vars
  BY <1>10, Untouched DEF vars, counts, threads, driver, ProxiesInv, TypeOK, QueuesOK,
                          CountsInv, TableIsCurrent, DriverInv, OrderInv
<1> QED
  BY <1>1, <1>2, <1>3, <1>4, <1>5, <1>6, <1>7, <1>8, <1>9, <1>10 DEF Next

(* What the invariant promises to whoever holds a proxy.                   *)
LEMMA ProxiesPromise ==
  ASSUME ProxiesInv
  PROVE  TheTableHasTheProxy /\ HeldHandlesStayValid
<1>1. TypeOK /\ TableIsCurrent
  BY DEF ProxiesInv
<1>2. OneProxyPerHandle
  BY OneReachable DEF OneProxyPerHandle
<1>3. ASSUME NEW p \in Proxies, strong[p] > 0
      PROVE  drvStrong[handle[p]] + drvBuffers[handle[p]] > 0
  <2>1. PICK h \in Handles : h = handle[p]
    BY <1>3, OneReachable
  <2>2. drvStrong[h] + OnTheWay("ACQUIRE", h) >= OnTheWay("RELEASE", h) + 1
    BY <1>3, <2>1 DEF ProxiesInv, DriverInv
  <2>3. /\ OnTheWay("ACQUIRE", h) \in Nat /\ OnTheWay("RELEASE", h) \in Nat
        /\ drvStrong[h] \in Nat /\ drvBuffers[h] \in Nat
    BY <1>1, CountsAreNat DEF TypeOK
  <2>4. drvStrong[h] > 0 \/ OnTheWay("ACQUIRE", h) > 0
    BY <2>2, <2>3
  <2>5. drvStrong[h] > 0 \/ drvBuffers[h] > 0
    BY <2>4, AcquireIsAccepted
  <2> QED
    BY <2>1, <2>3, <2>5
<1> QED
  BY <1>1, <1>2, <1>3 DEF TheTableHasTheProxy, HeldHandlesStayValid

-----------------------------------------------------------------------------
(* The proxies alone keep their invariant: whatever the threads of the     *)
(* process do to them, in whatever order the driver gets their commands.   *)
THEOREM ProxiesKeepTheirCounts == Spec => []ProxiesInv
<1>1. Init => ProxiesInv
  BY ProxiesBegin
<1>2. ProxiesInv /\ [Next]_vars => ProxiesInv'
  BY ProxiesKeepInv
<1> QED
  BY <1>1, <1>2, PTL DEF Spec

(* A handle has one proxy at a time, the one in the table, which has no    *)
(* entry for a BpBinder that is gone (ProcessState::getStrongProxyFor-     *)
(* Handle, expungeHandle).                                                 *)
THEOREM TheTableHasTheProxyAlways == ProcessSpec => []TheTableHasTheProxy
<1>1. ProcessInit => ProxiesInv
  BY ProxiesBegin DEF ProcessInit
<1>2. ProxiesInv /\ [ProcessNext]_<<vars, loopVars, used>> => ProxiesInv'
  <2> SUFFICES ASSUME ProxiesInv, [ProcessNext]_<<vars, loopVars, used>> PROVE ProxiesInv'
    OBVIOUS
  <2>1. [Next]_vars
    BY DEF ProcessNext
  <2> QED
    BY <2>1, ProxiesKeepInv
<1>3. ProxiesInv => TheTableHasTheProxy
  BY ProxiesPromise
<1> QED
  BY <1>1, <1>2, <1>3, PTL DEF ProcessSpec

(* As long as a thread holds a proxy the driver does not let the handle go *)
(* (BpBinder::onFirstRef, onLastStrongRef; IPCThreadState's mOut).         *)
THEOREM HeldHandlesStayValidAlways == ProcessSpec => []HeldHandlesStayValid
<1>1. ProcessInit => ProxiesInv
  BY ProxiesBegin DEF ProcessInit
<1>2. ProxiesInv /\ [ProcessNext]_<<vars, loopVars, used>> => ProxiesInv'
  <2> SUFFICES ASSUME ProxiesInv, [ProcessNext]_<<vars, loopVars, used>> PROVE ProxiesInv'
    OBVIOUS
  <2>1. [Next]_vars
    BY DEF ProcessNext
  <2> QED
    BY <2>1, ProxiesKeepInv
<1>3. ProxiesInv => HeldHandlesStayValid
  BY ProxiesPromise
<1> QED
  BY <1>1, <1>2, <1>3, PTL DEF ProcessSpec

-----------------------------------------------------------------------------
(* The identities of callers (IPCThreadState)                              *)
(*                                                                         *)
(* Each activation took over what the one below it had left: the identity  *)
(* of that one's caller, or the process's own.  So whatever ends, in       *)
(* whatever order, what it puts back is what the one below expects.        *)

Identities == Callers \cup {Self}
Kinds == {"serve", "served", "replied", "wait", "derefs", "destroy"}
Activations ==
  {a \in [kind : Kinds, obj : Objects \cup {Nobody}, orig : Identities,
          from : Callers \cup {Nobody}, oneway : BOOLEAN, n : Nat] :
     a.kind = "derefs" => a.n > 0}

(* What the driver sends: a transaction has a caller, and a reply alone    *)
(* the depth of its call.                                                  *)
Incoming ==
  {c \in [cmd : {"acquire", "release", "transaction", "complete", "reply", "failed"},
          obj : Objects \cup {Nobody}, from : Callers \cup {Nobody},
          oneway : BOOLEAN, depth : Nat] :
     /\ c.cmd = "transaction" => c.from \in Callers
     /\ c.cmd \in {"acquire", "release", "transaction"} => c.obj \in Objects
     /\ c.cmd # "reply" => c.depth = 0}

(* What the thread sends.                                                  *)
Outgoing ==
  [cmd : {"transaction", "reply"}, obj : Objects \cup {Nobody}, from : {Nobody},
   oneway : BOOLEAN, depth : {0}]

LoopTyped ==
  /\ mIn \in Seq(Incoming) /\ todo \in Seq(Incoming) /\ work \in Seq(Incoming)
  /\ mOut \in Seq(Outgoing) /\ pending \in Seq(Objects)
  /\ tstack \in Seq({"in", "out"})
  /\ stack \in Seq(Activations) /\ caller \in Identities

(* The activation a goes on, or begins another, with the identity who.     *)
GoesOn(a, who) ==
  /\ a.kind \in {"wait", "derefs", "destroy"} => who = a.orig
  /\ a.kind = "serve" => who \in {a.from, Self}

Nested(s) ==
  /\ s # << >> => s[1].orig = Self
  /\ \A i \in 1 .. Len(s) - 1 : GoesOn(s[i], s[i + 1].orig)

Restored(s, who) == IF s = << >> THEN who = Self ELSE GoesOn(s[Len(s)], who)

IdentityInv == LoopTyped /\ Nested(stack) /\ Restored(stack, caller)

-----------------------------------------------------------------------------
LEMMA FrontOf ==
  ASSUME NEW S, NEW s \in Seq(S), s # << >>
  PROVE  /\ Loop!Front(s) \in Seq(S) /\ Len(Loop!Front(s)) = Len(s) - 1
         /\ Len(s) \in Nat /\ Len(s) > 0
         /\ \A i \in 1 .. Len(s) - 1 : Loop!Front(s)[i] = s[i]
         /\ Loop!Last(s) = s[Len(s)] /\ s[Len(s)] \in S
<1>1. Len(s) \in Nat /\ Len(s) > 0 /\ Len(s) \in 1 .. Len(s)
  BY EmptySeq
<1>2. Loop!Front(s) = SubSeq(s, 1, Len(s) - 1) /\ Loop!Last(s) = s[Len(s)]
  BY DEF Loop!Front, Loop!Last
<1> DEFINE n == Len(s) - 1
           f == SubSeq(s, 1, n)
<1>3. n \in Nat /\ n <= Len(s) /\ \A i \in 1 .. n : i \in 1 .. Len(s)
  BY <1>1
<1>4. f \in Seq(S) /\ Len(f) = n /\ \A i \in 1 .. n : f[i] = s[i]
  <2> HIDE DEF n
  <2> QED
    BY <1>1, <1>3
<1> QED
  BY <1>1, <1>2, <1>4

LEMMA EmptyHasNoLength ==
  ASSUME NEW S, NEW s \in Seq(S)
  PROVE  s = << >> <=> Len(s) = 0
  BY EmptySeq

(* What ends puts back what it took over.                                  *)
LEMMA EndKeeps ==
  ASSUME NEW s \in Seq(Activations), s # << >>, Nested(s)
  PROVE  /\ Loop!Front(s) \in Seq(Activations)
         /\ Nested(Loop!Front(s)) /\ Restored(Loop!Front(s), s[Len(s)].orig)
<1> DEFINE f == Loop!Front(s)
<1>1. /\ f \in Seq(Activations) /\ Len(f) = Len(s) - 1 /\ Len(s) \in Nat /\ Len(s) > 0
      /\ \A i \in 1 .. Len(s) - 1 : f[i] = s[i]
  BY FrontOf
<1> HIDE DEF f
<1>2. f = << >> <=> Len(f) = 0
  BY <1>1, EmptyHasNoLength
<1>3. Nested(f)
  <2>1. f # << >> => f[1].orig = Self
    BY <1>1, <1>2 DEF Nested
  <2>2. ASSUME NEW i \in 1 .. Len(f) - 1 PROVE GoesOn(f[i], f[i + 1].orig)
    <3>1. i \in 1 .. Len(s) - 1 /\ i + 1 \in 1 .. Len(s) - 1
      BY <1>1
    <3> QED
      BY <1>1, <3>1 DEF Nested
  <2> QED
    BY <2>1, <2>2 DEF Nested
<1>4. Restored(f, s[Len(s)].orig)
  <2>1. CASE f = << >>
    <3>1. Len(s) = 1 /\ s # << >>
      BY <1>1, <1>2, <2>1
    <3> QED
      BY <2>1, <3>1 DEF Nested, Restored
  <2>2. CASE f # << >>
    <3> DEFINE i == Len(s) - 1
    <3>1. i \in 1 .. Len(s) - 1 /\ i + 1 = Len(s) /\ Len(f) = i /\ f[i] = s[i]
      BY <1>1, <1>2, <2>2
    <3>2. GoesOn(s[i], s[i + 1].orig)
      BY <3>1 DEF Nested
    <3> QED
      BY <2>2, <3>1, <3>2 DEF Restored
  <2> QED
    BY <2>1, <2>2
<1> QED
  BY <1>1, <1>3, <1>4 DEF f

(* What begins takes over what there is.                                   *)
LEMMA BeginKeeps ==
  ASSUME NEW s \in Seq(Activations), Nested(s), NEW who, Restored(s, who),
         NEW a \in Activations, a.orig = who
  PROVE  /\ Append(s, a) \in Seq(Activations) /\ Nested(Append(s, a))
         /\ Append(s, a) # << >> /\ Len(Append(s, a)) = Len(s) + 1
         /\ Append(s, a)[Len(Append(s, a))] = a
<1> DEFINE t == Append(s, a)
<1>1. /\ t \in Seq(Activations) /\ Len(t) = Len(s) + 1 /\ Len(s) \in Nat
      /\ t[Len(s) + 1] = a /\ \A i \in 1 .. Len(s) : t[i] = s[i]
  BY AppendProperties
<1> HIDE DEF t
<1>2. (s = << >> <=> Len(s) = 0) /\ t # << >>
  BY <1>1, EmptyHasNoLength
<1>3. t[1].orig = Self
  BY <1>1, <1>2 DEF Nested, Restored
<1>4. ASSUME NEW i \in 1 .. Len(t) - 1 PROVE GoesOn(t[i], t[i + 1].orig)
  <2>1. CASE i = Len(s)
    BY <1>1, <1>2, <2>1 DEF Restored
  <2>2. CASE i # Len(s)
    <3>1. i \in 1 .. Len(s) - 1 /\ i \in 1 .. Len(s) /\ i + 1 \in 1 .. Len(s)
      BY <1>1, <2>2
    <3> QED
      BY <1>1, <3>1 DEF Nested
  <2> QED
    BY <2>1, <2>2
<1> QED
  BY <1>1, <1>2, <1>3, <1>4 DEF t, Nested

(* The innermost activation goes from one step to the next.                *)
LEMMA StepKeeps ==
  ASSUME NEW s \in Seq(Activations), s # << >>, Nested(s),
         NEW a \in Activations, a.orig = s[Len(s)].orig
  PROVE  /\ Append(Loop!Front(s), a) \in Seq(Activations) /\ Nested(Append(Loop!Front(s), a))
         /\ Append(Loop!Front(s), a) # << >>
         /\ Append(Loop!Front(s), a)[Len(Append(Loop!Front(s), a))] = a
  BY EndKeeps, BeginKeeps

LEMMA IdentitiesApart == Self \in Identities /\ Callers \subseteq Identities
  BY DEF Identities

(* Executing a command begins an activation with the caller's identity, or *)
(* none.                                                                   *)
LEMMA ExecuteKeeps ==
  ASSUME IdentityInv, NEW c \in Incoming, Loop!Execute(c)
  PROVE  /\ stack' \in Seq(Activations) /\ caller' \in Identities /\ pending' \in Seq(Objects)
         /\ Nested(stack') /\ Restored(stack', caller')
<1>0. /\ stack \in Seq(Activations) /\ caller \in Identities /\ pending \in Seq(Objects)
      /\ Nested(stack) /\ Restored(stack, caller)
  BY DEF IdentityInv, LoopTyped
<1>1. CASE c.cmd = "transaction"
  <2>1. caller' = c.from /\ UNCHANGED pending /\ c.from \in Callers
        /\ \E k \in {"serve", "served"} :
             stack' = Append(stack, Loop!Activation(k, c.obj, c.from, c.oneway, 0))
    BY <1>1 DEF Loop!Execute, Loop!Transact, Loop!Push, Incoming
  <2>2. PICK k \in {"serve", "served"} :
             stack' = Append(stack, Loop!Activation(k, c.obj, c.from, c.oneway, 0))
    BY <2>1
  <2> DEFINE a == Loop!Activation(k, c.obj, c.from, c.oneway, 0)
  <2>3. a \in Activations /\ a.orig = caller /\ a.kind = k /\ a.from = c.from
    <3>1. /\ c.obj \in Objects \cup {Nobody} /\ c.oneway \in BOOLEAN /\ k \in Kinds
          /\ c.from \in Callers \cup {Nobody} /\ 0 \in Nat
      BY <2>1 DEF Incoming, Kinds
    <3> QED
      BY <1>0, <3>1 DEF Loop!Activation, Activations
  <2> HIDE DEF a
  <2>4. /\ stack' \in Seq(Activations) /\ Nested(stack') /\ stack' # << >>
        /\ stack'[Len(stack')] = a
    BY <1>0, <2>2, <2>3, BeginKeeps DEF a
  <2>5. Restored(stack', caller')
    BY <2>1, <2>2, <2>3, <2>4 DEF Restored, GoesOn
  <2> QED
    BY <1>0, <2>1, <2>4, <2>5, IdentitiesApart
<1>2. CASE c.cmd = "release"
  <2>1. pending' = Append(pending, c.obj) /\ UNCHANGED <<stack, caller>> /\ c.obj \in Objects
    BY <1>2 DEF Loop!Execute, Loop!Release, Incoming
  <2> QED
    BY <1>0, <2>1
<1>3. CASE c.cmd \notin {"transaction", "release"}
  <2>1. UNCHANGED <<stack, caller, pending>>
    BY <1>3 DEF Loop!Execute, Loop!Acquire
  <2> QED
    BY <1>0, <2>1
<1> QED
  BY <1>1, <1>2, <1>3

LEMMA TailIsSeq ==
  ASSUME NEW S, NEW q \in Seq(S), q # << >>
  PROVE  Head(q) \in S /\ Tail(q) \in Seq(S)
  OBVIOUS

LEMMA RestIsSeq ==
  ASSUME NEW S, NEW q \in Seq(S), NEW k \in Nat
  PROVE  SubSeq(q, k + 1, Len(q)) \in Seq(S)
<1> DEFINE m == k + 1
           n == Len(q)
<1>1. m \in Nat /\ m > 0 /\ n \in Nat
  OBVIOUS
<1>2. \A i \in m .. n : i \in 1 .. Len(q)
  BY <1>1
<1> HIDE DEF m, n
<1>3. SubSeq(q, m, n) \in Seq(S)
  BY <1>1, <1>2, SubSeqProperties DEF n
<1> QED
  BY <1>3 DEF m, n

(* A batch is the head of a queue.                                         *)
LEMMA BatchIsSeq ==
  ASSUME NEW S, NEW q \in Seq(S)
  PROVE  Loop!Batch(q) \in Seq(S) /\ Len(Loop!Batch(q)) \in Nat
<1> DEFINE stops == {i \in DOMAIN q : q[i].cmd \in {"transaction", "reply", "failed"}}
           n == IF stops = {} THEN Len(q) ELSE CHOOSE i \in stops : \A j \in stops : i <= j
<1>1. Loop!Batch(q) = SubSeq(q, 1, n)
  BY DEF Loop!Batch
<1>2. n \in Nat /\ n <= Len(q)
  <2>1. CASE stops = {}
    BY <2>1
  <2>2. CASE stops # {}
    <3>1. stops \subseteq Nat
      OBVIOUS
    <3>2. \E i \in stops : \A j \in stops : i <= j
      <4> HIDE DEF stops
      <4> QED
        BY <2>2, <3>1, Least
    <3>3. n \in stops
      <4> HIDE DEF stops
      <4> QED
        BY <2>2, <3>2
    <3> HIDE DEF n
    <3> QED
      BY <3>3
  <2> QED
    BY <2>1, <2>2
<1> HIDE DEF n
<1>3. SubSeq(q, 1, n) \in Seq(S)
  <2>1. \A i \in 1 .. n : i \in 1 .. Len(q)
    BY <1>2
  <2> QED
    BY <1>2, <2>1, SubSeqProperties
<1>4. Len(SubSeq(q, 1, n)) \in Nat
  BY <1>3
<1> QED
  BY <1>1, <1>3, <1>4

(* The steps of the thread.                                                *)
LEMMA ThreadKeepsIdentity ==
  ASSUME IdentityInv, Loop!Thread
  PROVE  IdentityInv'
<1>0. /\ mIn \in Seq(Incoming) /\ todo \in Seq(Incoming) /\ work \in Seq(Incoming)
      /\ mOut \in Seq(Outgoing) /\ pending \in Seq(Objects)
      /\ tstack \in Seq({"in", "out"})
      /\ stack \in Seq(Activations) /\ caller \in Identities
      /\ Nested(stack) /\ Restored(stack, caller)
  BY DEF IdentityInv, LoopTyped
<1>top. ASSUME stack # << >>
        PROVE  /\ Loop!Top \in Activations /\ Loop!Top = stack[Len(stack)]
               /\ Loop!Top.orig \in Identities /\ GoesOn(Loop!Top, caller)
  <2>1. Loop!Top = stack[Len(stack)] /\ Loop!Top \in Activations
    BY <1>0, <1>top, FrontOf DEF Loop!Top
  <2> QED
    BY <1>0, <1>top, <2>1 DEF Activations, Restored
<1>driver. ASSUME UNCHANGED Loop!driver PROVE UNCHANGED <<todo, work, tstack>>
  BY <1>driver DEF Loop!driver
<1>end. ASSUME stack # << >>, Loop!Pop, caller' = Loop!Top.orig
        PROVE  /\ stack' \in Seq(Activations) /\ caller' \in Identities
               /\ Nested(stack') /\ Restored(stack', caller')
  BY <1>0, <1>top, <1>end, EndKeeps DEF Loop!Pop
<1>over. ASSUME Loop!On({"wait", "derefs", "destroy"}) PROVE stack # << >> /\ caller = Loop!Top.orig
  BY <1>top, <1>over DEF Loop!On, Loop!Top, GoesOn
<1>1. CASE Loop!GetAndExecuteCommand \/ Loop!WaitExecutes
  <2>1. mIn # << >> /\ Loop!Execute(Head(mIn)) /\ mIn' = Tail(mIn) /\ UNCHANGED <<mOut, todo, work, tstack>>
    BY <1>1, <1>driver DEF Loop!GetAndExecuteCommand, Loop!WaitExecutes
  <2>2. Head(mIn) \in Incoming /\ Tail(mIn) \in Seq(Incoming)
    BY <1>0, <2>1, TailIsSeq
  <2> QED
    BY <1>0, <2>1, <2>2, ExecuteKeeps DEF IdentityInv, LoopTyped
<1>2. CASE Loop!WaitEnds
  <2>1. /\ Loop!On({"wait"}) /\ mIn # << >> /\ Loop!Pop /\ mIn' = Tail(mIn)
        /\ UNCHANGED <<mOut, caller, pending, todo, work, tstack>>
    BY <1>2, <1>driver DEF Loop!WaitEnds
  <2>2. stack # << >> /\ caller' = Loop!Top.orig
    BY <1>over, <2>1 DEF Loop!On
  <2>3. Tail(mIn) \in Seq(Incoming)
    BY <1>0, <2>1, TailIsSeq
  <2> QED
    BY <1>0, <1>end, <2>1, <2>2, <2>3 DEF IdentityInv, LoopTyped
<1>3. CASE \E o \in Objects \cup {Nobody}, oneway \in BOOLEAN : Loop!Call(o, oneway)
  <2>1. PICK o \in Objects \cup {Nobody}, oneway \in BOOLEAN : Loop!Call(o, oneway)
    BY <1>3
  <2>2. /\ mOut' = Append(mOut, Loop!Command("transaction", o, Nobody, oneway, 0))
        /\ stack' = Append(stack, Loop!Activation("wait", o, Nobody, oneway, 0))
        /\ UNCHANGED <<mIn, caller, pending, todo, work, tstack>>
    BY <2>1, <1>driver DEF Loop!Call, Loop!Push
  <2>3. Loop!Command("transaction", o, Nobody, oneway, 0) \in Outgoing
    BY DEF Loop!Command, Outgoing
  <2> DEFINE a == Loop!Activation("wait", o, Nobody, oneway, 0)
  <2>4. a \in Activations /\ a.orig = caller /\ a.kind = "wait"
    <3>1. "wait" \in Kinds /\ Nobody \in Callers \cup {Nobody} /\ 0 \in Nat
      BY DEF Kinds
    <3> QED
      BY <1>0, <3>1 DEF Loop!Activation, Activations
  <2> HIDE DEF a
  <2>5. /\ stack' \in Seq(Activations) /\ Nested(stack') /\ stack' # << >>
        /\ stack'[Len(stack')] = a
    BY <1>0, <2>2, <2>4, BeginKeeps DEF a
  <2>6. Restored(stack', caller')
    BY <2>2, <2>4, <2>5 DEF Restored, GoesOn
  <2>7. mOut' \in Seq(Outgoing)
    BY <1>0, <2>2, <2>3
  <2> QED
    BY <1>0, <2>2, <2>5, <2>6, <2>7 DEF IdentityInv, LoopTyped
<1>4. CASE Loop!ClearCallingIdentity
  <2>1. /\ stack # << >> /\ Loop!Top.kind = "serve" /\ caller' = Self
        /\ UNCHANGED <<mIn, mOut, stack, pending, todo, work, tstack>>
    BY <1>4, <1>driver DEF Loop!ClearCallingIdentity, Loop!On, Loop!Top
  <2>2. Restored(stack', caller')
    BY <1>top, <2>1 DEF Restored, GoesOn
  <2> QED
    BY <1>0, <2>1, <2>2, IdentitiesApart DEF IdentityInv, LoopTyped
<1>next. ASSUME stack # << >>, NEW a \in Activations, a.orig = Loop!Top.orig
         PROVE  /\ Append(Loop!Front(stack), a) \in Seq(Activations)
                /\ Nested(Append(Loop!Front(stack), a))
                /\ Append(Loop!Front(stack), a) # << >>
                /\ Append(Loop!Front(stack), a)[Len(Append(Loop!Front(stack), a))] = a
  BY <1>0, <1>top, <1>next, StepKeeps
<1>5. CASE Loop!ServeReturns
  <2> DEFINE a == [Loop!Top EXCEPT !.kind = "served"]
             s == Append(Loop!Front(stack), a)
             d == Loop!Activation("destroy", Loop!Top.obj, Nobody, FALSE, 0)
  <2>1. stack # << >> /\ UNCHANGED <<mIn, mOut, caller, pending, todo, work, tstack>>
    BY <1>5, <1>driver DEF Loop!ServeReturns, Loop!On
  <2>2. a \in Activations /\ a.orig = Loop!Top.orig /\ a.kind = "served"
    BY <1>top, <2>1 DEF Activations, Kinds
  <2>3. stack' = s \/ stack' = Append(s, d)
    BY <1>5 DEF Loop!ServeReturns
  <2>4. s \in Seq(Activations) /\ Nested(s) /\ s # << >> /\ s[Len(s)] = a /\ a.kind = "served"
    <3> HIDE DEF a
    <3> QED
      BY <1>next, <2>1, <2>2
  <2>5. d \in Activations /\ d.orig = caller /\ d.kind = "destroy"
    <3>1. /\ Loop!Top.obj \in Objects \cup {Nobody} /\ "destroy" \in Kinds
          /\ Nobody \in Callers \cup {Nobody} /\ 0 \in Nat /\ FALSE \in BOOLEAN
      BY <1>top, <2>1 DEF Activations, Kinds
    <3> QED
      BY <1>0, <3>1 DEF Loop!Activation, Activations
  <2> HIDE DEF s, a, d
  <2>6. Restored(s, caller)
    BY <2>4 DEF Restored, GoesOn
  <2>7. CASE stack' = s
    BY <1>0, <2>1, <2>4, <2>6, <2>7 DEF IdentityInv, LoopTyped
  <2>8. CASE stack' = Append(s, d)
    <3>1. /\ stack' \in Seq(Activations) /\ Nested(stack') /\ stack' # << >>
          /\ stack'[Len(stack')] = d
      BY <2>4, <2>5, <2>6, <2>8, BeginKeeps
    <3>2. Restored(stack', caller')
      BY <2>1, <2>5, <3>1 DEF Restored, GoesOn
    <3> QED
      BY <1>0, <2>1, <3>1, <3>2 DEF IdentityInv, LoopTyped
  <2> QED
    BY <2>3, <2>7, <2>8
<1>6. CASE Loop!SendReply
  <2> DEFINE a == [Loop!Top EXCEPT !.kind = "replied"]
             f == Loop!Front(stack)
             s == Append(f, a)
             w == Loop!Activation("wait", Nobody, Nobody, TRUE, 0)
             c == Loop!Command("reply", Nobody, Nobody, FALSE, 0)
  <2>1. stack # << >> /\ UNCHANGED <<mIn, caller, pending, todo, work, tstack>> /\ mOut' = Append(mOut, c)
    BY <1>6, <1>driver DEF Loop!SendReply, Loop!On
  <2>2. a \in Activations /\ a.orig = Loop!Top.orig /\ a.kind = "replied"
    BY <1>top, <2>1 DEF Activations, Kinds
  <2>3. stack' = f \o <<a, w>>
    BY <1>6, <2>2 DEF Loop!SendReply
  <2>4. s \in Seq(Activations) /\ Nested(s) /\ s # << >> /\ s[Len(s)] = a /\ a.kind = "replied"
    <3> HIDE DEF a
    <3> QED
      BY <1>next, <2>1, <2>2
  <2>5. w \in Activations /\ w.orig = caller /\ w.kind = "wait"
    <3>1. /\ Nobody \in Objects \cup {Nobody} /\ "wait" \in Kinds
          /\ Nobody \in Callers \cup {Nobody} /\ 0 \in Nat /\ TRUE \in BOOLEAN
      BY DEF Kinds
    <3> QED
      BY <1>0, <3>1 DEF Loop!Activation, Activations
  <2>6. f \in Seq(Activations) /\ a \in Activations
    <3>1. f \in Seq(Activations)
      BY <1>0, <2>1, FrontOf
    <3> QED
      BY <2>2, <3>1
  <2>7. c \in Outgoing
    BY DEF Loop!Command, Outgoing
  <2> HIDE DEF a, f, w, c
  <2>8. stack' = Append(s, w)
    BY <2>3, <2>5, <2>6
  <2> HIDE DEF s
  <2>9. Restored(s, caller)
    BY <2>4 DEF Restored, GoesOn
  <2>10. /\ stack' \in Seq(Activations) /\ Nested(stack') /\ stack' # << >>
         /\ stack'[Len(stack')] = w
    BY <2>4, <2>5, <2>8, <2>9, BeginKeeps
  <2>11. Restored(stack', caller') /\ mOut' \in Seq(Outgoing)
    BY <1>0, <2>1, <2>5, <2>7, <2>10 DEF Restored, GoesOn
  <2> QED
    BY <1>0, <2>1, <2>10, <2>11 DEF IdentityInv, LoopTyped
<1>7. CASE Loop!Transacted
  <2>1. /\ stack # << >> /\ Loop!Pop /\ caller' = Loop!Top.orig
        /\ UNCHANGED <<mIn, mOut, pending, todo, work, tstack>>
    BY <1>7, <1>driver DEF Loop!Transacted, Loop!On
  <2> QED
    BY <1>0, <1>end, <2>1 DEF IdentityInv, LoopTyped
<1>8. CASE Loop!BeginDerefs
  <2> DEFINE a == Loop!Activation("derefs", Nobody, Nobody, FALSE, 1)
  <2>1. /\ stack' = Append(stack, a)
        /\ UNCHANGED <<mIn, mOut, caller, pending, todo, work, tstack>>
    BY <1>8, <1>driver DEF Loop!BeginDerefs, Loop!Push
  <2>2. a \in Activations /\ a.orig = caller /\ a.kind = "derefs"
    <3>1. /\ Nobody \in Objects \cup {Nobody} /\ "derefs" \in Kinds
          /\ Nobody \in Callers \cup {Nobody} /\ 1 \in Nat /\ FALSE \in BOOLEAN
      BY DEF Kinds
    <3> QED
      BY <1>0, <3>1 DEF Loop!Activation, Activations
  <2> HIDE DEF a
  <2>3. /\ stack' \in Seq(Activations) /\ Nested(stack') /\ stack' # << >>
        /\ stack'[Len(stack')] = a
    BY <1>0, <2>1, <2>2, BeginKeeps
  <2>4. Restored(stack', caller')
    BY <2>1, <2>2, <2>3 DEF Restored, GoesOn
  <2> QED
    BY <1>0, <2>1, <2>3, <2>4 DEF IdentityInv, LoopTyped
<1>9. CASE Loop!Deref
  <2> DEFINE o == pending[Loop!Top.n]
             a == [Loop!Top EXCEPT !.n = @ + 1]
             s == Append(Loop!Front(stack), a)
             d == Loop!Activation("destroy", o, Nobody, FALSE, 0)
  <2>1. /\ stack # << >> /\ Loop!Top.kind = "derefs" /\ Loop!Top.n <= Len(pending)
        /\ UNCHANGED <<mIn, mOut, caller, pending, todo, work, tstack>>
    BY <1>9, <1>driver DEF Loop!Deref, Loop!On, Loop!Top
  <2>2. a \in Activations /\ a.orig = Loop!Top.orig /\ a.kind = "derefs" /\ caller = a.orig
    BY <1>top, <2>1 DEF Activations, GoesOn
  <2>3. stack' = s \/ (stack' = Append(s, d) /\ strongOf[o] = 1)
    BY <1>9 DEF Loop!Deref
  <2>4. s \in Seq(Activations) /\ Nested(s) /\ s # << >> /\ s[Len(s)] = a
    <3> HIDE DEF a
    <3> QED
      BY <1>next, <2>1, <2>2
  <2>5. d \in Activations /\ d.orig = caller /\ d.kind = "destroy"
    <3>1. /\ o \in Objects \cup {Nobody} /\ "destroy" \in Kinds
          /\ Nobody \in Callers \cup {Nobody} /\ 0 \in Nat /\ FALSE \in BOOLEAN
      BY <1>0, <1>top, <2>1 DEF Activations, Kinds
    <3> HIDE DEF o
    <3> QED
      BY <1>0, <3>1 DEF Loop!Activation, Activations
  <2> HIDE DEF s, a, d, o
  <2>6. Restored(s, caller)
    BY <2>2, <2>4 DEF Restored, GoesOn
  <2>7. CASE stack' = s
    BY <1>0, <2>1, <2>4, <2>6, <2>7 DEF IdentityInv, LoopTyped
  <2>8. CASE stack' = Append(s, d)
    <3>1. /\ stack' \in Seq(Activations) /\ Nested(stack') /\ stack' # << >>
          /\ stack'[Len(stack')] = d
      BY <2>4, <2>5, <2>6, <2>8, BeginKeeps
    <3>2. Restored(stack', caller')
      BY <2>1, <2>5, <3>1 DEF Restored, GoesOn
    <3> QED
      BY <1>0, <2>1, <3>1, <3>2 DEF IdentityInv, LoopTyped
  <2> QED
    BY <2>3, <2>7, <2>8
<1>10. CASE Loop!EndDerefs \/ Loop!Destroyed
  <2>1. /\ Loop!On({"wait", "derefs", "destroy"}) /\ Loop!Pop /\ pending' \in {pending, << >>}
        /\ UNCHANGED <<mIn, mOut, caller, todo, work, tstack>>
    BY <1>10, <1>driver DEF Loop!EndDerefs, Loop!Destroyed, Loop!On
  <2>2. stack # << >> /\ caller' = Loop!Top.orig
    BY <1>over, <2>1
  <2>3. pending' \in Seq(Objects)
    <3>1. << >> \in Seq(Objects)
      OBVIOUS
    <3> QED
      BY <1>0, <2>1, <3>1
  <2> QED
    BY <1>0, <1>end, <2>1, <2>2, <2>3 DEF IdentityInv, LoopTyped
<1>11. CASE Loop!WriteCommand
  <2> DEFINE c == Head(mOut)
             acquire == Loop!Command("acquire", c.obj, Nobody, FALSE, 0)
             failed == Loop!Command("failed", Nobody, Nobody, FALSE, 0)
  <2>1. mOut # << >> /\ mOut' = Tail(mOut) /\ UNCHANGED <<mIn, stack, caller, pending, work>>
    BY <1>11 DEF Loop!WriteCommand
  <2>2. c \in Outgoing /\ mOut' \in Seq(Outgoing)
    BY <1>0, <2>1, TailIsSeq
  <2>3. Loop!Complete \in Incoming /\ failed \in Incoming /\ (c.obj # Nobody => acquire \in Incoming)
    BY <2>2 DEF Loop!Complete, Loop!Command, Incoming, Outgoing
  <2>4. /\ tstack' = Append(tstack, "out") \/ tstack' = tstack
           \/ (tstack # << >> /\ tstack' = Loop!Front(tstack))
        /\ \/ c.obj # Nobody /\ todo' = (todo \o <<acquire>>) \o <<Loop!Complete>>
           \/ todo' = (todo \o << >>) \o <<Loop!Complete>>
           \/ todo' = Append(todo, Loop!Complete)
           \/ todo' = Append(todo, failed)
    BY <1>11 DEF Loop!WriteCommand
  <2> HIDE DEF c, acquire, failed
  <2>5. tstack' \in Seq({"in", "out"})
    <3> DEFINE Ways == {"in", "out"}
    <3>1. "out" \in Ways /\ tstack \in Seq(Ways)
      BY <1>0
    <3> HIDE DEF Ways
    <3>2. Append(tstack, "out") \in Seq(Ways)
      BY <3>1
    <3>3. tstack # << >> => Loop!Front(tstack) \in Seq(Ways)
      BY <3>1, FrontOf
    <3>4. tstack' \in Seq(Ways)
      BY <2>4, <3>1, <3>2, <3>3
    <3> QED
      BY <3>4 DEF Ways
  <2>6. todo' \in Seq(Incoming)
    <3>1. << >> \in Seq(Incoming) /\ <<Loop!Complete>> \in Seq(Incoming)
      BY <2>3
    <3>2. c.obj # Nobody => <<acquire>> \in Seq(Incoming)
      BY <2>3
    <3> DEFINE complete == Loop!Complete
    <3>3. complete \in Incoming
      BY <2>3
    <3>4. todo \in Seq(Incoming) /\ <<complete>> \in Seq(Incoming)
      BY <1>0, <3>1
    <3> HIDE DEF complete
    <3>5. c.obj # Nobody => todo \o <<acquire>> \in Seq(Incoming)
      BY <3>2, <3>4
    <3>6. c.obj # Nobody => (todo \o <<acquire>>) \o <<complete>> \in Seq(Incoming)
      BY <3>4, <3>5
    <3>7. (todo \o << >>) \o <<complete>> \in Seq(Incoming)
      <4>1. todo \o << >> \in Seq(Incoming)
        BY <3>1, <3>4
      <4> QED
        BY <3>4, <4>1
    <3>8. Append(todo, complete) \in Seq(Incoming) /\ Append(todo, failed) \in Seq(Incoming)
      BY <2>3, <3>3, <3>4
    <3> QED
      BY <2>4, <3>6, <3>7, <3>8 DEF complete
  <2> QED
    BY <1>0, <2>1, <2>2, <2>5, <2>6 DEF IdentityInv, LoopTyped
<1>12. CASE Loop!ReadCommands
  <2> DEFINE from == IF todo # << >> THEN todo ELSE work
             b == Loop!Batch(from)
             rest(q) == SubSeq(q, Len(b) + 1, Len(q))
  <2>1. /\ mIn' = b /\ UNCHANGED <<mOut, stack, caller, pending>> /\ b # << >>
        /\ tstack' = Append(tstack, "in") \/ tstack' = tstack
        /\ todo' \in {rest(todo), todo} /\ work' \in {rest(work), work}
    BY <1>12 DEF Loop!ReadCommands
  <2>2. from \in Seq(Incoming)
    BY <1>0
  <2> HIDE DEF from
  <2>3. b \in Seq(Incoming) /\ Len(b) \in Nat
    BY <2>2, BatchIsSeq
  <2> HIDE DEF b
  <2>4. rest(todo) \in Seq(Incoming) /\ rest(work) \in Seq(Incoming)
    BY <1>0, <2>3, RestIsSeq
  <2> HIDE DEF rest
  <2>5. tstack' \in Seq({"in", "out"})
    <3> DEFINE Ways == {"in", "out"}
    <3>1. "in" \in Ways /\ tstack \in Seq(Ways)
      BY <1>0
    <3> HIDE DEF Ways
    <3>2. tstack' \in Seq(Ways)
      BY <2>1, <3>1
    <3> QED
      BY <3>2 DEF Ways
  <2> QED
    BY <1>0, <2>1, <2>3, <2>4, <2>5 DEF IdentityInv, LoopTyped
<1> QED
  BY <1>1, <1>2, <1>3, <1>4, <1>5, <1>6, <1>7, <1>8, <1>9, <1>10, <1>11, <1>12 DEF Loop!Thread

(* Other processes leave the thread alone, and what they send is typed.    *)
LEMMA OthersKeepIdentity ==
  ASSUME IdentityInv, Loop!Others
  PROVE  IdentityInv'
<1>0. /\ mIn \in Seq(Incoming) /\ todo \in Seq(Incoming) /\ work \in Seq(Incoming)
      /\ tstack \in Seq({"in", "out"}) /\ Len(tstack) \in Nat
  BY DEF IdentityInv, LoopTyped
<1>1. UNCHANGED <<mIn, mOut, stack, caller, pending>>
  BY DEF Loop!Others, Loop!TransactionFor, Loop!CallBack, Loop!ReplyFor, Loop!DropReference
<1>2. \E c \in Incoming : /\ todo' \in {todo, Append(todo, c)} /\ work' \in {work, Append(work, c)}
                          /\ \/ tstack' = tstack
                             \/ tstack # << >> /\ tstack' = Loop!Front(tstack)
  <2>1. CASE \E o \in Objects, from \in Callers, oneway \in BOOLEAN : Loop!TransactionFor(o, from, oneway)
    <3>1. PICK o \in Objects, from \in Callers, oneway \in BOOLEAN : Loop!TransactionFor(o, from, oneway)
      BY <2>1
    <3>2. Loop!Command("transaction", o, from, oneway, 0) \in Incoming
      BY DEF Loop!Command, Incoming
    <3> QED
      BY <3>1, <3>2 DEF Loop!TransactionFor
  <2>2. CASE \E o \in Objects, from \in Callers : Loop!CallBack(o, from)
    <3>1. PICK o \in Objects, from \in Callers : Loop!CallBack(o, from)
      BY <2>2
    <3>2. Loop!Command("transaction", o, from, FALSE, 0) \in Incoming
      BY DEF Loop!Command, Incoming
    <3> QED
      BY <3>1, <3>2 DEF Loop!CallBack
  <2>3. CASE Loop!ReplyFor
    <3>1. Loop!Command("reply", Nobody, Nobody, FALSE, Len(tstack)) \in Incoming
      BY <1>0 DEF Loop!Command, Incoming
    <3> QED
      BY <2>3, <3>1 DEF Loop!ReplyFor
  <2>4. CASE \E o \in Objects : Loop!DropReference(o)
    <3>1. PICK o \in Objects : Loop!DropReference(o)
      BY <2>4
    <3>2. Loop!Command("release", o, Nobody, FALSE, 0) \in Incoming
      BY DEF Loop!Command, Incoming
    <3> QED
      BY <3>1, <3>2 DEF Loop!DropReference
  <2> QED
    BY <2>1, <2>2, <2>3, <2>4 DEF Loop!Others
<1>3. PICK c \in Incoming : /\ todo' \in {todo, Append(todo, c)} /\ work' \in {work, Append(work, c)}
                            /\ \/ tstack' = tstack
                               \/ tstack # << >> /\ tstack' = Loop!Front(tstack)
  BY <1>2
<1>4. todo' \in Seq(Incoming) /\ work' \in Seq(Incoming)
  <2>1. Append(todo, c) \in Seq(Incoming) /\ Append(work, c) \in Seq(Incoming)
    BY <1>0
  <2> QED
    BY <1>0, <1>3, <2>1
<1>5. tstack' \in Seq({"in", "out"})
  BY <1>0, <1>3, FrontOf
<1> QED
  BY <1>1, <1>4, <1>5 DEF IdentityInv, LoopTyped

LEMMA IdentityBegins ==
  ASSUME Loop!Init
  PROVE  IdentityInv
<1>1. /\ mIn = << >> /\ mOut = << >> /\ stack = << >> /\ caller = Self /\ pending = << >>
      /\ tstack = << >> /\ todo = << >> /\ work = << >>
  BY DEF Loop!Init
<1>2. Nested(<< >>)
  BY DEF Nested
<1> QED
  BY <1>1, <1>2, IdentitiesApart DEF IdentityInv, LoopTyped, Restored

(* What is restored is what the program finds.                             *)
LEMMA IdentityPromises ==
  ASSUME IdentityInv
  PROVE  IdentityIsKept
<1>1. stack \in Seq(Activations) /\ Restored(stack, caller)
  BY DEF IdentityInv, LoopTyped
<1>2. stack = << >> => caller = Self
  BY <1>1 DEF Restored
<1>3. ASSUME stack # << >> PROVE GoesOn(Loop!Top, caller) /\ Loop!Top = Loop!Last(stack)
  BY <1>1, <1>3, FrontOf DEF Restored, Loop!Top
<1> QED
  BY <1>2, <1>3 DEF IdentityIsKept, Loop!IdentityIsKept, Loop!On, GoesOn

(* Whatever calls, calls back and destructors interleave, the program      *)
(* finds its caller's identity, or its own, as it left it, and the idle    *)
(* thread has its own (executeCommand, waitForResponse, mCallingPid).      *)
THEOREM IdentityIsKeptAlways == ProcessSpec => []IdentityIsKept
<1>1. ProcessInit => IdentityInv
  BY IdentityBegins DEF ProcessInit
<1>2. IdentityInv /\ [ProcessNext]_<<vars, loopVars, used>> => IdentityInv'
  <2> SUFFICES ASSUME IdentityInv, [ProcessNext]_<<vars, loopVars, used>> PROVE IdentityInv'
    OBVIOUS
  <2>1. CASE Loop!Next
    BY <2>1, ThreadKeepsIdentity, OthersKeepIdentity DEF Loop!Next
  <2>2. CASE UNCHANGED loopVars
    BY <2>2 DEF loopVars, IdentityInv, LoopTyped
  <2> QED
    BY <2>1, <2>2 DEF ProcessNext
<1>3. IdentityInv => IdentityIsKept
  BY IdentityPromises
<1> QED
  BY <1>1, <1>2, <1>3, PTL DEF ProcessSpec

-----------------------------------------------------------------------------
(* The calls under way (IPCThreadState)                                    *)

(* Which activation is begun by which: the program calls from what it      *)
(* serves and from destructors; these are run by what was served and by    *)
(* the loop of derefs; while a call waits for its reply, and only then,    *)
(* another is served.                                                      *)
Above(a, b) ==
  \/ a.kind \in {"serve", "destroy"} /\ b.kind = "wait"
  \/ a.kind \in {"served", "derefs"} /\ b.kind = "destroy"
  \/ a.kind = "replied" /\ b.kind = "wait" /\ b.oneway /\ b.obj = Nobody
  \/ a.kind = "wait" /\ ~a.oneway /\ b.kind \in {"serve", "served", "replied"} /\ ~b.oneway

Upper(s) == s[Len(s)]
Begins(s, a) == IF s = << >> THEN a.kind \in {"serve", "served", "replied", "derefs"}
                ELSE Above(Upper(s), a)

(* What an activation is at its place i; left are the derefs put off.      *)
Placed(a, i, left) ==
  /\ a.kind = "wait" /\ (~a.oneway \/ a.obj # Nobody) => i <= MaxStack
  /\ a.kind = "derefs" => a.n <= left + 1
  /\ a.kind \in {"serve", "served", "destroy"} => a.obj \in Objects

Stacked(s, left) ==
  /\ s # << >> => s[1].kind \in {"serve", "served", "replied", "derefs"}
  /\ \A i \in 1 .. Len(s) - 1 : Above(s[i], s[i + 1])
  /\ \A i \in 1 .. Len(s) : Placed(s[i], i, left)

(* The transactions the stack has open, in or out.                         *)
IsOpen(a) == ~a.oneway /\ a.kind \in {"serve", "served", "wait"}
Opens == {a \in Activations : IsOpen(a)}
OpenCount(s) == Times(s, Opens)
Answered(s) == Len(s) > 1 /\ s[Len(s) - 1].kind = "replied"

LEMMA Grows ==
  ASSUME NEW s \in Seq(Activations), NEW a \in Activations, NEW left \in Nat
  PROVE  /\ Append(s, a) \in Seq(Activations) /\ Append(s, a) # << >>
         /\ Upper(Append(s, a)) = a /\ Len(Append(s, a)) = Len(s) + 1 /\ Len(s) \in Nat
         /\ Append(s, a)[1] = IF s = << >> THEN a ELSE s[1]
         /\ Stacked(Append(s, a), left) <=>
              Stacked(s, left) /\ Begins(s, a) /\ Placed(a, Len(s) + 1, left)
         /\ Answered(Append(s, a)) <=> s # << >> /\ Upper(s).kind = "replied"
         /\ OpenCount(Append(s, a)) = OpenCount(s) + (IF IsOpen(a) THEN 1 ELSE 0)
         /\ OpenCount(s) \in Nat
<1> DEFINE t == Append(s, a)
           n == Len(s)
<1>1. /\ t \in Seq(Activations) /\ t # << >> /\ Len(t) = n + 1 /\ n \in Nat
      /\ t[n + 1] = a /\ \A i \in 1 .. n : t[i] = s[i]
  BY AppendProperties
<1>2. s = << >> <=> n = 0
  BY EmptyHasNoLength
<1> HIDE DEF t, n
<1>3. Upper(t) = a /\ t[1] = IF s = << >> THEN a ELSE s[1]
  BY <1>1, <1>2 DEF Upper
<1>4. Stacked(t, left) <=> Stacked(s, left) /\ Begins(s, a) /\ Placed(a, n + 1, left)
  <2>1. ASSUME Stacked(t, left)
        PROVE  Stacked(s, left) /\ Begins(s, a) /\ Placed(a, n + 1, left)
    <3>1. \A i \in 1 .. n + 1 : Placed(t[i], i, left)
      BY <1>1, <2>1 DEF Stacked
    <3>2. \A i \in 1 .. n : Above(t[i], t[i + 1])
      BY <1>1, <2>1 DEF Stacked
    <3>3. Placed(a, n + 1, left) /\ \A i \in 1 .. n : Placed(s[i], i, left)
      BY <1>1, <3>1
    <3>4. \A i \in 1 .. n - 1 : Above(s[i], s[i + 1])
      <4> SUFFICES ASSUME NEW i \in 1 .. n - 1 PROVE Above(s[i], s[i + 1])
        OBVIOUS
      <4>1. i \in 1 .. n /\ i + 1 \in 1 .. n
        BY <1>1
      <4> QED
        BY <1>1, <3>2, <4>1
    <3>5. s # << >> => Above(s[n], a) /\ t[1] = s[1]
      BY <1>1, <1>2, <1>3, <3>2
    <3>6. t[1].kind \in {"serve", "served", "replied", "derefs"}
      BY <1>1, <2>1 DEF Stacked
    <3> QED
      BY <1>3, <3>3, <3>4, <3>5, <3>6 DEF Stacked, Begins, Upper, n
  <2>2. ASSUME Stacked(s, left), Begins(s, a), Placed(a, n + 1, left)
        PROVE  Stacked(t, left)
    <3>1. ASSUME NEW i \in 1 .. n + 1 PROVE Placed(t[i], i, left)
      <4>1. CASE i = n + 1
        BY <1>1, <2>2, <4>1
      <4>2. CASE i \in 1 .. n
        BY <1>1, <2>2, <4>2 DEF Stacked, n
      <4> QED
        BY <1>1, <4>1, <4>2
    <3>2. ASSUME NEW i \in 1 .. n PROVE Above(t[i], t[i + 1])
      <4>1. CASE i = n
        BY <1>1, <1>2, <2>2, <4>1 DEF Begins, Upper, n
      <4>2. CASE i \in 1 .. n - 1
        <5>1. i + 1 \in 1 .. n
          BY <1>1, <4>2
        <5> QED
          BY <1>1, <2>2, <4>2, <5>1 DEF Stacked, n
      <4> QED
        BY <1>1, <4>1, <4>2
    <3>3. t[1].kind \in {"serve", "served", "replied", "derefs"}
      BY <1>3, <2>2 DEF Stacked, Begins
    <3> QED
      BY <1>1, <3>1, <3>2, <3>3 DEF Stacked
  <2> QED
    BY <2>1, <2>2
<1>5. Answered(t) <=> s # << >> /\ Upper(s).kind = "replied"
  <2>1. CASE n = 0
    BY <1>1, <1>2, <2>1 DEF Answered
  <2>2. CASE n > 0
    <3>1. Len(t) - 1 = n /\ n \in 1 .. n /\ Len(t) > 1
      BY <1>1, <2>2
    <3> QED
      BY <1>1, <1>2, <2>2, <3>1 DEF Answered, Upper, n
  <2> QED
    BY <1>1, <2>1, <2>2
<1>6. OpenCount(t) = OpenCount(s) + (IF IsOpen(a) THEN 1 ELSE 0) /\ OpenCount(s) \in Nat
  BY TimesAppend, TimesIsNat DEF OpenCount, Opens, t
<1> QED
  BY <1>1, <1>3, <1>4, <1>5, <1>6 DEF t, n

(* The innermost activation, and what it was begun by.                     *)
LEMMA Unwinds ==
  ASSUME NEW s \in Seq(Activations), s # << >>, NEW left \in Nat, Stacked(s, left)
  PROVE  /\ s = Append(Loop!Front(s), Upper(s))
         /\ Loop!Front(s) \in Seq(Activations) /\ Upper(s) \in Activations
         /\ Loop!Last(s) = Upper(s) /\ Len(s) = Len(Loop!Front(s)) + 1
         /\ Stacked(Loop!Front(s), left) /\ Begins(Loop!Front(s), Upper(s))
         /\ Placed(Upper(s), Len(s), left)
         /\ s[1] = IF Loop!Front(s) = << >> THEN Upper(s) ELSE Loop!Front(s)[1]
         /\ Answered(s) <=> Loop!Front(s) # << >> /\ Upper(Loop!Front(s)).kind = "replied"
         /\ OpenCount(s) = OpenCount(Loop!Front(s)) + (IF IsOpen(Upper(s)) THEN 1 ELSE 0)
         /\ OpenCount(Loop!Front(s)) \in Nat
<1> DEFINE f == Loop!Front(s)
           a == Upper(s)
<1>1. /\ f \in Seq(Activations) /\ Len(f) = Len(s) - 1 /\ Len(s) \in Nat /\ Len(s) > 0
      /\ \A i \in 1 .. Len(s) - 1 : f[i] = s[i]
      /\ Loop!Last(s) = a /\ a \in Activations
  BY FrontOf DEF Upper
<1> HIDE DEF f
<1>2. s = Append(f, a)
  <2>1. /\ Append(f, a) \in Seq(Activations) /\ Len(Append(f, a)) = Len(f) + 1
        /\ \A i \in 1 .. Len(f) : Append(f, a)[i] = f[i]
        /\ Append(f, a)[Len(f) + 1] = a
    BY <1>1, AppendProperties
  <2>2. ASSUME NEW i \in 1 .. Len(s) PROVE s[i] = Append(f, a)[i]
    <3>1. CASE i = Len(s)
      BY <1>1, <2>1, <3>1 DEF Upper
    <3>2. CASE i \in 1 .. Len(f)
      BY <1>1, <2>1, <3>2
    <3> QED
      BY <1>1, <3>1, <3>2
  <2> QED
    BY <1>1, <2>1, <2>2, SeqEqual
<1> HIDE DEF a
<1>3. /\ Stacked(Append(f, a), left) <=>
              Stacked(f, left) /\ Begins(f, a) /\ Placed(a, Len(f) + 1, left)
      /\ Append(f, a)[1] = IF f = << >> THEN a ELSE f[1]
      /\ Answered(Append(f, a)) <=> f # << >> /\ Upper(f).kind = "replied"
      /\ OpenCount(Append(f, a)) = OpenCount(f) + (IF IsOpen(a) THEN 1 ELSE 0)
      /\ OpenCount(f) \in Nat /\ Len(Append(f, a)) = Len(f) + 1
  BY <1>1, Grows
<1>4. /\ s = Append(f, a) /\ f \in Seq(Activations) /\ a \in Activations
      /\ Loop!Last(s) = a /\ Len(s) = Len(f) + 1
      /\ Stacked(f, left) /\ Begins(f, a)
      /\ Placed(a, Len(s), left)
      /\ s[1] = IF f = << >> THEN a ELSE f[1]
      /\ Answered(s) <=> f # << >> /\ Upper(f).kind = "replied"
      /\ OpenCount(s) = OpenCount(f) + (IF IsOpen(a) THEN 1 ELSE 0)
      /\ OpenCount(f) \in Nat
  BY <1>1, <1>2, <1>3
<1> QED
  BY <1>4 DEF f, a

(* The derefs put off become more, or the loop that has done them ends.    *)
LEMMA MoreLeft ==
  ASSUME NEW s, NEW left \in Nat, NEW more \in Nat, left <= more, s \in Seq(Activations),
         Stacked(s, left)
  PROVE  Stacked(s, more)
<1>1. ASSUME NEW i \in 1 .. Len(s) PROVE Placed(s[i], i, more)
  <2>1. s[i] \in Activations /\ Placed(s[i], i, left)
    BY DEF Stacked
  <2> QED
    BY <2>1 DEF Placed, Activations
<1> QED
  BY <1>1 DEF Stacked

-----------------------------------------------------------------------------
(* The driver's stack: transactions in and out take turns.                 *)
Ways == {"in", "out"}
Turns(ts, n, last) ==
  /\ Len(ts) = n
  /\ ts # << >> => ts[Len(ts)] = last
  /\ \A i \in 1 .. Len(ts) - 1 : ts[i] # ts[i + 1]

LEMMA TurnsAppend ==
  ASSUME NEW ts \in Seq(Ways), NEW n, NEW a, Turns(ts, n, a), NEW b \in Ways, b # a
  PROVE  Turns(Append(ts, b), n + 1, b)
<1> DEFINE us == Append(ts, b)
           k == Len(ts)
<1>1. /\ Len(us) = k + 1 /\ k \in Nat /\ k = n
      /\ us[k + 1] = b /\ \A i \in 1 .. k : us[i] = ts[i]
  BY AppendProperties DEF Turns
<1>2. ts = << >> <=> k = 0
  BY EmptyHasNoLength
<1>3. ts # << >> => ts[k] = a
  BY DEF Turns
<1>4. \A i \in 1 .. k - 1 : ts[i] # ts[i + 1]
  BY DEF Turns
<1> HIDE DEF us, k
<1>5. ASSUME NEW i \in 1 .. k PROVE us[i] # us[i + 1]
  <2>1. CASE i = k
    BY <1>1, <1>2, <1>3, <2>1
  <2>2. CASE i \in 1 .. k - 1
    <3>1. i + 1 \in 1 .. k
      BY <1>1, <2>2
    <3> QED
      BY <1>1, <1>4, <2>2, <3>1
  <2> QED
    BY <1>1, <2>1, <2>2
<1>6. Turns(us, n + 1, b)
  BY <1>1, <1>5 DEF Turns
<1> QED
  BY <1>6 DEF us

LEMMA TurnsFront ==
  ASSUME NEW ts \in Seq(Ways), ts # << >>, NEW n, NEW a, Turns(ts, n, a), NEW b,
         Ways = {a, b}
  PROVE  Turns(Loop!Front(ts), n - 1, b) /\ Loop!Last(ts) = a /\ n \in Nat /\ n > 0
<1> DEFINE us == Loop!Front(ts)
           k == Len(ts)
<1>1. /\ us \in Seq(Ways) /\ Len(us) = k - 1 /\ k \in Nat /\ k > 0 /\ k = n
      /\ \A i \in 1 .. k - 1 : us[i] = ts[i]
      /\ Loop!Last(ts) = ts[k] /\ ts[k] = a
  BY FrontOf DEF Turns
<1>2. \A i \in 1 .. k - 1 : ts[i] # ts[i + 1]
  BY DEF Turns
<1>3. \A i \in 1 .. k : ts[i] \in Ways
  OBVIOUS
<1> HIDE DEF us, k
<1>4. us = << >> <=> Len(us) = 0
  BY <1>1, EmptyHasNoLength
<1>5. us # << >> => us[k - 1] = b
  <2> SUFFICES ASSUME us # << >> PROVE us[k - 1] = b
    OBVIOUS
  <2> DEFINE j == k - 1
  <2>1. j \in 1 .. k - 1 /\ j \in 1 .. k /\ j + 1 = k
    BY <1>1, <1>4
  <2>2. us[j] = ts[j] /\ ts[j] \in Ways /\ ts[j] # a
    BY <1>1, <1>2, <1>3, <2>1
  <2> QED
    BY <2>2
<1>6. ASSUME NEW i \in 1 .. (k - 1) - 1 PROVE us[i] # us[i + 1]
  <2>1. i \in 1 .. k - 1 /\ i + 1 \in 1 .. k - 1
    BY <1>1
  <2> QED
    BY <1>1, <1>2, <2>1
<1>7. Turns(us, n - 1, b)
  BY <1>1, <1>5, <1>6 DEF Turns
<1> QED
  BY <1>1, <1>7 DEF us

LEMMA TurnsLast ==
  ASSUME NEW ts \in Seq(Ways), NEW n, NEW a, Turns(ts, n, a)
  PROVE  /\ Len(ts) = n /\ n \in Nat /\ (ts = << >> <=> n = 0)
         /\ ts # << >> => Loop!Last(ts) = a
  BY EmptyHasNoLength, FrontOf DEF Turns

-----------------------------------------------------------------------------
(* What may come of a transaction that was written, in this order.         *)
Answers ==
  {c \in Incoming : /\ c.cmd \in {"acquire", "complete", "transaction", "reply"}
                    /\ c.cmd = "transaction" => ~c.oneway}
Rank(c) == IF c.cmd = "acquire" THEN 1 ELSE IF c.cmd = "complete" THEN 2 ELSE 3
Ranked(q) == \A i, j \in 1 .. Len(q) : i < j => Rank(q[i]) < Rank(q[j])
Has(q, c) == \E i \in 1 .. Len(q) : q[i].cmd = c

LEMMA HasTail ==
  ASSUME NEW T, NEW q \in Seq(T), q # << >>, NEW c
  PROVE  Has(q, c) <=> Head(q).cmd = c \/ Has(Tail(q), c)
<1> DEFINE t == Tail(q)
<1>1. /\ Len(q) \in Nat \ {0} /\ Len(t) = Len(q) - 1 /\ Head(q) = q[1]
      /\ \A i \in 1 .. Len(t) : t[i] = q[i + 1]
  BY HeadTailProperties, EmptySeq
<1> HIDE DEF t
<1>2. ASSUME Has(t, c) PROVE Has(q, c)
  <2>1. PICK i \in 1 .. Len(t) : t[i].cmd = c
    BY <1>2 DEF Has
  <2>2. i + 1 \in 1 .. Len(q) /\ q[i + 1].cmd = c
    BY <1>1, <2>1
  <2> QED
    BY <2>2 DEF Has
<1>3. ASSUME Has(q, c), Head(q).cmd # c PROVE Has(t, c)
  <2>1. PICK i \in 1 .. Len(q) : q[i].cmd = c
    BY <1>3 DEF Has
  <2>2. i - 1 \in 1 .. Len(t) /\ (i - 1) + 1 = i
    BY <1>1, <1>3, <2>1
  <2>3. t[i - 1] = q[i]
    BY <1>1, <2>2
  <2> QED
    BY <2>1, <2>2, <2>3 DEF Has
<1>4. Head(q).cmd = c => Has(q, c)
  BY <1>1 DEF Has
<1> QED
  BY <1>2, <1>3, <1>4 DEF t

LEMMA HasConcat ==
  ASSUME NEW T, NEW q \in Seq(T), NEW r \in Seq(T), NEW c
  PROVE  Has(q \o r, c) <=> Has(q, c) \/ Has(r, c)
<1> DEFINE s == q \o r
           n == Len(q)
<1>1. /\ Len(s) = n + Len(r) /\ n \in Nat /\ Len(r) \in Nat
      /\ \A i \in 1 .. Len(s) : s[i] = IF i <= n THEN q[i] ELSE r[i - n]
  BY ConcatProperties
<1> HIDE DEF s, n
<1>2. ASSUME NEW i \in 1 .. Len(s) PROVE s[i].cmd = c => Has(q, c) \/ Has(r, c)
  <2>1. CASE i <= n
    BY <1>1, <2>1 DEF Has, n
  <2>2. CASE i > n
    <3>1. i - n \in 1 .. Len(r)
      BY <1>1, <2>2
    <3> QED
      BY <1>1, <2>2, <3>1 DEF Has
  <2> QED
    BY <1>1, <2>1, <2>2
<1>3. ASSUME NEW i \in 1 .. Len(q) PROVE q[i].cmd = c => Has(s, c)
  BY <1>1 DEF Has, n
<1>4. ASSUME NEW i \in 1 .. Len(r) PROVE r[i].cmd = c => Has(s, c)
  <2>1. n + i \in 1 .. Len(s) /\ (n + i) - n = i /\ n + i > n
    BY <1>1
  <2>2. s[n + i] = r[i]
    BY <1>1, <2>1
  <2> QED
    BY <2>1, <2>2 DEF Has
<1> QED
  BY <1>2, <1>3, <1>4 DEF Has, s

LEMMA RankedTail ==
  ASSUME NEW q \in Seq(Answers), Ranked(q), q # << >>
  PROVE  /\ Tail(q) \in Seq(Answers) /\ Ranked(Tail(q)) /\ Head(q) \in Answers
         /\ Head(q) = q[1] /\ 1 \in 1 .. Len(q)
         /\ \A i \in 1 .. Len(Tail(q)) : i + 1 \in 1 .. Len(q) /\ Tail(q)[i] = q[i + 1]
         /\ \A i \in 1 .. Len(Tail(q)) : Rank(Head(q)) < Rank(Tail(q)[i])
         /\ Head(q).cmd \in {"transaction", "reply"} => Tail(q) = << >>
<1> DEFINE t == Tail(q)
<1>1. /\ Len(q) \in Nat \ {0} /\ Len(t) = Len(q) - 1 /\ Head(q) = q[1] /\ Head(q) \in Answers
      /\ \A i \in 1 .. Len(t) : t[i] = q[i + 1]
      /\ t \in Seq(Answers)
  BY HeadTailProperties, EmptySeq
<1> HIDE DEF t
<1>2. \A i \in 1 .. Len(t) : i + 1 \in 1 .. Len(q)
  BY <1>1
<1>3. \A i, j \in 1 .. Len(q) : i < j => Rank(q[i]) < Rank(q[j])
  BY DEF Ranked
<1>4. ASSUME NEW i \in 1 .. Len(t), NEW j \in 1 .. Len(t), i < j PROVE Rank(t[i]) < Rank(t[j])
  <2>1. i + 1 \in 1 .. Len(q) /\ j + 1 \in 1 .. Len(q) /\ i + 1 < j + 1
    BY <1>2, <1>4
  <2>2. Rank(q[i + 1]) < Rank(q[j + 1])
    BY <1>3, <2>1
  <2> QED
    BY <1>1, <2>2
<1>5. ASSUME NEW i \in 1 .. Len(t) PROVE Rank(Head(q)) < Rank(t[i])
  <2>1. i + 1 \in 1 .. Len(q) /\ 1 \in 1 .. Len(q) /\ 1 < i + 1
    BY <1>1, <1>2
  <2>2. Rank(q[1]) < Rank(q[i + 1])
    BY <1>3, <2>1
  <2> QED
    BY <1>1, <2>2
<1>6. ASSUME Head(q).cmd \in {"transaction", "reply"} PROVE t = << >>
  <2>1. \A i \in 1 .. Len(t) : 3 < Rank(t[i])
    BY <1>5, <1>6 DEF Rank
  <2>2. Len(t) = 0
    <3>1. Len(t) \in Nat /\ \A i \in 1 .. Len(t) : FALSE
      BY <1>1, <2>1 DEF Rank
    <3> QED
      BY <3>1
  <2> QED
    BY <1>1, <2>2, EmptyHasNoLength
<1>7. Ranked(t)
  BY <1>4 DEF Ranked
<1> QED
  BY <1>1, <1>2, <1>5, <1>6, <1>7 DEF t

LEMMA RankedAppend ==
  ASSUME NEW q \in Seq(Answers), Ranked(q), NEW x \in Answers,
         \A i \in 1 .. Len(q) : Rank(q[i]) < Rank(x)
  PROVE  /\ Append(q, x) \in Seq(Answers) /\ Ranked(Append(q, x))
         /\ Len(Append(q, x)) = Len(q) + 1 /\ Append(q, x)[Len(q) + 1] = x
         /\ \A i \in 1 .. Len(q) : Append(q, x)[i] = q[i]
         /\ \A c : Has(Append(q, x), c) <=> Has(q, c) \/ x.cmd = c
<1> DEFINE t == Append(q, x)
<1>1. /\ t \in Seq(Answers) /\ Len(t) = Len(q) + 1 /\ Len(q) \in Nat
      /\ t[Len(q) + 1] = x /\ \A i \in 1 .. Len(q) : t[i] = q[i]
  BY AppendProperties
<1> HIDE DEF t
<1>2. \A i \in 1 .. Len(t) : i = Len(q) + 1 \/ i \in 1 .. Len(q)
  BY <1>1
<1>3. ASSUME NEW i \in 1 .. Len(t), NEW j \in 1 .. Len(t), i < j PROVE Rank(t[i]) < Rank(t[j])
  <2>1. i \in 1 .. Len(q)
    BY <1>1, <1>3
  <2>2. CASE j = Len(q) + 1
    BY <1>1, <2>1, <2>2
  <2>3. CASE j \in 1 .. Len(q)
    BY <1>1, <1>3, <2>1, <2>3 DEF Ranked
  <2> QED
    BY <1>2, <2>2, <2>3
<1>4. ASSUME NEW c PROVE Has(t, c) <=> Has(q, c) \/ x.cmd = c
  <2>1. ASSUME Has(t, c) PROVE Has(q, c) \/ x.cmd = c
    <3>1. PICK i \in 1 .. Len(t) : t[i].cmd = c
      BY <2>1 DEF Has
    <3> QED
      BY <1>1, <1>2, <3>1 DEF Has
  <2>2. ASSUME Has(q, c) PROVE Has(t, c)
    <3>1. PICK i \in 1 .. Len(q) : q[i].cmd = c
      BY <2>2 DEF Has
    <3>2. i \in 1 .. Len(t) /\ t[i].cmd = c
      BY <1>1, <3>1
    <3> QED
      BY <3>2 DEF Has
  <2>3. ASSUME x.cmd = c PROVE Has(t, c)
    <3>1. Len(q) + 1 \in 1 .. Len(t) /\ t[Len(q) + 1].cmd = c
      BY <1>1, <2>3
    <3> QED
      BY <3>1 DEF Has
  <2> QED
    BY <2>1, <2>2, <2>3
<1>5. Ranked(t)
  BY <1>3 DEF Ranked
<1> QED
  BY <1>1, <1>4, <1>5 DEF t

(* What of a queue is handed over: it ends with the first transaction or   *)
(* reply.                                                                  *)
Stops == {"transaction", "reply", "failed"}
LEMMA BatchIs ==
  ASSUME NEW S, NEW q \in Seq(S)
  PROVE  \E n \in 0 .. Len(q) :
           /\ Loop!Batch(q) = SubSeq(q, 1, n) /\ Len(Loop!Batch(q)) = n
           /\ Loop!Batch(q) \in Seq(S)
           /\ \A i \in 1 .. n : Loop!Batch(q)[i] = q[i]
           /\ n = Len(q) \/ (n \in 1 .. Len(q) /\ q[n].cmd \in Stops)
           /\ \A i \in 1 .. n - 1 : q[i].cmd \notin Stops
<1> DEFINE stops == {i \in DOMAIN q : q[i].cmd \in {"transaction", "reply", "failed"}}
           n == IF stops = {} THEN Len(q) ELSE CHOOSE i \in stops : \A j \in stops : i <= j
<1>1. Loop!Batch(q) = SubSeq(q, 1, n)
  BY DEF Loop!Batch
<1>2. /\ n \in 0 .. Len(q) /\ (n = Len(q) \/ (n \in 1 .. Len(q) /\ q[n].cmd \in Stops))
      /\ \A i \in 1 .. n - 1 : q[i].cmd \notin Stops
  <2>0. Len(q) \in Nat /\ DOMAIN q = 1 .. Len(q)
    OBVIOUS
  <2>1. CASE stops = {}
    <3>1. n = Len(q) /\ n \in 0 .. Len(q)
      BY <2>0, <2>1
    <3>2. \A i \in 1 .. Len(q) : q[i].cmd \notin Stops
      BY <2>0, <2>1 DEF Stops
    <3> HIDE DEF n, stops
    <3>3. \A i \in 1 .. n - 1 : i \in 1 .. Len(q)
      BY <2>0, <3>1
    <3> QED
      BY <3>1, <3>2, <3>3
  <2>2. CASE stops # {}
    <3>1. stops \subseteq Nat
      OBVIOUS
    <3>2. \E i \in stops : \A j \in stops : i <= j
      <4> HIDE DEF stops
      <4> QED
        BY <2>2, <3>1, Least
    <3>3. n \in stops /\ \A j \in stops : n <= j
      <4> HIDE DEF stops
      <4> QED
        BY <2>2, <3>2
    <3> HIDE DEF n
    <3>4. n \in 1 .. Len(q) /\ q[n].cmd \in Stops
      BY <2>0, <3>3 DEF Stops
    <3>5. ASSUME NEW i \in 1 .. n - 1 PROVE q[i].cmd \notin Stops
      <4>1. i \in 1 .. Len(q) /\ i < n /\ i \in Nat /\ n \in Nat
        BY <3>4
      <4>2. i \notin stops
        <5> HIDE DEF stops
        <5> QED
          BY <3>3, <4>1
      <4> QED
        BY <2>0, <4>1, <4>2 DEF Stops
    <3>6. n \in 0 .. Len(q)
      BY <2>0, <3>4
    <3>7. \A i \in 1 .. n - 1 : q[i].cmd \notin Stops
      BY <3>5
    <3> HIDE DEF stops
    <3> QED
      BY <3>4, <3>6, <3>7
  <2> QED
    BY <2>1, <2>2
<1> HIDE DEF n
<1>3. /\ SubSeq(q, 1, n) \in Seq(S) /\ Len(SubSeq(q, 1, n)) = n
      /\ \A i \in 1 .. n : SubSeq(q, 1, n)[i] = q[i]
  <2>1. \A i \in 1 .. n : i \in 1 .. Len(q)
    BY <1>2
  <2> QED
    BY <1>2, <2>1, SubSeqProperties
<1> QED
  BY <1>1, <1>2, <1>3

(* All of what comes of a transaction is handed over at once.              *)
LEMMA BatchOfRanked ==
  ASSUME NEW q \in Seq(Answers), Ranked(q)
  PROVE  Loop!Batch(q) = q /\ SubSeq(q, Len(q) + 1, Len(q)) = << >>
<1>1. PICK n \in 0 .. Len(q) :
        /\ Loop!Batch(q) = SubSeq(q, 1, n)
        /\ n = Len(q) \/ (n \in 1 .. Len(q) /\ q[n].cmd \in Stops)
  BY BatchIs
<1>2. ASSUME n # Len(q) PROVE FALSE
  <2>1. n \in 1 .. Len(q) /\ q[n].cmd \in Stops /\ n < Len(q) /\ Len(q) \in 1 .. Len(q)
    BY <1>1, <1>2
  <2>2. Rank(q[n]) < Rank(q[Len(q)])
    BY <2>1 DEF Ranked
  <2> QED
    BY <2>1, <2>2 DEF Rank, Stops
<1>3. Loop!Batch(q) = q
  BY <1>1, <1>2, SubSeqFull
<1> QED
  <2>1. Len(q) \in Nat /\ Len(q) < Len(q) + 1
    OBVIOUS
  <2>2. SubSeq(q, Len(q) + 1, Len(q)) = << >>
    BY <2>1, SubSeqEmpty
  <2> QED
    BY <1>3, <2>2

-----------------------------------------------------------------------------
(* What the thread is at, and what it may still be sent.                   *)
Coming == mIn \o todo
Written(c, o, oneway) == Loop!Command(c, o, Nobody, oneway, 0)

(* It is in its loop.                                                      *)
Idle ==
  /\ stack = << >> /\ mOut = << >> /\ todo = << >>
  /\ \A i \in 1 .. Len(mIn) :
       mIn[i].cmd = "release" \/ (mIn[i].cmd = "transaction" /\ i = Len(mIn))
  /\ tstack = IF mIn # << >> /\ mIn[Len(mIn)].cmd = "transaction" /\ ~mIn[Len(mIn)].oneway
              THEN <<"in">> ELSE << >>

(* It runs the program, or is about to.                                    *)
Busy ==
  /\ stack # << >> /\ Upper(stack).kind \in {"serve", "served", "destroy", "derefs"}
  /\ mIn = << >> /\ mOut = << >> /\ todo = << >>
  /\ Turns(tstack, OpenCount(stack), "in")

(* It has a call to write, or a reply.                                     *)
Calling ==
  /\ stack # << >> /\ Upper(stack).kind = "wait" /\ ~Answered(stack)
  /\ mIn = << >> /\ todo = << >>
  /\ mOut = <<Written("transaction", Upper(stack).obj, Upper(stack).oneway)>>
  /\ Turns(tstack, OpenCount(stack) - (IF Upper(stack).oneway THEN 0 ELSE 1), "in")
Replying ==
  /\ stack # << >> /\ Upper(stack).kind = "wait" /\ Answered(stack)
  /\ mIn = << >> /\ todo = << >>
  /\ mOut = <<Written("reply", Nobody, FALSE)>>
  /\ Turns(tstack, OpenCount(stack) + 1, "in")

(* What comes is in order, and only the innermost call's object is         *)
(* acquired.                                                               *)
Expected ==
  /\ Coming \in Seq(Answers) /\ Ranked(Coming)
  /\ \A i \in 1 .. Len(Coming) : Coming[i].cmd = "acquire" => Coming[i].obj = Upper(stack).obj

(* It has written a one-way call, and waits for its completion.            *)
Sent ==
  /\ stack # << >> /\ Upper(stack).kind = "wait" /\ Upper(stack).oneway /\ ~Answered(stack)
  /\ mOut = << >> /\ Expected
  /\ Has(Coming, "complete") /\ ~Has(Coming, "transaction") /\ ~Has(Coming, "reply")
  /\ Turns(tstack, OpenCount(stack), "in")

(* It has written a call, or a reply within a call, which may be called    *)
(* back or replied to: nothing has come yet; or a call, which is not read  *)
(* yet, or is; or the reply.                                               *)
Open(s) ==
  \/ Upper(s).kind = "wait" /\ (~Upper(s).oneway \/ Answered(s))
  \/ Upper(s).kind = "replied"
Answering(in, q, ts, n) ==
  \/ ~Has(q, "transaction") /\ ~Has(q, "reply") /\ Turns(ts, n, "out")
  \/ ~Has(in, "transaction") /\ Has(q, "transaction") /\ n > 0 /\ Turns(ts, n, "out")
  \/ Has(in, "transaction") /\ n > 0 /\ Turns(ts, n + 1, "in")
  \/ Has(q, "reply") /\ n > 0 /\ Turns(ts, n - 1, "in")
Waiting ==
  /\ stack # << >> /\ Open(stack)
  /\ mOut = << >> /\ Expected
  /\ \A i \in 1 .. Len(Coming) : Coming[i].cmd = "reply" => Coming[i].depth = OpenCount(stack)
  /\ Upper(stack).kind = "wait" /\ Upper(stack).oneway => Has(Coming, "complete")
  /\ Upper(stack).kind = "replied" => ~Has(Coming, "complete") /\ ~Has(Coming, "acquire")
  /\ Answering(mIn, Coming, tstack, OpenCount(stack))

WorkOK == \A i \in 1 .. Len(work) : work[i].cmd \in {"release", "transaction"}
Phased == Idle \/ Busy \/ Calling \/ Replying \/ Sent \/ Waiting
CallsInv == IdentityInv /\ Stacked(stack, Len(pending)) /\ WorkOK /\ Phased

(* What a step keeps of it beside the types and the identities.            *)
InPhase == Stacked(stack, Len(pending)) /\ Phased

LEMMA CallsTyped ==
  ASSUME CallsInv
  PROVE  /\ mIn \in Seq(Incoming) /\ todo \in Seq(Incoming) /\ work \in Seq(Incoming)
         /\ mOut \in Seq(Outgoing) /\ pending \in Seq(Objects) /\ Len(pending) \in Nat
         /\ tstack \in Seq(Ways) /\ stack \in Seq(Activations) /\ caller \in Identities
         /\ Coming \in Seq(Incoming)
         /\ Stacked(stack, Len(pending)) /\ WorkOK /\ Phased
         /\ mIn = << >> => Coming = todo
         /\ todo = << >> => Coming = mIn
         /\ Nobody \notin Objects
<1>1. /\ mIn \in Seq(Incoming) /\ todo \in Seq(Incoming) /\ work \in Seq(Incoming)
      /\ mOut \in Seq(Outgoing) /\ pending \in Seq(Objects) /\ Len(pending) \in Nat
      /\ tstack \in Seq(Ways) /\ stack \in Seq(Activations) /\ caller \in Identities
      /\ Stacked(stack, Len(pending)) /\ WorkOK /\ Phased
  BY DEF CallsInv, IdentityInv, LoopTyped, Ways
<1>2. /\ Coming \in Seq(Incoming)
      /\ mIn = << >> => Coming = todo
      /\ todo = << >> => Coming = mIn
  BY <1>1, ConcatProperties, ConcatEmptySeq DEF Coming
<1>3. Nobody \notin Objects
  BY LoopAssumption DEF Loop!IPCThreadStateAssumption
<1> QED
  BY <1>1, <1>2, <1>3

(* The innermost activation.                                               *)
LEMMA Inner ==
  ASSUME CallsInv, stack # << >>
  PROVE  /\ stack = Append(Loop!Front(stack), Upper(stack))
         /\ Loop!Front(stack) \in Seq(Activations) /\ Upper(stack) \in Activations
         /\ Loop!Top = Upper(stack) /\ Len(stack) = Len(Loop!Front(stack)) + 1
         /\ Stacked(Loop!Front(stack), Len(pending)) /\ Begins(Loop!Front(stack), Upper(stack))
         /\ Placed(Upper(stack), Len(stack), Len(pending))
         /\ stack[1] = IF Loop!Front(stack) = << >> THEN Upper(stack) ELSE Loop!Front(stack)[1]
         /\ Answered(stack) <=>
              Loop!Front(stack) # << >> /\ Upper(Loop!Front(stack)).kind = "replied"
         /\ OpenCount(stack) = OpenCount(Loop!Front(stack)) + (IF IsOpen(Upper(stack)) THEN 1 ELSE 0)
         /\ OpenCount(Loop!Front(stack)) \in Nat
         /\ Loop!Front(stack) # << >> => Upper(Loop!Front(stack)) \in Activations
<1>1. stack \in Seq(Activations) /\ Len(pending) \in Nat /\ Stacked(stack, Len(pending))
  BY CallsTyped
<1>2. Loop!Top = Loop!Last(stack)
  BY DEF Loop!Top
<1>3. Loop!Front(stack) \in Seq(Activations)
  BY <1>1, Unwinds
<1>4. Loop!Front(stack) # << >> => Upper(Loop!Front(stack)) \in Activations
  BY <1>3, FrontOf DEF Upper
<1> QED
  BY <1>1, <1>2, <1>4, Unwinds

(* A transaction that is executed begins an activation.                    *)
LEMMA Serves ==
  ASSUME CallsInv, NEW c \in Incoming, c.cmd = "transaction", Loop!Execute(c)
  PROVE  \E a \in Activations :
           /\ stack' = Append(stack, a) /\ pending' = pending
           /\ a.kind = IF strongOf[c.obj] > 0 THEN "serve" ELSE "served"
           /\ a.obj = c.obj /\ a.obj \in Objects /\ a.oneway = c.oneway
<1> DEFINE k == IF strongOf[c.obj] > 0 THEN "serve" ELSE "served"
           a == Loop!Activation(k, c.obj, c.from, c.oneway, 0)
<1>1. stack' = Append(stack, a) /\ pending' = pending
  BY DEF Loop!Execute, Loop!Transact, Loop!Push
<1>2. caller \in Identities /\ k \in Kinds /\ k # "derefs"
  BY CallsTyped DEF Kinds
<1>3. /\ c.obj \in Objects /\ c.obj \in Objects \cup {Nobody} /\ c.oneway \in BOOLEAN
      /\ c.from \in Callers \cup {Nobody} /\ 0 \in Nat
  BY DEF Incoming
<1> HIDE DEF k
<1>4. a \in Activations /\ a.kind = k /\ a.obj = c.obj /\ a.oneway = c.oneway
  BY <1>2, <1>3 DEF Loop!Activation, Activations
<1> HIDE DEF a
<1> QED
  BY <1>1, <1>3, <1>4 DEF k

(* A release that is executed is put off.                                  *)
LEMMA PutsOff ==
  ASSUME CallsInv, NEW c \in Incoming, c.cmd = "release", Loop!Execute(c)
  PROVE  /\ stack' = stack /\ strongOf' = strongOf
         /\ pending' = Append(pending, c.obj) /\ c.obj \in Objects
         /\ Len(pending') = Len(pending) + 1 /\ Stacked(stack', Len(pending'))
<1>1. stack' = stack /\ strongOf' = strongOf /\ pending' = Append(pending, c.obj) /\ c.obj \in Objects
  BY DEF Loop!Execute, Loop!Release, Incoming
<1>2. Len(pending') = Len(pending) + 1 /\ Len(pending) \in Nat
  BY <1>1, CallsTyped, AppendProperties
<1>3. Stacked(stack, Len(pending) + 1)
  BY <1>2, CallsTyped, MoreLeft
<1> QED
  BY <1>1, <1>2, <1>3

(* The loop takes the next command: a release, or the transaction that     *)
(* comes last.                                                             *)
LEMMA LoopExecutes ==
  ASSUME CallsInv, Loop!GetAndExecuteCommand
  PROVE  InPhase'
<1> DEFINE c == Head(mIn)
           q == Tail(mIn)
<1>0. /\ mIn \in Seq(Incoming) /\ stack = << >> /\ mIn # << >> /\ Loop!Execute(c)
      /\ mIn' = q /\ UNCHANGED <<mOut, tstack, todo>>
  BY CallsTyped DEF Loop!GetAndExecuteCommand, Loop!driver
<1>1. /\ mOut = << >> /\ todo = << >>
      /\ \A i \in 1 .. Len(mIn) :
           mIn[i].cmd = "release" \/ (mIn[i].cmd = "transaction" /\ i = Len(mIn))
      /\ tstack = IF mIn[Len(mIn)].cmd = "transaction" /\ ~mIn[Len(mIn)].oneway
                  THEN <<"in">> ELSE << >>
  BY <1>0, CallsTyped DEF Phased, Idle, Busy, Calling, Replying, Sent, Waiting
<1>2. /\ c \in Incoming /\ q \in Seq(Incoming) /\ c = mIn[1]
      /\ Len(mIn) \in Nat \ {0} /\ Len(q) = Len(mIn) - 1 /\ (q = << >> <=> Len(mIn) = 1)
      /\ \A i \in 1 .. Len(q) : q[i] = mIn[i + 1]
  <2>1. /\ c \in Incoming /\ q \in Seq(Incoming) /\ c = mIn[1]
        /\ Len(mIn) \in Nat \ {0} /\ Len(q) = Len(mIn) - 1
        /\ \A i \in 1 .. Len(q) : q[i] = mIn[i + 1]
    BY <1>0, HeadTailProperties, EmptySeq
  <2> HIDE DEF q
  <2>2. q = << >> <=> Len(q) = 0
    BY <2>1, EmptyHasNoLength
  <2> QED
    BY <2>1, <2>2
<1> HIDE DEF c, q
<1>3. c.cmd = "release" \/ (c.cmd = "transaction" /\ Len(mIn) = 1)
  <2>1. 1 \in 1 .. Len(mIn)
    BY <1>2
  <2> QED
    BY <1>1, <1>2, <2>1
<1>4. CASE c.cmd = "release"
  <2>1. stack' = stack /\ Stacked(stack', Len(pending'))
    BY <1>0, <1>2, <1>4, PutsOff
  <2>2. \A i \in 1 .. Len(q) :
          q[i].cmd = "release" \/ (q[i].cmd = "transaction" /\ i = Len(q))
    <3> SUFFICES ASSUME NEW i \in 1 .. Len(q)
                 PROVE  q[i].cmd = "release" \/ (q[i].cmd = "transaction" /\ i = Len(q))
      OBVIOUS
    <3>1. i + 1 \in 1 .. Len(mIn) /\ (i + 1 = Len(mIn) => i = Len(q)) /\ q[i] = mIn[i + 1]
      BY <1>2
    <3> QED
      BY <1>1, <3>1
  <2>3. tstack = IF q # << >> /\ q[Len(q)].cmd = "transaction" /\ ~q[Len(q)].oneway
                 THEN <<"in">> ELSE << >>
    <3>1. CASE q = << >>
      <4>1. mIn[Len(mIn)].cmd = "release"
        BY <1>2, <1>4, <3>1
      <4> QED
        BY <1>1, <3>1, <4>1
    <3>2. CASE q # << >>
      <4>1. Len(q) \in 1 .. Len(q) /\ Len(q) + 1 = Len(mIn)
        BY <1>2, <3>2
      <4>2. q[Len(q)] = mIn[Len(mIn)]
        BY <1>2, <4>1
      <4> QED
        BY <1>1, <3>2, <4>2
    <3> QED
      BY <3>1, <3>2
  <2>4. Idle'
    BY <1>0, <1>1, <2>1, <2>2, <2>3 DEF Idle
  <2> QED
    BY <2>1, <2>4 DEF InPhase, Phased
<1>5. CASE c.cmd = "transaction" /\ Len(mIn) = 1
  <2>1. PICK a \in Activations :
           /\ stack' = Append(stack, a) /\ pending' = pending
           /\ a.kind = IF strongOf[c.obj] > 0 THEN "serve" ELSE "served"
           /\ a.obj = c.obj /\ a.obj \in Objects /\ a.oneway = c.oneway
    BY <1>0, <1>2, <1>5, Serves
  <2>2. stack \in Seq(Activations) /\ Len(pending) \in Nat /\ Stacked(stack, Len(pending))
    BY CallsTyped
  <2>3. /\ stack' # << >> /\ Upper(stack') = a
        /\ Stacked(stack', Len(pending)) <=>
             Stacked(stack, Len(pending)) /\ Begins(stack, a) /\ Placed(a, Len(stack) + 1, Len(pending))
        /\ OpenCount(stack') = OpenCount(stack) + (IF IsOpen(a) THEN 1 ELSE 0)
    BY <2>1, <2>2, Grows
  <2>4. a.kind \in {"serve", "served"}
    BY <2>1
  <2>5. Begins(stack, a) /\ Placed(a, Len(stack) + 1, Len(pending))
    BY <1>0, <2>1, <2>4 DEF Begins, Placed
  <2>6. OpenCount(stack) = 0 /\ (IsOpen(a) <=> ~c.oneway)
    BY <1>0, <2>1, <2>4, TimesEmpty DEF OpenCount, IsOpen
  <2>7. tstack = IF c.oneway THEN << >> ELSE <<"in">>
    BY <1>1, <1>2, <1>5
  <2>8. Turns(tstack, OpenCount(stack'), "in")
    <3>1. CASE c.oneway
      BY <2>3, <2>6, <2>7, <3>1 DEF Turns
    <3>2. CASE ~c.oneway
      <4>1. tstack = <<"in">> /\ OpenCount(stack') = 1
        BY <2>3, <2>6, <2>7, <3>2
      <4> QED
        BY <4>1 DEF Turns
    <3> QED
      BY <3>1, <3>2
  <2>9. Busy'
    BY <1>0, <1>1, <1>2, <1>5, <2>3, <2>4, <2>8 DEF Busy
  <2>10. Stacked(stack', Len(pending'))
    BY <2>1, <2>2, <2>3, <2>5
  <2> QED
    BY <2>9, <2>10 DEF InPhase, Phased
<1> QED
  BY <1>3, <1>4, <1>5

LEMMA OnTop ==
  ASSUME CallsInv, NEW K, Loop!On(K)
  PROVE  stack # << >> /\ Upper(stack).kind \in K
  BY Inner DEF Loop!On, Loop!Top

LEMMA RunsBusy ==
  ASSUME CallsInv, stack # << >>, Upper(stack).kind \in {"serve", "served", "destroy", "derefs"}
  PROVE  Busy
<1>1. Phased
  BY DEF CallsInv
<1>2. ~Idle /\ ~Calling /\ ~Replying /\ ~Sent
  BY DEF Idle, Calling, Replying, Sent
<1>3. ~Waiting
  BY DEF Waiting, Open
<1> QED
  BY <1>1, <1>2, <1>3 DEF Phased

(* It goes on busy, one activation more or less, or another.               *)
LEMMA StaysBusy ==
  ASSUME CallsInv, Busy, NEW s \in Seq(Activations), NEW a \in Activations,
         stack' = Append(s, a), UNCHANGED <<mIn, mOut, todo, tstack>>,
         Stacked(s, Len(pending)), Begins(s, a), Placed(a, Len(s) + 1, Len(pending)),
         UNCHANGED pending,
         a.kind \in {"serve", "served", "destroy", "derefs"},
         OpenCount(s) + (IF IsOpen(a) THEN 1 ELSE 0) = OpenCount(stack)
  PROVE  InPhase'
<1>0. Len(pending) \in Nat
  BY CallsTyped
<1>1. /\ stack' # << >> /\ Upper(stack') = a /\ Stacked(stack', Len(pending))
      /\ OpenCount(stack') = OpenCount(stack)
  BY <1>0, Grows
<1>2. Busy'
  BY <1>1 DEF Busy
<1> QED
  BY <1>1, <1>2 DEF InPhase, Phased

(* A destructor is run on top of what a step has made the innermost.       *)
LEMMA Destroys ==
  ASSUME CallsInv, Busy, NEW s \in Seq(Activations), NEW a \in Activations, NEW o \in Objects,
         stack' = Append(Append(s, a), Loop!Activation("destroy", o, Nobody, FALSE, 0)),
         UNCHANGED <<mIn, mOut, todo, tstack, pending>>,
         Stacked(s, Len(pending)), Begins(s, a), Placed(a, Len(s) + 1, Len(pending)),
         a.kind \in {"served", "derefs"},
         OpenCount(s) + (IF IsOpen(a) THEN 1 ELSE 0) = OpenCount(stack)
  PROVE  InPhase'
<1> DEFINE t == Append(s, a)
           d == Loop!Activation("destroy", o, Nobody, FALSE, 0)
<1>0. Len(pending) \in Nat /\ caller \in Identities
  BY CallsTyped
<1>1. /\ t \in Seq(Activations) /\ t # << >> /\ Upper(t) = a /\ Stacked(t, Len(pending))
      /\ OpenCount(t) = OpenCount(stack)
      /\ OpenCount(t) \in Nat
  <2>1. /\ t \in Seq(Activations) /\ t # << >> /\ Upper(t) = a /\ Stacked(t, Len(pending))
        /\ OpenCount(t) = OpenCount(stack)
    BY <1>0, Grows
  <2> HIDE DEF t
  <2> QED
    BY <2>1, TimesIsNat DEF OpenCount
<1>2. d \in Activations /\ d.kind = "destroy" /\ d.obj = o /\ ~d.oneway
  <2>1. /\ o \in Objects \cup {Nobody} /\ "destroy" \in Kinds
        /\ Nobody \in Callers \cup {Nobody} /\ 0 \in Nat /\ FALSE \in BOOLEAN
    BY DEF Kinds
  <2> QED
    BY <1>0, <2>1 DEF Loop!Activation, Activations
<1>3. stack' = Append(t, d)
  OBVIOUS
<1> HIDE DEF t, d
<1>4. Begins(t, d) /\ ~IsOpen(d) /\ Placed(d, Len(t) + 1, Len(pending))
  BY <1>1, <1>2 DEF Begins, Above, IsOpen, Placed
<1>5. OpenCount(t) + (IF IsOpen(d) THEN 1 ELSE 0) = OpenCount(stack)
  BY <1>1, <1>4
<1> QED
  BY <1>1, <1>2, <1>3, <1>4, <1>5, StaysBusy

LEMMA ServeReturnsInPhase ==
  ASSUME CallsInv, Loop!ServeReturns
  PROVE  InPhase'
<1> DEFINE f == Loop!Front(stack)
           a == Upper(stack)
           b == [a EXCEPT !.kind = "served"]
           d == Loop!Activation("destroy", a.obj, Nobody, FALSE, 0)
<1>1. /\ stack # << >> /\ a.kind = "serve" /\ UNCHANGED <<mIn, mOut, todo, tstack, pending>>
      /\ stack' = Append(f, b) \/ stack' = Append(Append(f, b), d)
  <2>1. Loop!On({"serve"})
    BY DEF Loop!ServeReturns
  <2>2. stack # << >> /\ a.kind = "serve" /\ Loop!Top = a
    BY <2>1, OnTop, Inner
  <2> QED
    BY <2>2 DEF Loop!ServeReturns, Loop!driver
<1>2. Busy
  BY <1>1, RunsBusy
<1>3. /\ f \in Seq(Activations) /\ a \in Activations
      /\ Stacked(f, Len(pending)) /\ Begins(f, a)
      /\ Placed(a, Len(f) + 1, Len(pending))
      /\ OpenCount(stack) = OpenCount(f) + (IF IsOpen(a) THEN 1 ELSE 0)
  BY <1>1, Inner
<1>4. /\ b \in Activations /\ b.kind = "served" /\ b.obj = a.obj /\ b.oneway = a.oneway
      /\ a.obj \in Objects
  BY <1>1, <1>3 DEF Activations, Kinds, Placed
<1> HIDE DEF f, b
<1>5. Begins(f, b) /\ (IsOpen(b) <=> IsOpen(a)) /\ Placed(b, Len(f) + 1, Len(pending))
  BY <1>1, <1>3, <1>4 DEF Begins, Above, IsOpen, Placed
<1> HIDE DEF a
<1>6. OpenCount(f) + (IF IsOpen(b) THEN 1 ELSE 0) = OpenCount(stack)
  BY <1>3, <1>5
<1>7. CASE stack' = Append(f, b)
  BY <1>1, <1>2, <1>3, <1>4, <1>5, <1>6, <1>7, StaysBusy
<1>8. CASE stack' = Append(Append(f, b), d)
  BY <1>1, <1>2, <1>3, <1>4, <1>5, <1>6, <1>8, Destroys
<1> QED
  BY <1>1, <1>7, <1>8

(* The derefs put off are done in a loop of their own, at the bottom.      *)
LEMMA LoopIsBelow ==
  ASSUME CallsInv, stack # << >>, Upper(stack).kind = "derefs"
  PROVE  Loop!Front(stack) = << >>
<1>1. Begins(Loop!Front(stack), Upper(stack))
  BY Inner
<1> QED
  BY <1>1 DEF Begins, Above

LEMMA NothingBelow ==
  ASSUME NEW left
  PROVE  Stacked(<< >>, left) /\ OpenCount(<< >>) = 0 /\ << >> \in Seq(Activations)
         /\ Len(<< >>) = 0
  BY TimesEmpty DEF Stacked, OpenCount

LEMMA BeginDerefsInPhase ==
  ASSUME CallsInv, Loop!BeginDerefs
  PROVE  InPhase'
<1> DEFINE a == Loop!Activation("derefs", Nobody, Nobody, FALSE, 1)
<1>1. /\ stack = << >> /\ mIn = << >> /\ stack' = Append(<< >>, a)
      /\ UNCHANGED <<mIn, mOut, todo, tstack, pending>>
  BY DEF Loop!BeginDerefs, Loop!Push, Loop!driver
<1>2. mOut = << >> /\ todo = << >> /\ tstack = << >>
  BY <1>1, CallsTyped DEF Phased, Idle, Busy, Calling, Replying, Sent, Waiting
<1>3. caller \in Identities /\ Len(pending) \in Nat
  BY CallsTyped
<1>4. a \in Activations /\ a.kind = "derefs" /\ a.n = 1 /\ ~a.oneway
  <2>1. /\ Nobody \in Objects \cup {Nobody} /\ "derefs" \in Kinds
        /\ Nobody \in Callers \cup {Nobody} /\ 1 \in Nat /\ FALSE \in BOOLEAN
    BY DEF Kinds
  <2> QED
    BY <1>3, <2>1 DEF Loop!Activation, Activations
<1> HIDE DEF a
<1>5. /\ Begins(<< >>, a) /\ ~IsOpen(a) /\ Placed(a, Len(<< >>) + 1, Len(pending))
  BY <1>3, <1>4 DEF Begins, IsOpen, Placed
<1>6. /\ stack' # << >> /\ Upper(stack') = a /\ Stacked(stack', Len(pending))
      /\ OpenCount(stack') = 0
  <2>1. << >> \in Seq(Activations) /\ Stacked(<< >>, Len(pending)) /\ OpenCount(<< >>) = 0
    BY NothingBelow
  <2> DEFINE none == << >>
  <2>2. /\ none \in Seq(Activations) /\ Stacked(none, Len(pending)) /\ OpenCount(none) = 0
        /\ stack' = Append(none, a) /\ Begins(none, a) /\ Placed(a, Len(none) + 1, Len(pending))
    BY <1>1, <1>5, <2>1
  <2> HIDE DEF none
  <2> QED
    BY <1>3, <1>4, <1>5, <2>2, Grows
<1>7. Turns(tstack, OpenCount(stack'), "in")
  BY <1>2, <1>6 DEF Turns
<1>8. Busy'
  BY <1>1, <1>2, <1>4, <1>6, <1>7 DEF Busy
<1> QED
  BY <1>1, <1>6, <1>8 DEF InPhase, Phased

LEMMA DerefInPhase ==
  ASSUME CallsInv, Loop!Deref
  PROVE  InPhase'
<1> DEFINE f == Loop!Front(stack)
           a == Upper(stack)
           b == [a EXCEPT !.n = @ + 1]
           d == Loop!Activation("destroy", pending[a.n], Nobody, FALSE, 0)
<1>1. /\ stack # << >> /\ a.kind = "derefs" /\ UNCHANGED <<mIn, mOut, todo, tstack, pending>>
      /\ a.n <= Len(pending)
      /\ stack' = Append(f, b) \/ stack' = Append(Append(f, b), d)
  <2>1. Loop!On({"derefs"})
    BY DEF Loop!Deref
  <2>2. stack # << >> /\ a.kind = "derefs" /\ Loop!Top = a
    BY <2>1, OnTop, Inner
  <2> QED
    BY <2>2 DEF Loop!Deref, Loop!driver
<1>2. Busy
  BY <1>1, RunsBusy
<1>3. /\ f \in Seq(Activations) /\ a \in Activations
      /\ Stacked(f, Len(pending)) /\ Begins(f, a)
      /\ OpenCount(stack) = OpenCount(f) + (IF IsOpen(a) THEN 1 ELSE 0)
      /\ pending \in Seq(Objects) /\ Len(pending) \in Nat
  BY <1>1, Inner, CallsTyped
<1>4. /\ b \in Activations /\ b.kind = "derefs" /\ b.oneway = a.oneway /\ b.n = a.n + 1
      /\ a.n \in 1 .. Len(pending)
  BY <1>1, <1>3 DEF Activations
<1>5. pending[a.n] \in Objects
  BY <1>3, <1>4
<1> HIDE DEF f, b
<1>6. Begins(f, b) /\ (IsOpen(b) <=> IsOpen(a)) /\ Placed(b, Len(f) + 1, Len(pending))
  BY <1>1, <1>3, <1>4 DEF Begins, Above, IsOpen, Placed
<1> HIDE DEF a
<1>7. OpenCount(f) + (IF IsOpen(b) THEN 1 ELSE 0) = OpenCount(stack)
  BY <1>3, <1>6
<1>8. CASE stack' = Append(f, b)
  BY <1>1, <1>2, <1>3, <1>4, <1>6, <1>7, <1>8, StaysBusy
<1>9. CASE stack' = Append(Append(f, b), d)
  BY <1>1, <1>2, <1>3, <1>4, <1>5, <1>6, <1>7, <1>9, Destroys
<1> QED
  BY <1>1, <1>8, <1>9

(* The innermost activation ends.                                          *)
LEMMA Ends ==
  ASSUME CallsInv, stack # << >>, Loop!Pop
  PROVE  /\ stack' = Loop!Front(stack) /\ stack' \in Seq(Activations)
         /\ Stacked(stack', Len(pending)) /\ Begins(stack', Upper(stack))
         /\ OpenCount(stack') \in Nat
         /\ OpenCount(stack) = OpenCount(stack') + (IF IsOpen(Upper(stack)) THEN 1 ELSE 0)
         /\ stack' = << >> => OpenCount(stack') = 0
  BY Inner, NothingBelow DEF Loop!Pop

LEMMA EndDerefsInPhase ==
  ASSUME CallsInv, Loop!EndDerefs
  PROVE  InPhase'
<1>1. /\ stack # << >> /\ Upper(stack).kind = "derefs" /\ UNCHANGED <<mIn, mOut, todo, tstack>>
      /\ Loop!Pop
  BY OnTop DEF Loop!EndDerefs, Loop!driver
<1>2. stack' = << >> /\ OpenCount(stack') = 0 /\ ~IsOpen(Upper(stack))
  BY <1>1, Ends, LoopIsBelow DEF IsOpen
<1>3. /\ mIn = << >> /\ mOut = << >> /\ todo = << >>
      /\ Turns(tstack, OpenCount(stack), "in")
  BY <1>1, RunsBusy DEF Busy
<1>4. tstack = << >>
  <2>1. OpenCount(stack) = 0
    BY <1>1, <1>2, Ends
  <2> QED
    BY <1>3, <2>1, TurnsLast, CallsTyped
<1>5. Idle' /\ Stacked(<< >>, Len(pending'))
  BY <1>1, <1>2, <1>3, <1>4, NothingBelow DEF Idle
<1> QED
  BY <1>2, <1>5 DEF InPhase, Phased

LEMMA DestroyedInPhase ==
  ASSUME CallsInv, Loop!Destroyed
  PROVE  InPhase'
<1>1. /\ stack # << >> /\ Upper(stack).kind = "destroy"
      /\ UNCHANGED <<mIn, mOut, todo, tstack, pending>> /\ Loop!Pop
  BY OnTop DEF Loop!Destroyed, Loop!driver
<1>2. /\ stack' # << >> /\ Upper(stack').kind \in {"served", "derefs"}
      /\ Stacked(stack', Len(pending))
      /\ OpenCount(stack) = OpenCount(stack')
  <2>1. ~IsOpen(Upper(stack))
    BY <1>1 DEF IsOpen
  <2>2. OpenCount(stack) = OpenCount(stack')
    BY <1>1, <2>1, Ends
  <2>3. Begins(stack', Upper(stack)) /\ Stacked(stack', Len(pending))
    BY <1>1, Ends
  <2> QED
    BY <1>1, <2>2, <2>3 DEF Begins, Above
<1>3. Busy'
  BY <1>1, <1>2, RunsBusy DEF Busy
<1> QED
  BY <1>1, <1>2, <1>3 DEF InPhase, Phased

LEMMA ClearInPhase ==
  ASSUME CallsInv, Loop!ClearCallingIdentity
  PROVE  InPhase'
<1>1. /\ stack # << >> /\ Upper(stack).kind = "serve"
      /\ UNCHANGED <<mIn, mOut, stack, todo, tstack, pending>>
  BY OnTop DEF Loop!ClearCallingIdentity, Loop!driver
<1>2. Busy'
  BY <1>1, RunsBusy DEF Busy
<1> QED
  BY <1>1, <1>2, CallsTyped DEF InPhase, Phased

LEMMA CallInPhase ==
  ASSUME CallsInv, NEW o \in Objects \cup {Nobody}, NEW oneway \in BOOLEAN, Loop!Call(o, oneway)
  PROVE  /\ InPhase' /\ Busy
         /\ \E a \in Activations : stack' = Append(stack, a) /\ a.kind = "wait" /\ a.obj = o
         /\ mOut' = <<Written("transaction", o, oneway)>>
<1> DEFINE a == Loop!Activation("wait", o, Nobody, oneway, 0)
<1>1. /\ stack # << >> /\ Upper(stack).kind \in {"serve", "destroy"} /\ Len(stack) < MaxStack
      /\ UNCHANGED <<mIn, todo, tstack, pending>>
      /\ mOut' = Append(mOut, Written("transaction", o, oneway))
      /\ stack' = Append(stack, a)
  BY OnTop DEF Loop!Call, Loop!Push, Loop!driver, Written
<1>2. Busy
  BY <1>1, RunsBusy
<1>3. /\ stack \in Seq(Activations) /\ Len(pending) \in Nat /\ caller \in Identities
      /\ Stacked(stack, Len(pending)) /\ tstack \in Seq(Ways)
  BY CallsTyped
<1>4. a \in Activations /\ a.kind = "wait" /\ a.obj = o /\ a.oneway = oneway
  <2>1. /\ "wait" \in Kinds /\ Nobody \in Callers \cup {Nobody} /\ 0 \in Nat
    BY DEF Kinds
  <2> QED
    BY <1>3, <2>1 DEF Loop!Activation, Activations
<1> HIDE DEF a
<1>5. /\ stack' # << >> /\ Upper(stack') = a /\ Len(stack) \in Nat
      /\ Stacked(stack', Len(pending)) <=>
           Stacked(stack, Len(pending)) /\ Begins(stack, a) /\ Placed(a, Len(stack) + 1, Len(pending))
      /\ Answered(stack') <=> stack # << >> /\ Upper(stack).kind = "replied"
      /\ OpenCount(stack') = OpenCount(stack) + (IF IsOpen(a) THEN 1 ELSE 0)
      /\ OpenCount(stack) \in Nat
  BY <1>1, <1>3, <1>4, Grows
<1>6. Begins(stack, a)
  BY <1>1, <1>4 DEF Begins, Above
<1>7. Placed(a, Len(stack) + 1, Len(pending))
  <2>1. MaxStack \in Nat
    BY LoopAssumption DEF Loop!IPCThreadStateAssumption
  <2>2. Len(stack) + 1 <= MaxStack
    BY <1>1, <1>5, <2>1
  <2> QED
    BY <1>4, <2>2 DEF Placed
<1>8. Stacked(stack', Len(pending'))
  BY <1>1, <1>3, <1>5, <1>6, <1>7
<1>9. mOut' = <<Written("transaction", o, oneway)>>
  BY <1>1, <1>2 DEF Busy
<1>10. Turns(tstack', OpenCount(stack') - (IF oneway THEN 0 ELSE 1), "in")
  <2>1. IsOpen(a) <=> ~oneway
    BY <1>4 DEF IsOpen
  <2>2. OpenCount(stack') - (IF oneway THEN 0 ELSE 1) = OpenCount(stack)
    BY <1>5, <2>1
  <2> QED
    BY <1>1, <1>2, <2>2 DEF Busy
<1>11. Calling'
  <2>1. ~Answered(stack') /\ Upper(stack').kind = "wait" /\ Upper(stack').obj = o
        /\ Upper(stack').oneway = oneway
    BY <1>1, <1>4, <1>5
  <2>2. mIn' = << >> /\ todo' = << >>
    BY <1>1, <1>2 DEF Busy
  <2> QED
    BY <1>5, <1>9, <1>10, <2>1, <2>2 DEF Calling
<1>12. InPhase'
  BY <1>8, <1>11 DEF InPhase, Phased
<1> QED
  BY <1>1, <1>2, <1>4, <1>9, <1>12

LEMMA SendReplyInPhase ==
  ASSUME CallsInv, Loop!SendReply
  PROVE  /\ InPhase' /\ Busy
         /\ mOut' = <<Written("reply", Nobody, FALSE)>>
         /\ \E b, w \in Activations :
              /\ stack' = Append(Append(Loop!Front(stack), b), w)
              /\ b.kind = "replied" /\ w.kind = "wait" /\ w.obj = Nobody
              /\ Upper(stack).kind = "served"
<1> DEFINE f == Loop!Front(stack)
           a == Upper(stack)
           b == [a EXCEPT !.kind = "replied"]
           w == Loop!Activation("wait", Nobody, Nobody, TRUE, 0)
<1>1. /\ stack # << >> /\ a.kind = "served" /\ ~a.oneway
      /\ UNCHANGED <<mIn, todo, tstack, pending>>
      /\ mOut' = Append(mOut, Written("reply", Nobody, FALSE))
      /\ stack' = f \o <<b, w>>
  <2>1. Loop!On({"served"})
    BY DEF Loop!SendReply
  <2>2. stack # << >> /\ a.kind = "served" /\ Loop!Top = a
    BY <2>1, OnTop, Inner
  <2> QED
    BY <2>2 DEF Loop!SendReply, Loop!driver, Written
<1>2. Busy
  BY <1>1, RunsBusy
<1>3. /\ f \in Seq(Activations) /\ a \in Activations
      /\ Stacked(f, Len(pending)) /\ Begins(f, a)
      /\ OpenCount(stack) = OpenCount(f) + (IF IsOpen(a) THEN 1 ELSE 0)
      /\ OpenCount(f) \in Nat /\ Len(pending) \in Nat /\ caller \in Identities
  BY <1>1, Inner, CallsTyped
<1>4. b \in Activations /\ b.kind = "replied" /\ ~b.oneway
  BY <1>1, <1>3 DEF Activations, Kinds
<1>5. w \in Activations /\ w.kind = "wait" /\ w.obj = Nobody /\ w.oneway
  <2>1. /\ "wait" \in Kinds /\ Nobody \in Callers \cup {Nobody} /\ 0 \in Nat
        /\ TRUE \in BOOLEAN /\ Nobody \in Objects \cup {Nobody}
    BY DEF Kinds
  <2> QED
    BY <1>3, <2>1 DEF Loop!Activation, Activations
<1>6. Begins(f, b) /\ ~IsOpen(b) /\ IsOpen(a) /\ Placed(b, Len(f) + 1, Len(pending))
  BY <1>1, <1>3, <1>4 DEF Begins, Above, IsOpen, Placed
<1> DEFINE s == Append(f, b)
<1> HIDE DEF f, b, w, a
<1>7. stack' = Append(s, w)
  BY <1>1, <1>3, <1>4, <1>5 DEF s
<1>8. /\ s \in Seq(Activations) /\ s # << >> /\ Upper(s) = b /\ Stacked(s, Len(pending))
      /\ OpenCount(s) = OpenCount(f)
  BY <1>3, <1>4, <1>6, Grows DEF s
<1>9. Begins(s, w) /\ ~IsOpen(w) /\ Placed(w, Len(s) + 1, Len(pending))
  BY <1>4, <1>5, <1>8 DEF Begins, Above, IsOpen, Placed
<1> HIDE DEF s
<1>10. /\ stack' # << >> /\ Upper(stack') = w /\ Stacked(stack', Len(pending))
       /\ Answered(stack') /\ OpenCount(stack') = OpenCount(s)
  BY <1>3, <1>4, <1>5, <1>7, <1>8, <1>9, Grows
<1>11. OpenCount(stack') + 1 = OpenCount(stack)
  BY <1>3, <1>6, <1>8, <1>10
<1>12. mOut' = <<Written("reply", Nobody, FALSE)>>
  BY <1>1, <1>2 DEF Busy
<1>13. Replying'
  <2>1. Turns(tstack', OpenCount(stack') + 1, "in") /\ mIn' = << >> /\ todo' = << >>
    BY <1>1, <1>2, <1>11 DEF Busy
  <2> QED
    BY <1>5, <1>10, <1>12, <2>1 DEF Replying
<1>14. InPhase'
  BY <1>1, <1>10, <1>13 DEF InPhase, Phased
<1>15. a.kind = "served" /\ stack' = Append(Append(f, b), w)
  BY <1>1, <1>7 DEF s
<1> QED
  BY <1>2, <1>4, <1>5, <1>12, <1>14, <1>15 DEF f, a

(* Nothing comes, and nothing may.                                         *)
LEMMA NothingComes ==
  ASSUME NEW T, NEW q \in Seq(T), \A c : ~Has(q, c)
  PROVE  q = << >>
<1>1. \A i \in 1 .. Len(q) : ~Has(q, q[i].cmd) /\ q[i].cmd = q[i].cmd
  BY Zenon
<1>2. \A i \in 1 .. Len(q) : Has(q, q[i].cmd)
  BY DEF Has
<1>3. Len(q) = 0
  <2>1. Len(q) \in Nat
    OBVIOUS
  <2>2. \A i \in 1 .. Len(q) : FALSE
    BY <1>1, <1>2
  <2> QED
    BY <2>1, <2>2
<1> QED
  BY <1>3, EmptyHasNoLength

LEMMA OnlyAnswers ==
  ASSUME NEW q \in Seq(Answers), NEW c, Has(q, c)
  PROVE  c \in {"acquire", "complete", "transaction", "reply"}
  BY DEF Has, Answers

LEMMA TransactedInPhase ==
  ASSUME CallsInv, Loop!Transacted
  PROVE  InPhase'
<1> DEFINE f == Loop!Front(stack)
           a == Upper(stack)
<1>1. /\ stack # << >>
      /\ a.kind = "replied" \/ (a.kind = "served" /\ a.oneway)
      /\ UNCHANGED <<mIn, mOut, todo, tstack, pending>> /\ Loop!Pop
  <2>1. Loop!On({"replied"}) \/ (Loop!On({"served"}) /\ Loop!Top.oneway)
    BY DEF Loop!Transacted
  <2>2. /\ stack # << >>
        /\ a.kind = "replied" \/ (a.kind = "served" /\ a.oneway)
    BY <2>1, OnTop, Inner
  <2> QED
    BY <2>1, <2>2, OnTop DEF Loop!Transacted, Loop!driver
<1>2. /\ stack' = f /\ f \in Seq(Activations) /\ Stacked(f, Len(pending)) /\ Begins(f, a)
      /\ OpenCount(f) \in Nat
      /\ OpenCount(stack) = OpenCount(f) + (IF IsOpen(a) THEN 1 ELSE 0)
      /\ f = << >> => OpenCount(f) = 0
      /\ f # << >> => Upper(f) \in Activations
      /\ tstack \in Seq(Ways) /\ Coming \in Seq(Incoming)
  BY <1>1, Ends, Inner, CallsTyped
<1>3. OpenCount(stack) = OpenCount(f)
  BY <1>1, <1>2 DEF IsOpen
<1>4. Coming' = Coming
  BY <1>1 DEF Coming
<1> HIDE DEF f
<1>5. CASE a.kind = "served" /\ a.oneway
  <2>1. /\ mIn = << >> /\ mOut = << >> /\ todo = << >> /\ Turns(tstack, OpenCount(stack), "in")
    BY <1>1, <1>5, RunsBusy DEF Busy
  <2>2. f = << >>
    BY <1>2, <1>5 DEF Begins, Above
  <2>3. tstack = << >>
    BY <1>2, <1>3, <2>1, <2>2, TurnsLast
  <2>4. Idle'
    BY <1>1, <1>2, <2>1, <2>2, <2>3 DEF Idle
  <2> QED
    BY <1>1, <1>2, <2>4 DEF InPhase, Phased
<1>6. CASE a.kind = "replied"
  <2>1. Waiting
    <3>1. Phased
      BY CallsTyped
    <3>2. ~Idle /\ ~Calling /\ ~Replying /\ ~Sent /\ ~Busy
      BY <1>1, <1>6 DEF Idle, Calling, Replying, Sent, Busy
    <3> QED
      BY <3>1, <3>2 DEF Phased
  <2>2. /\ mOut = << >> /\ Expected
        /\ \A i \in 1 .. Len(Coming) : Coming[i].cmd = "reply" => Coming[i].depth = OpenCount(f)
        /\ ~Has(Coming, "complete") /\ ~Has(Coming, "acquire")
        /\ Answering(mIn, Coming, tstack, OpenCount(f))
    BY <1>3, <1>6, <2>1 DEF Waiting
  <2>3. CASE f = << >>
    <3>1. OpenCount(f) = 0
      BY <1>2, <2>3
    <3>2. ~Has(Coming, "transaction") /\ ~Has(Coming, "reply") /\ Turns(tstack, 0, "out")
      BY <2>2, <3>1 DEF Answering
    <3>3. Coming = << >>
      <4>1. Coming \in Seq(Answers)
        BY <2>2 DEF Expected
      <4>2. \A c : ~Has(Coming, c)
        BY <2>2, <3>2, <4>1, OnlyAnswers
      <4> QED
        BY <4>1, <4>2, NothingComes
    <3>4. mIn = << >> /\ todo = << >>
      <4>1. mIn \in Seq(Incoming) /\ todo \in Seq(Incoming)
        BY CallsTyped
      <4> QED
        BY <3>3, <4>1, ConcatEqualIffEmpty DEF Coming
    <3>5. tstack = << >>
      BY <1>2, <3>2, TurnsLast
    <3>6. Idle'
      BY <1>1, <1>2, <2>2, <2>3, <3>4, <3>5 DEF Idle
    <3> QED
      BY <1>1, <1>2, <3>6 DEF InPhase, Phased
  <2>4. CASE f # << >>
    <3>1. Upper(f).kind = "wait" /\ ~Upper(f).oneway
      BY <1>2, <1>6, <2>4 DEF Begins, Above
    <3>2. Expected'
      <4>1. \A i \in 1 .. Len(Coming) : Coming[i].cmd # "acquire"
        BY <2>2 DEF Has
      <4> QED
        BY <1>4, <2>2, <4>1 DEF Expected
    <3>3. Open(f)
      BY <3>1 DEF Open
    <3>4. Waiting'
      BY <1>1, <1>2, <1>4, <2>2, <2>4, <3>1, <3>2, <3>3 DEF Waiting
    <3> QED
      BY <1>1, <1>2, <3>4 DEF InPhase, Phased
  <2> QED
    BY <2>3, <2>4
<1> QED
  BY <1>1, <1>5, <1>6

(* The thread takes the next command: so does what is to come.             *)
LEMMA TakesNext ==
  ASSUME CallsInv, mIn # << >>, mIn' = Tail(mIn), todo' = todo
  PROVE  /\ Coming # << >> /\ Head(Coming) = Head(mIn) /\ Coming' = Tail(Coming)
         /\ Head(mIn) \in Incoming
         /\ \A c : Has(mIn, c) <=> Head(mIn).cmd = c \/ Has(mIn', c)
<1>1. mIn \in Seq(Incoming) /\ todo \in Seq(Incoming)
  BY CallsTyped
<1> DEFINE h == Head(mIn)
           t == Tail(mIn)
<1>2. h \in Incoming /\ t \in Seq(Incoming) /\ mIn = <<h>> \o t
  <2>1. Len(mIn) \in Nat \ {0}
    BY <1>1, EmptySeq
  <2>2. SubSeq(mIn, 1, Len(mIn)) = <<mIn[1]>> \o SubSeq(mIn, 2, Len(mIn))
    BY <1>1, <2>1, SubSeqRecursiveFirst
  <2> QED
    BY <1>1, <2>1, <2>2, SubSeqFull, TailIsSubSeq, HeadTailProperties
<1>3. \A c : Has(mIn, c) <=> h.cmd = c \/ Has(t, c)
  BY <1>1, HasTail
<1>4. Coming' = t \o todo
  BY DEF Coming
<1> HIDE DEF h, t
<1>5. Coming = <<h>> \o (t \o todo)
  BY <1>1, <1>2, ConcatAssociative DEF Coming
<1> DEFINE r == t \o todo
<1>6. r \in Seq(Incoming)
  BY <1>1, <1>2
<1> HIDE DEF r
<1>7. /\ Coming # << >> /\ Head(Coming) = h /\ Tail(Coming) = r
  BY <1>2, <1>5, <1>6 DEF r
<1> QED
  BY <1>2, <1>3, <1>4, <1>7 DEF h, t, r

LEMMA InWait ==
  ASSUME CallsInv, Loop!On({"wait"}), mIn # << >>
  PROVE  Sent \/ Waiting
<1>1. stack # << >> /\ Upper(stack).kind = "wait" /\ Phased
  BY OnTop, CallsTyped
<1>2. ~Idle /\ ~Calling /\ ~Replying /\ ~Busy
  BY <1>1 DEF Idle, Calling, Replying, Busy
<1> QED
  BY <1>1, <1>2 DEF Phased

LEMMA ComesNext ==
  ASSUME CallsInv, Expected, mIn # << >>, mIn' = Tail(mIn), todo' = todo
  PROVE  /\ Head(mIn) \in Answers /\ Head(mIn) \in Incoming
         /\ Head(mIn) = Coming[1] /\ 1 \in 1 .. Len(Coming)
         /\ Coming' \in Seq(Answers) /\ Ranked(Coming')
         /\ \A i \in 1 .. Len(Coming') : i + 1 \in 1 .. Len(Coming) /\ Coming'[i] = Coming[i + 1]
         /\ \A i \in 1 .. Len(Coming') : Rank(Head(mIn)) < Rank(Coming'[i])
         /\ \A c : Has(Coming, c) <=> Head(mIn).cmd = c \/ Has(Coming', c)
         /\ \A c : Has(mIn, c) <=> Head(mIn).cmd = c \/ Has(mIn', c)
         /\ Head(mIn).cmd \in {"transaction", "reply"} =>
              Coming' = << >> /\ mIn' = << >> /\ todo' = << >>
<1> DEFINE q == Coming
           r == Coming'
<1>1. /\ q \in Seq(Answers) /\ Ranked(q)
      /\ q # << >> /\ Head(q) = Head(mIn) /\ r = Tail(q) /\ Head(mIn) \in Incoming
      /\ \A c : Has(mIn, c) <=> Head(mIn).cmd = c \/ Has(mIn', c)
  BY TakesNext DEF Expected
<1>2. /\ Tail(q) \in Seq(Answers) /\ Ranked(Tail(q)) /\ Head(q) \in Answers
      /\ Head(q) = q[1] /\ 1 \in 1 .. Len(q)
      /\ \A i \in 1 .. Len(Tail(q)) : i + 1 \in 1 .. Len(q) /\ Tail(q)[i] = q[i + 1]
      /\ \A i \in 1 .. Len(Tail(q)) : Rank(Head(q)) < Rank(Tail(q)[i])
      /\ Head(q).cmd \in {"transaction", "reply"} => Tail(q) = << >>
  BY <1>1, RankedTail
<1>3. \A c : Has(q, c) <=> Head(q).cmd = c \/ Has(Tail(q), c)
  BY <1>1, HasTail
<1>4. r = << >> => mIn' = << >> /\ todo' = << >>
  <2>1. mIn \in Seq(Incoming) /\ todo \in Seq(Incoming)
    BY CallsTyped
  <2>2. Tail(mIn) \in Seq(Incoming)
    BY <2>1, TailIsSeq
  <2> DEFINE t == Tail(mIn)
  <2>3. r = t \o todo /\ mIn' = t /\ todo' = todo
    BY DEF Coming
  <2> HIDE DEF t, r
  <2>4. t \o todo = << >> => t = << >> /\ todo = << >>
    BY <2>1, <2>2, ConcatEqualIffEmpty DEF t
  <2> QED
    BY <2>3, <2>4
<1> HIDE DEF q, r
<1>5. /\ Head(mIn) \in Answers /\ Head(mIn) \in Incoming
      /\ Head(mIn) = q[1] /\ 1 \in 1 .. Len(q)
      /\ r \in Seq(Answers) /\ Ranked(r)
      /\ \A i \in 1 .. Len(r) : i + 1 \in 1 .. Len(q) /\ r[i] = q[i + 1]
      /\ \A i \in 1 .. Len(r) : Rank(Head(mIn)) < Rank(r[i])
      /\ \A c : Has(q, c) <=> Head(mIn).cmd = c \/ Has(r, c)
      /\ \A c : Has(mIn, c) <=> Head(mIn).cmd = c \/ Has(mIn', c)
      /\ Head(mIn).cmd \in {"transaction", "reply"} =>
           r = << >> /\ mIn' = << >> /\ todo' = << >>
  BY <1>1, <1>2, <1>3, <1>4
<1> QED
  BY <1>5 DEF q, r

(* Both a call back and a reply cannot be on their way.                    *)
LEMMA OneAnswer ==
  ASSUME Expected
  PROVE  ~(Has(Coming, "transaction") /\ Has(Coming, "reply"))
<1> SUFFICES ASSUME Has(Coming, "transaction"), Has(Coming, "reply") PROVE FALSE
  OBVIOUS
<1>1. PICK i \in 1 .. Len(Coming) : Coming[i].cmd = "transaction"
  BY DEF Has
<1>2. PICK j \in 1 .. Len(Coming) : Coming[j].cmd = "reply"
  BY DEF Has
<1>3. i # j /\ Rank(Coming[i]) = 3 /\ Rank(Coming[j]) = 3
  BY <1>1, <1>2 DEF Rank
<1>4. i < j => Rank(Coming[i]) < Rank(Coming[j])
  BY DEF Expected, Ranked
<1>5. j < i => Rank(Coming[j]) < Rank(Coming[i])
  BY DEF Expected, Ranked
<1>6. i \in Nat /\ j \in Nat
  OBVIOUS
<1> QED
  BY <1>3, <1>4, <1>5, <1>6

(* What ends the wait: the completion of a one-way call, or of a reply;    *)
(* the reply to a call.                                                    *)
LEMMA WaitEndsInPhase ==
  ASSUME CallsInv, Loop!WaitEnds
  PROVE  /\ InPhase'
         /\ Expected /\ Head(mIn).cmd \in {"complete", "reply"}
         /\ stack # << >> /\ Upper(stack).kind = "wait" /\ stack' # << >>
<1> DEFINE f == Loop!Front(stack)
           a == Upper(stack)
           c == Head(mIn)
<1>1. /\ stack # << >> /\ a.kind = "wait" /\ Loop!Pop /\ mIn # << >> /\ mIn' = Tail(mIn)
      /\ UNCHANGED <<mOut, pending, tstack, todo>>
      /\ IF a.oneway THEN c.cmd \in {"complete", "failed"} ELSE c.cmd \in {"reply", "failed"}
  <2>1. Loop!On({"wait"})
    BY DEF Loop!WaitEnds
  <2>2. stack # << >> /\ a.kind = "wait" /\ Loop!Top = a
    BY <2>1, OnTop, Inner
  <2> QED
    BY <2>2 DEF Loop!WaitEnds, Loop!EndsWait, Loop!driver
<1>2. /\ stack' = f /\ Stacked(f, Len(pending)) /\ Begins(f, a)
      /\ OpenCount(f) \in Nat
      /\ OpenCount(stack) = OpenCount(f) + (IF IsOpen(a) THEN 1 ELSE 0)
      /\ Answered(stack) <=> f # << >> /\ Upper(f).kind = "replied"
      /\ tstack \in Seq(Ways)
  BY <1>1, Ends, Inner, CallsTyped
<1>3. Sent \/ Waiting
  BY <1>1, InWait DEF Loop!WaitEnds
<1>4. Expected /\ mOut = << >>
  BY <1>3 DEF Sent, Waiting
<1>5. /\ c \in Answers
      /\ Coming' \in Seq(Answers) /\ Ranked(Coming')
      /\ \A i \in 1 .. Len(Coming') : i + 1 \in 1 .. Len(Coming) /\ Coming'[i] = Coming[i + 1]
      /\ \A i \in 1 .. Len(Coming') : Rank(c) < Rank(Coming'[i])
      /\ \A d : Has(Coming, d) <=> c.cmd = d \/ Has(Coming', d)
      /\ \A d : Has(mIn, d) <=> c.cmd = d \/ Has(mIn', d)
      /\ c.cmd \in {"transaction", "reply"} =>
           Coming' = << >> /\ mIn' = << >> /\ todo' = << >>
  BY <1>1, <1>4, ComesNext
<1>6. IF a.oneway THEN c.cmd = "complete" ELSE c.cmd = "reply"
  BY <1>1, <1>5 DEF Answers
<1>7. f # << >> /\ Upper(f).kind \in {"serve", "destroy", "replied"}
  BY <1>1, <1>2 DEF Begins, Above
<1> HIDE DEF f, c
<1>8. CASE Sent
  <2>1. /\ a.oneway /\ ~Answered(stack) /\ c.cmd = "complete"
        /\ ~Has(Coming, "transaction") /\ ~Has(Coming, "reply")
        /\ Turns(tstack, OpenCount(stack), "in")
    BY <1>6, <1>8 DEF Sent
  <2>2. \A d : ~Has(Coming', d)
    <3> SUFFICES ASSUME NEW d, Has(Coming', d) PROVE FALSE
      OBVIOUS
    <3>1. PICK i \in 1 .. Len(Coming') : Coming'[i].cmd = d
      BY DEF Has
    <3>2. d \in {"transaction", "reply"}
      <4>1. Rank(c) < Rank(Coming'[i])
        BY <1>5
      <4>2. Rank(Coming'[i]) = 3 /\ Coming'[i].cmd \notin {"acquire", "complete"}
        BY <2>1, <4>1 DEF Rank
      <4>3. d \in {"acquire", "complete", "transaction", "reply"}
        BY <1>5, OnlyAnswers
      <4> QED
        BY <3>1, <4>2, <4>3
    <3> QED
      BY <1>5, <2>1, <3>2
  <2>3. Coming' = << >>
    <3> DEFINE r == Coming'
    <3>1. r \in Seq(Answers) /\ \A d : ~Has(r, d)
      BY <1>5, <2>2
    <3> HIDE DEF r
    <3>2. r = << >>
      BY <3>1, NothingComes
    <3> QED
      BY <3>2 DEF r
  <2>4. mIn' = << >> /\ todo' = << >>
    <3>1. Tail(mIn) \in Seq(Incoming) /\ todo \in Seq(Incoming)
      BY <1>1, CallsTyped, TailIsSeq
    <3>2. Tail(mIn) \o todo = << >>
      BY <1>1, <2>3 DEF Coming
    <3> QED
      BY <1>1, <3>1, <3>2, ConcatEqualIffEmpty
  <2>5. Upper(f).kind \in {"serve", "destroy"} /\ OpenCount(f) = OpenCount(stack)
    BY <1>2, <1>7, <2>1 DEF IsOpen
  <2>6. Busy'
    BY <1>1, <1>2, <1>4, <1>7, <2>1, <2>4, <2>5 DEF Busy
  <2> QED
    BY <1>1, <1>2, <1>4, <1>6, <1>7, <2>6 DEF InPhase, Phased, c
<1>9. CASE Waiting /\ ~a.oneway
  <2>1. c.cmd = "reply" /\ Has(Coming, "reply") /\ ~Has(Coming, "transaction")
    BY <1>4, <1>5, <1>6, <1>9, OneAnswer
  <2>2. ~Has(mIn, "transaction")
    <3>1. Has(Coming, "transaction") <=> Has(mIn, "transaction") \/ Has(todo, "transaction")
      BY CallsTyped, HasConcat DEF Coming
    <3> QED
      BY <2>1, <3>1
  <2>3. Turns(tstack, OpenCount(stack) - 1, "in")
    <3>1. Answering(mIn, Coming, tstack, OpenCount(stack))
      BY <1>9 DEF Waiting
    <3> QED
      BY <2>1, <2>2, <3>1 DEF Answering
  <2>4. IsOpen(a) /\ OpenCount(stack) - 1 = OpenCount(f)
    <3>1. IsOpen(a)
      BY <1>1, <1>9 DEF IsOpen
    <3> QED
      BY <1>2, <3>1
  <2>5. Upper(f).kind \in {"serve", "destroy"}
    BY <1>1, <1>2, <1>7, <1>9 DEF Begins, Above
  <2>6. Busy'
    BY <1>1, <1>2, <1>4, <1>5, <1>7, <2>1, <2>3, <2>4, <2>5 DEF Busy
  <2> QED
    BY <1>1, <1>2, <1>4, <1>6, <1>7, <2>6 DEF InPhase, Phased, c
<1>10. CASE Waiting /\ a.oneway
  <2>1. c.cmd = "complete" /\ Upper(f).kind = "replied" /\ OpenCount(f) = OpenCount(stack)
    <3>1. Answered(stack)
      BY <1>1, <1>10 DEF Waiting, Open
    <3> QED
      BY <1>2, <1>6, <1>10, <3>1 DEF IsOpen
  <2>2. ~Has(Coming', "complete") /\ ~Has(Coming', "acquire")
    BY <1>5, <2>1 DEF Has, Rank
  <2>3. Expected'
    <3>1. \A i \in 1 .. Len(Coming') : Coming'[i].cmd # "acquire"
      BY <2>2 DEF Has
    <3> QED
      BY <1>5, <3>1 DEF Expected
  <2>4. \A i \in 1 .. Len(Coming') : Coming'[i].cmd = "reply" => Coming'[i].depth = OpenCount(f)
    BY <1>5, <1>10, <2>1 DEF Waiting
  <2>5. Answering(mIn', Coming', tstack, OpenCount(f))
    <3>1. Answering(mIn, Coming, tstack, OpenCount(f))
      BY <1>10, <2>1 DEF Waiting
    <3>2. /\ Has(Coming, "transaction") <=> Has(Coming', "transaction")
          /\ Has(Coming, "reply") <=> Has(Coming', "reply")
          /\ Has(mIn, "transaction") <=> Has(mIn', "transaction")
      BY <1>5, <2>1
    <3> QED
      BY <3>1, <3>2 DEF Answering
  <2>6. Open(f)
    BY <2>1 DEF Open
  <2>7. Waiting'
    BY <1>1, <1>2, <1>4, <1>7, <2>1, <2>2, <2>3, <2>4, <2>5, <2>6 DEF Waiting
  <2> QED
    BY <1>1, <1>2, <1>4, <1>6, <1>7, <2>7 DEF InPhase, Phased, c
<1> QED
  BY <1>3, <1>8, <1>9, <1>10

(* What a wait executes: an acquire, the completion of a call, or a call   *)
(* back.                                                                   *)
LEMMA WaitExecutesInPhase ==
  ASSUME CallsInv, Loop!WaitExecutes
  PROVE  /\ InPhase'
         /\ Expected /\ Head(mIn).cmd \in {"acquire", "complete", "transaction"}
         /\ stack # << >>
<1> DEFINE a == Upper(stack)
           c == Head(mIn)
<1>1. /\ stack # << >> /\ a.kind = "wait" /\ Loop!Execute(c) /\ mIn # << >> /\ mIn' = Tail(mIn)
      /\ UNCHANGED <<mOut, tstack, todo>>
      /\ IF a.oneway THEN c.cmd \notin {"complete", "failed"} ELSE c.cmd \notin {"reply", "failed"}
  <2>1. Loop!On({"wait"})
    BY DEF Loop!WaitExecutes
  <2>2. stack # << >> /\ a.kind = "wait" /\ Loop!Top = a
    BY <2>1, OnTop, Inner
  <2> QED
    BY <2>2 DEF Loop!WaitExecutes, Loop!EndsWait, Loop!driver
<1>2. /\ stack \in Seq(Activations) /\ Len(pending) \in Nat /\ Stacked(stack, Len(pending))
      /\ OpenCount(stack) \in Nat /\ a \in Activations
  BY <1>1, Inner, CallsTyped, TimesIsNat DEF OpenCount
<1>3. Sent \/ Waiting
  BY <1>1, InWait DEF Loop!WaitExecutes
<1>4. Expected /\ mOut = << >>
  BY <1>3 DEF Sent, Waiting
<1>5. /\ c \in Answers /\ c \in Incoming /\ c = Coming[1] /\ 1 \in 1 .. Len(Coming)
      /\ Coming' \in Seq(Answers) /\ Ranked(Coming')
      /\ \A i \in 1 .. Len(Coming') : i + 1 \in 1 .. Len(Coming) /\ Coming'[i] = Coming[i + 1]
      /\ \A i \in 1 .. Len(Coming') : Rank(c) < Rank(Coming'[i])
      /\ \A d : Has(Coming, d) <=> c.cmd = d \/ Has(Coming', d)
      /\ \A d : Has(mIn, d) <=> c.cmd = d \/ Has(mIn', d)
      /\ c.cmd \in {"transaction", "reply"} =>
           Coming' = << >> /\ mIn' = << >> /\ todo' = << >>
  BY <1>1, <1>4, ComesNext
<1>6. ASSUME c.cmd \in {"transaction", "reply"} PROVE \A d : Has(Coming, d) => d = c.cmd
  <2>1. \A d : ~Has(<< >>, d)
    BY DEF Has
  <2> QED
    BY <1>5, <1>6, <2>1
<1>7. c.cmd = "acquire" \/ (c.cmd \in {"complete", "transaction"} /\ ~a.oneway)
  <2>1. c.cmd \in {"acquire", "complete", "transaction", "reply"}
    BY <1>5 DEF Answers
  <2>2. ASSUME a.oneway, c.cmd \in {"transaction", "reply"} PROVE FALSE
    <3>1. Has(Coming, "complete")
      BY <1>1, <1>3, <2>2 DEF Sent, Waiting
    <3> QED
      BY <1>6, <2>2, <3>1
  <2> QED
    BY <1>1, <2>1, <2>2
<1> HIDE DEF c
<1>8. CASE c.cmd \in {"acquire", "complete"}
  <2>1. UNCHANGED <<stack, pending>>
    BY <1>1, <1>8 DEF Loop!Execute, Loop!Acquire
  <2>2. Expected'
    BY <1>4, <1>5, <2>1 DEF Expected
  <2>3. /\ Has(Coming, "transaction") <=> Has(Coming', "transaction")
        /\ Has(Coming, "reply") <=> Has(Coming', "reply")
        /\ Has(mIn, "transaction") <=> Has(mIn', "transaction")
        /\ \A d : Has(Coming', d) => Has(Coming, d)
    BY <1>5, <1>8
  <2>4. CASE Sent
    <3>1. a.oneway /\ ~Answered(stack) /\ Has(Coming, "complete")
          /\ ~Has(Coming, "transaction") /\ ~Has(Coming, "reply")
          /\ Turns(tstack, OpenCount(stack), "in")
      BY <2>4 DEF Sent
    <3>2. Has(Coming', "complete")
      BY <1>5, <1>7, <1>8, <3>1
    <3>3. Sent'
      BY <1>1, <1>4, <2>1, <2>2, <2>3, <3>1, <3>2 DEF Sent
    <3> QED
      BY <1>1, <1>2, <1>4, <1>7, <1>8, <2>1, <3>3 DEF InPhase, Phased, c
  <2>5. CASE Waiting
    <3>1. /\ Open(stack) /\ Answering(mIn, Coming, tstack, OpenCount(stack))
          /\ \A i \in 1 .. Len(Coming) : Coming[i].cmd = "reply" => Coming[i].depth = OpenCount(stack)
          /\ a.oneway => Has(Coming, "complete")
      BY <1>1, <2>5 DEF Waiting
    <3>2. Answering(mIn', Coming', tstack, OpenCount(stack))
      BY <2>3, <3>1 DEF Answering
    <3>3. \A i \in 1 .. Len(Coming') : Coming'[i].cmd = "reply" => Coming'[i].depth = OpenCount(stack)
      BY <1>5, <3>1
    <3>4. a.oneway => Has(Coming', "complete")
      BY <1>5, <1>7, <1>8, <3>1
    <3>5. Waiting'
      BY <1>1, <1>4, <2>1, <2>2, <3>1, <3>2, <3>3, <3>4 DEF Waiting
    <3> QED
      BY <1>1, <1>2, <1>4, <1>7, <1>8, <2>1, <3>5 DEF InPhase, Phased, c
  <2> QED
    BY <1>3, <2>4, <2>5
<1>9. CASE c.cmd = "transaction" /\ ~a.oneway
  <2>1. PICK b \in Activations :
           /\ stack' = Append(stack, b) /\ pending' = pending
           /\ b.kind = IF strongOf[c.obj] > 0 THEN "serve" ELSE "served"
           /\ b.obj = c.obj /\ b.obj \in Objects /\ b.oneway = c.oneway
    BY <1>1, <1>5, <1>9, Serves
  <2>2. /\ stack' # << >> /\ Upper(stack') = b
        /\ Stacked(stack', Len(pending)) <=>
             Stacked(stack, Len(pending)) /\ Begins(stack, b) /\ Placed(b, Len(stack) + 1, Len(pending))
        /\ OpenCount(stack') = OpenCount(stack) + (IF IsOpen(b) THEN 1 ELSE 0)
    BY <1>2, <2>1, Grows
  <2>3. b.kind \in {"serve", "served"} /\ ~b.oneway
    BY <1>5, <1>9, <2>1 DEF Answers
  <2>4. Begins(stack, b) /\ Placed(b, Len(stack) + 1, Len(pending)) /\ IsOpen(b)
    BY <1>1, <1>9, <2>1, <2>3 DEF Begins, Above, Placed, IsOpen
  <2>5. Waiting
    BY <1>3, <1>9 DEF Sent
  <2>6. Turns(tstack, OpenCount(stack) + 1, "in")
    <3>1. Has(Coming, "transaction") /\ Has(mIn, "transaction") /\ ~Has(Coming, "reply")
      BY <1>4, <1>5, <1>9, OneAnswer
    <3>2. Answering(mIn, Coming, tstack, OpenCount(stack))
      BY <2>5 DEF Waiting
    <3> QED
      BY <3>1, <3>2 DEF Answering
  <2>7. Busy'
    BY <1>1, <1>4, <1>5, <1>9, <2>2, <2>3, <2>4, <2>6 DEF Busy
  <2> QED
    BY <1>1, <1>2, <1>4, <1>9, <2>1, <2>2, <2>4, <2>7 DEF InPhase, Phased, c
<1> QED
  BY <1>7, <1>8, <1>9

LEMMA AppendOne ==
  ASSUME NEW x, NEW y
  PROVE  Append(<<x>>, y) = <<x, y>>
<1> DEFINE S == {x, y}
           one == <<x>>
           two == <<x, y>>
<1>1. x \in S /\ y \in S
  OBVIOUS
<1> HIDE DEF S
<1>2. Len(one) = 1 /\ one[1] = x
  BY <1>1
<1>8. one \in Seq(S)
  BY <1>1
<1>3. two \in Seq(S) /\ Len(two) = 2 /\ two[1] = x /\ two[2] = y
  BY <1>1
<1> HIDE DEF one, two
<1>4. /\ Append(one, y) \in Seq(S) /\ Len(Append(one, y)) = Len(one) + 1
      /\ Append(one, y)[Len(one) + 1] = y
      /\ \A i \in 1 .. Len(one) : Append(one, y)[i] = one[i]
  BY <1>1, <1>8, AppendProperties
<1>5. /\ Len(Append(one, y)) = 2 /\ Append(one, y)[1] = x /\ Append(one, y)[2] = y
  BY <1>2, <1>4
<1>6. \A i \in 1 .. 2 : i = 1 \/ i = 2
  OBVIOUS
<1>7. Append(one, y) = two
  BY <1>3, <1>4, <1>5, <1>6, SeqEqual
<1> QED
  BY <1>7 DEF one, two

(* What comes first of a transaction that carries o.                       *)
First(o) == IF o # Nobody THEN <<Written("acquire", o, FALSE), Loop!Complete>>
            ELSE <<Loop!Complete>>

LEMMA FirstAnswers ==
  ASSUME NEW o \in Objects \cup {Nobody}
  PROVE  /\ First(o) \in Seq(Answers) /\ Ranked(First(o))
         /\ Has(First(o), "complete") /\ ~Has(First(o), "transaction") /\ ~Has(First(o), "reply")
         /\ \A i \in 1 .. Len(First(o)) : First(o)[i].cmd # "reply"
         /\ \A i \in 1 .. Len(First(o)) : First(o)[i].cmd = "acquire" => First(o)[i].obj = o
<1> DEFINE acquire == Written("acquire", o, FALSE)
           complete == Loop!Complete
           q == First(o)
<1>3. complete \in Answers /\ complete.cmd = "complete"
  BY DEF Loop!Command, Loop!Complete, Incoming, Answers
<1>4. o # Nobody => acquire \in Answers /\ acquire.cmd = "acquire" /\ acquire.obj = o
  BY DEF Loop!Command, Written, Incoming, Answers
<1>5. q = IF o # Nobody THEN <<acquire, complete>> ELSE <<complete>>
  BY DEF First
<1> SUFFICES /\ q \in Seq(Answers) /\ Ranked(q)
             /\ Has(q, "complete") /\ ~Has(q, "transaction") /\ ~Has(q, "reply")
             /\ \A i \in 1 .. Len(q) : q[i].cmd # "reply"
             /\ \A i \in 1 .. Len(q) : q[i].cmd = "acquire" => q[i].obj = o
  OBVIOUS
<1> HIDE DEF acquire, complete, q
<1>1. CASE o = Nobody
  <2>1. q \in Seq(Answers) /\ Len(q) = 1 /\ q[1] = complete
    BY <1>1, <1>3, <1>5
  <2>2. \A i \in 1 .. Len(q) : i = 1 /\ q[i] = complete
    <3>1. 1 .. Len(q) = {1}
      BY <2>1
    <3> QED
      BY <2>1, <3>1
  <2>3. Ranked(q)
    BY <2>2 DEF Ranked
  <2>4. 1 \in 1 .. Len(q)
    BY <2>1
  <2> QED
    BY <1>3, <2>1, <2>2, <2>3, <2>4 DEF Has
<1>2. CASE o # Nobody
  <2>1. q \in Seq(Answers) /\ Len(q) = 2 /\ q[1] = acquire /\ q[2] = complete
    <3>1. q = <<acquire, complete>> /\ acquire \in Answers /\ complete \in Answers
      BY <1>2, <1>3, <1>4, <1>5
    <3> HIDE DEF Has
    <3> QED
      BY <3>1
  <2>2. \A i \in 1 .. Len(q) : (i = 1 /\ q[i] = acquire) \/ (i = 2 /\ q[i] = complete)
    <3>1. 1 .. Len(q) = {1, 2}
      BY <2>1
    <3> QED
      BY <2>1, <3>1
  <2>3. Ranked(q)
    <3>1. Rank(acquire) = 1 /\ Rank(complete) = 2
      BY <1>2, <1>3, <1>4 DEF Rank
    <3>2. ASSUME NEW i \in 1 .. Len(q), NEW j \in 1 .. Len(q), i < j PROVE Rank(q[i]) < Rank(q[j])
      <4>1. i = 1 /\ j = 2
        BY <2>2, <3>2
      <4>2. q[i] = acquire /\ q[j] = complete
        BY <2>1, <4>1
      <4> QED
        BY <3>1, <4>2
    <3> QED
      BY <3>2 DEF Ranked
  <2>4. 2 \in 1 .. Len(q)
    BY <2>1
  <2>5. \A i \in 1 .. Len(q) : q[i].cmd \notin {"transaction", "reply"}
    BY <1>2, <1>3, <1>4, <2>2
  <2>6. ~Has(q, "transaction") /\ ~Has(q, "reply") /\ Has(q, "complete")
    BY <1>3, <2>1, <2>4, <2>5 DEF Has
  <2>7. \A i \in 1 .. Len(q) : q[i].cmd = "acquire" => q[i].obj = o
    BY <1>2, <1>3, <1>4, <2>2
  <2> QED
    BY <2>1, <2>3, <2>5, <2>6, <2>7
<1> QED
  BY <1>1, <1>2

(* What the driver is written, and what it then has for the thread.        *)
LEMMA WriteInPhase ==
  ASSUME CallsInv, Loop!WriteCommand
  PROVE  /\ InPhase' /\ mOut' = << >> /\ mIn = << >> /\ todo = << >> /\ mIn' = mIn
         /\ UNCHANGED <<stack, pending, strongOf, work>>
         /\ \/ /\ mOut = <<Written("reply", Nobody, FALSE)>>
               /\ UNCHANGED known /\ todo' = First(Nobody)
            \/ /\ Calling /\ Upper(stack) \in Activations
               /\ known' = IF Upper(stack).obj # Nobody THEN known \cup {Upper(stack).obj} ELSE known
               /\ todo' = First(Upper(stack).obj)
<1> DEFINE a == Upper(stack)
           c == Head(mOut)
           acquire == Written("acquire", c.obj, FALSE)
           complete == Loop!Complete
<1>1. /\ Loop!Talking /\ mOut # << >> /\ mOut' = Tail(mOut)
      /\ UNCHANGED <<mIn, stack, pending, strongOf, work>>
  BY DEF Loop!WriteCommand
<1>2. Calling \/ Replying
  <2>1. ~Idle /\ ~Busy /\ ~Sent /\ ~Waiting
    BY <1>1 DEF Idle, Busy, Sent, Waiting
  <2> QED
    BY <2>1, CallsTyped DEF Phased
<1>3. /\ stack # << >> /\ a.kind = "wait" /\ mIn = << >> /\ todo = << >>
      /\ tstack \in Seq(Ways) /\ a \in Activations /\ OpenCount(stack) \in Nat
      /\ Stacked(stack, Len(pending))
  <2>1. stack # << >> /\ a.kind = "wait" /\ mIn = << >> /\ todo = << >>
    BY <1>2 DEF Calling, Replying
  <2>2. OpenCount(stack) \in Nat
    BY CallsTyped, TimesIsNat DEF OpenCount
  <2> QED
    BY <2>1, <2>2, Inner, CallsTyped
<1>4. mOut = <<c>> /\ mOut' = << >>
  <2>1. \E x : mOut = <<x>>
    BY <1>2 DEF Calling, Replying
  <2> QED
    BY <1>1, <2>1
<1>5. complete \in Answers /\ complete.cmd = "complete"
  BY DEF Loop!Command, Loop!Complete, Incoming, Answers
<1>6. ASSUME NEW q \in Seq(Answers), todo' = q PROVE Coming' = q
  BY <1>1, <1>3, <1>6, ConcatEmptySeq DEF Coming
<1>7. CASE Calling
  <2>1. /\ ~Answered(stack) /\ c = Written("transaction", a.obj, a.oneway)
        /\ Turns(tstack, OpenCount(stack) - (IF a.oneway THEN 0 ELSE 1), "in")
    BY <1>4, <1>7 DEF Calling
  <2>2. c.cmd = "transaction" /\ c.obj = a.obj /\ c.oneway = a.oneway
    BY <2>1 DEF Written, Loop!Command
  <2>3. /\ tstack' = IF a.oneway THEN tstack ELSE Append(tstack, "out")
        /\ known' = IF a.obj # Nobody THEN known \cup {a.obj} ELSE known
        /\ todo' = IF a.obj # Nobody THEN (<< >> \o <<acquire>>) \o <<complete>>
                   ELSE (<< >> \o << >>) \o <<complete>>
    BY <1>3, <2>2 DEF Loop!WriteCommand, Written
  <2>4. todo' = IF a.obj # Nobody THEN <<acquire, complete>> ELSE <<complete>>
    <3> HIDE DEF acquire, complete
    <3>1. (<< >> \o <<acquire>>) \o <<complete>> = <<acquire, complete>>
      <4>1. << >> \o <<acquire>> = <<acquire>>
        OBVIOUS
      <4>2. Append(<<acquire>>, complete) = <<acquire>> \o <<complete>>
        <5> DEFINE S == {acquire, complete}
        <5>1. acquire \in S /\ complete \in S
          OBVIOUS
        <5> HIDE DEF S
        <5>2. <<acquire>> \in Seq(S)
          BY <5>1
        <5> QED
          BY <5>1, <5>2, AppendIsConcat
      <4>3. Append(<<acquire>>, complete) = <<acquire, complete>>
        BY AppendOne
      <4> QED
        BY <4>1, <4>2, <4>3
    <3>2. (<< >> \o << >>) \o <<complete>> = <<complete>>
      OBVIOUS
    <3> QED
      BY <2>3, <3>1, <3>2
  <2>5. a.obj \in Objects \cup {Nobody} /\ a.oneway \in BOOLEAN
    BY <1>3 DEF Activations
  <2> DEFINE q == todo'
  <2>6. q = First(a.obj)
    BY <2>2, <2>4 DEF First
  <2> HIDE DEF q
  <2>7. /\ q \in Seq(Answers) /\ Ranked(q)
        /\ Has(q, "complete") /\ ~Has(q, "transaction") /\ ~Has(q, "reply")
        /\ \A i \in 1 .. Len(q) : q[i].cmd # "reply"
        /\ \A i \in 1 .. Len(q) : q[i].cmd = "acquire" => q[i].obj = a.obj
    BY <2>5, <2>6, FirstAnswers
  <2>8. Coming' = q
    BY <1>6, <2>7 DEF q
  <2>9. Expected'
    BY <1>1, <2>7, <2>8 DEF Expected
  <2>10. InPhase'
    <3>1. CASE a.oneway
      <4>1. Turns(tstack', OpenCount(stack), "in")
        BY <2>1, <2>3, <1>3, <3>1
      <4>2. Sent'
        BY <1>1, <1>3, <1>4, <2>1, <2>7, <2>8, <2>9, <3>1, <4>1 DEF Sent
      <4> QED
        BY <1>1, <1>3, <4>2 DEF InPhase, Phased
    <3>2. CASE ~a.oneway
      <4>1. Turns(tstack', (OpenCount(stack) - 1) + 1, "out")
        BY <1>3, <2>1, <2>3, <3>2, TurnsAppend DEF Ways
      <4>2. Turns(tstack', OpenCount(stack), "out")
        BY <1>3, <4>1
      <4>3. Waiting'
        BY <1>1, <1>3, <1>4, <2>1, <2>7, <2>8, <2>9, <3>2, <4>2 DEF Waiting, Answering, Open
      <4> QED
        BY <1>1, <1>3, <4>3 DEF InPhase, Phased
    <3> QED
      BY <2>5, <3>1, <3>2
  <2> QED
    BY <1>1, <1>3, <1>4, <1>7, <2>3, <2>6, <2>10 DEF q
<1>8. CASE Replying
  <2>1. /\ Answered(stack) /\ c = Written("reply", Nobody, FALSE)
        /\ Turns(tstack, OpenCount(stack) + 1, "in")
    BY <1>4, <1>8 DEF Replying
  <2>2. c.cmd = "reply"
    BY <2>1 DEF Written, Loop!Command
  <2>3. tstack # << >> /\ Loop!Last(tstack) = "in"
    BY <1>3, <2>1, TurnsLast
  <2>4. tstack' = Loop!Front(tstack) /\ todo' = <<complete>> /\ UNCHANGED known
    <3>1. tstack' = Loop!Front(tstack) /\ todo' = Append(todo, complete) /\ UNCHANGED known
      BY <2>2, <2>3 DEF Loop!WriteCommand
    <3> HIDE DEF complete
    <3>2. Append(<< >>, complete) = <<complete>>
      OBVIOUS
    <3> QED
      BY <1>3, <3>1, <3>2
  <2> DEFINE q == todo'
  <2>5. q = First(Nobody) /\ Nobody \in Objects \cup {Nobody}
    BY <2>4 DEF First
  <2> HIDE DEF q
  <2>6. /\ q \in Seq(Answers) /\ Ranked(q)
        /\ Has(q, "complete") /\ ~Has(q, "transaction") /\ ~Has(q, "reply")
        /\ \A i \in 1 .. Len(q) : q[i].cmd # "reply"
        /\ \A i \in 1 .. Len(q) : q[i].cmd = "acquire" => q[i].obj = Nobody
    BY <2>5, FirstAnswers
  <2>7. Coming' = q
    BY <1>6, <2>6 DEF q
  <2>8. a.obj = Nobody /\ a.oneway
    <3>1. Begins(Loop!Front(stack), a) /\ Loop!Front(stack) # << >>
          /\ Upper(Loop!Front(stack)).kind = "replied"
      BY <1>3, <2>1, Inner
    <3> QED
      BY <3>1 DEF Begins, Above
  <2>9. Expected'
    BY <1>1, <2>6, <2>7, <2>8 DEF Expected
  <2>10. Turns(tstack', (OpenCount(stack) + 1) - 1, "out")
    BY <1>3, <2>1, <2>3, <2>4, TurnsFront DEF Ways
  <2>11. Turns(tstack', OpenCount(stack), "out")
    BY <1>3, <2>10
  <2>12. Waiting'
    BY <1>1, <1>3, <1>4, <2>1, <2>6, <2>7, <2>9, <2>11 DEF Waiting, Answering, Open
  <2>13. InPhase'
    BY <1>1, <1>3, <2>12 DEF InPhase, Phased
  <2> QED
    BY <1>1, <1>3, <1>4, <2>1, <2>4, <2>5, <2>13 DEF q
<1> QED
  BY <1>2, <1>7, <1>8

(* A call back is the last to come.                                        *)
LEMMA LastOfRanked ==
  ASSUME NEW q \in Seq(Answers), Ranked(q), q # << >>
  PROVE  /\ Loop!Last(q) = q[Len(q)] /\ Loop!Last(q) \in Answers
         /\ Has(q, "transaction") <=> Loop!Last(q).cmd = "transaction"
<1>1. Loop!Last(q) = q[Len(q)] /\ Len(q) \in 1 .. Len(q) /\ q[Len(q)] \in Answers
  BY FrontOf
<1>2. ASSUME Has(q, "transaction") PROVE q[Len(q)].cmd = "transaction"
  <2>1. PICK i \in 1 .. Len(q) : q[i].cmd = "transaction"
    BY <1>2 DEF Has
  <2>2. ASSUME i # Len(q) PROVE FALSE
    <3>1. i < Len(q)
      BY <2>2
    <3>2. Rank(q[i]) < Rank(q[Len(q)])
      BY <1>1, <3>1 DEF Ranked
    <3> QED
      BY <2>1, <3>2 DEF Rank
  <2> QED
    BY <2>1, <2>2
<1> QED
  BY <1>1, <1>2 DEF Has

(* The thread is handed all that comes of its transaction; or, when it is  *)
(* idle, releases and at most one transaction of what the process is sent. *)
LEMMA ReadInPhase ==
  ASSUME CallsInv, Loop!ReadCommands
  PROVE  /\ InPhase' /\ WorkOK' /\ mIn = << >> /\ mOut' = << >>
         /\ UNCHANGED <<stack, pending, strongOf, known>>
         /\ \/ Coming' = Coming /\ mIn' = Coming /\ work' = work /\ Coming \in Seq(Answers)
            \/ /\ todo = << >> /\ todo' = << >> /\ stack = << >>
               /\ \E n \in 0 .. Len(work) :
                    mIn' = SubSeq(work, 1, n) /\ work' = SubSeq(work, n + 1, Len(work))
<1>1. /\ Loop!Talking /\ mOut = << >> /\ mIn = << >>
      /\ UNCHANGED <<mOut, stack, pending, strongOf, known>>
  BY DEF Loop!ReadCommands, Loop!Talking
<1>2. /\ todo \in Seq(Incoming) /\ work \in Seq(Incoming) /\ tstack \in Seq(Ways)
      /\ Coming = todo /\ WorkOK /\ Stacked(stack, Len(pending)) /\ Phased
  BY <1>1, CallsTyped
<1>3. Idle \/ (stack # << >> /\ Upper(stack).kind = "wait" /\ (Sent \/ Waiting))
  <2>1. CASE stack = << >>
    BY <1>2, <2>1 DEF Phased, Busy, Calling, Replying, Sent, Waiting
  <2>2. CASE stack # << >>
    <3>1. Upper(stack).kind = "wait"
      BY <1>1, <2>2, OnTop DEF Loop!Talking
    <3>2. ~Idle /\ ~Busy /\ ~Calling /\ ~Replying
      BY <1>1, <2>2, <3>1 DEF Idle, Busy, Calling, Replying
    <3> QED
      BY <1>2, <2>2, <3>1, <3>2 DEF Phased
  <2> QED
    BY <2>1, <2>2
<1>4. CASE Idle
  <2>1. stack = << >> /\ todo = << >>
    BY <1>4 DEF Idle
  <2> DEFINE b == Loop!Batch(work)
  <2>2. /\ b # << >> /\ mIn' = b /\ work' = SubSeq(work, Len(b) + 1, Len(work)) /\ todo' = << >>
        /\ tstack = << >>
        /\ tstack' = IF Loop!Last(b).cmd = "transaction" /\ ~Loop!Last(b).oneway
                     THEN Append(tstack, "in") ELSE tstack
    BY <2>1 DEF Loop!ReadCommands
  <2>3. PICK n \in 0 .. Len(work) :
           /\ b = SubSeq(work, 1, n) /\ Len(b) = n
           /\ b \in Seq(Incoming)
           /\ \A i \in 1 .. n : b[i] = work[i]
           /\ \A i \in 1 .. n - 1 : work[i].cmd \notin Stops
    BY <1>2, BatchIs
  <2> HIDE DEF b
  <2>4. \A i \in 1 .. Len(b) : b[i].cmd = "release" \/ (b[i].cmd = "transaction" /\ i = Len(b))
    <3> SUFFICES ASSUME NEW i \in 1 .. Len(b)
                 PROVE  b[i].cmd = "release" \/ (b[i].cmd = "transaction" /\ i = Len(b))
      OBVIOUS
    <3>1. i \in 1 .. Len(work) /\ b[i] = work[i] /\ (i = n \/ i \in 1 .. n - 1)
      BY <2>3
    <3>2. b[i].cmd \in {"release", "transaction"}
      BY <1>2, <3>1 DEF WorkOK
    <3> QED
      BY <2>3, <3>1, <3>2 DEF Stops
  <2>5. Loop!Last(b) = b[Len(b)]
    BY <2>2, <2>3, FrontOf
  <2>6. Append(<< >>, "in") = <<"in">>
    OBVIOUS
  <2>7. Idle'
    BY <1>1, <2>1, <2>2, <2>4, <2>5, <2>6 DEF Idle
  <2>8. WorkOK'
    <3>1. \A i \in n + 1 .. Len(work) : work[i] \in Incoming
      BY <1>2, <2>3
    <3>2. /\ Len(work) \in Nat /\ n \in Nat /\ n <= Len(work)
      BY <1>2
    <3>3. \A i \in 1 .. Len(work) - (n + 1) + 1 :
            SubSeq(work, n + 1, Len(work))[i] = work[n + 1 + i - 1]
      BY <3>1, <3>2, SubSeqProperties
    <3>4. Len(SubSeq(work, n + 1, Len(work))) = Len(work) - n
      <4>1. Len(SubSeq(work, n + 1, Len(work)))
              = IF n + 1 <= Len(work) THEN Len(work) - (n + 1) + 1 ELSE 0
        BY <3>1, <3>2, SubSeqProperties
      <4> QED
        BY <3>2, <4>1
    <3> DEFINE r == SubSeq(work, n + 1, Len(work))
    <3>5. Len(r) = Len(work) - n /\ \A i \in 1 .. Len(work) - (n + 1) + 1 : r[i] = work[n + 1 + i - 1]
      BY <3>3, <3>4
    <3>6. work' = r
      BY <2>2, <2>3
    <3> HIDE DEF r
    <3>7. ASSUME NEW i \in 1 .. Len(r) PROVE r[i].cmd \in {"release", "transaction"}
      <4>1. i \in 1 .. Len(work) - (n + 1) + 1 /\ n + 1 + i - 1 = n + i /\ n + i \in 1 .. Len(work)
        BY <3>2, <3>5
      <4>2. r[i] = work[n + i]
        BY <3>5, <4>1
      <4> QED
        BY <1>2, <4>1, <4>2 DEF WorkOK
    <3> QED
      BY <3>6, <3>7 DEF WorkOK
  <2>9. InPhase'
    BY <1>1, <1>2, <2>7 DEF InPhase, Phased
  <2> QED
    BY <1>1, <2>1, <2>2, <2>3, <2>8, <2>9
<1>5. CASE stack # << >> /\ Upper(stack).kind = "wait" /\ (Sent \/ Waiting)
  <2>1. Coming \in Seq(Answers) /\ Ranked(Coming) /\ Expected
    BY <1>5 DEF Sent, Waiting, Expected
  <2>2. todo # << >>
    <3> SUFFICES ASSUME todo = << >> PROVE FALSE
      OBVIOUS
    <3>1. tstack = << >>
      BY DEF Loop!ReadCommands
    <3>2. \A c : ~Has(Coming, c) /\ ~Has(mIn, c)
      BY <1>1, <1>2 DEF Has
    <3>3. Waiting /\ ~Upper(stack).oneway
      BY <1>5, <3>2 DEF Sent, Waiting
    <3>4. Turns(tstack, OpenCount(stack), "out")
      BY <3>2, <3>3 DEF Waiting, Answering
    <3>5. OpenCount(stack) = 0
      <4>1. Len(tstack) = OpenCount(stack)
        BY <3>4 DEF Turns
      <4> QED
        BY <3>1, <4>1, EmptyHasNoLength
    <3>6. OpenCount(stack) = OpenCount(Loop!Front(stack)) + 1 /\ OpenCount(Loop!Front(stack)) \in Nat
      <4>1. IsOpen(Upper(stack))
        BY <1>5, <3>3 DEF IsOpen
      <4> QED
        BY <1>5, <4>1, Inner
    <3> QED
      BY <3>5, <3>6
  <2>3. Loop!Batch(todo) = todo /\ SubSeq(todo, Len(todo) + 1, Len(todo)) = << >>
    BY <1>2, <2>1, BatchOfRanked
  <2>4. /\ mIn' = todo /\ todo' = << >> /\ work' = work
        /\ tstack' = IF Loop!Last(todo).cmd = "transaction" /\ ~Loop!Last(todo).oneway
                     THEN Append(tstack, "in") ELSE tstack
    BY <2>2, <2>3 DEF Loop!ReadCommands
  <2>5. Coming' = Coming /\ mIn' = Coming
    <3>1. Coming' = todo \o << >>
      BY <2>4 DEF Coming
    <3> QED
      BY <1>2, <2>4, <3>1, ConcatEmptySeq
  <2>6. tstack' = IF Has(Coming, "transaction") THEN Append(tstack, "in") ELSE tstack
    <3>1. /\ Loop!Last(Coming) \in Answers
          /\ Has(Coming, "transaction") <=> Loop!Last(Coming).cmd = "transaction"
      BY <1>2, <2>1, <2>2, LastOfRanked
    <3> QED
      BY <1>2, <2>4, <3>1 DEF Answers
  <2>7. Expected'
    BY <1>1, <2>1, <2>5 DEF Expected
  <2>8. CASE Sent
    <3>1. Sent'
      BY <1>1, <2>5, <2>6, <2>7, <2>8 DEF Sent
    <3> QED
      BY <1>1, <1>2, <2>1, <2>4, <2>5, <3>1 DEF InPhase, Phased, WorkOK
  <2>9. CASE Waiting
    <3>1. Answering(mIn, Coming, tstack, OpenCount(stack)) /\ ~Has(mIn, "transaction")
      BY <1>1, <2>9 DEF Waiting, Has
    <3>2. Answering(mIn', Coming, tstack', OpenCount(stack))
      <4>1. CASE Has(Coming, "transaction")
        <5>1. OpenCount(stack) > 0 /\ Turns(tstack, OpenCount(stack), "out")
          BY <2>1, <3>1, <4>1, OneAnswer DEF Answering
        <5>2. Turns(tstack', OpenCount(stack) + 1, "in")
          BY <1>2, <2>6, <4>1, <5>1, TurnsAppend DEF Ways
        <5> QED
          BY <2>5, <4>1, <5>1, <5>2 DEF Answering
      <4>2. CASE ~Has(Coming, "transaction")
        BY <2>5, <2>6, <3>1, <4>2 DEF Answering
      <4> QED
        BY <4>1, <4>2
    <3>3. Waiting'
      BY <1>1, <2>5, <2>7, <2>9, <3>2 DEF Waiting
    <3> QED
      BY <1>1, <1>2, <2>1, <2>4, <2>5, <3>3 DEF InPhase, Phased, WorkOK
  <2> QED
    BY <1>5, <2>8, <2>9
<1> QED
  BY <1>3, <1>4, <1>5

(* Who is called back, or replied to, waits for an answer and has none.    *)
LEMMA AnswerMayCome ==
  ASSUME CallsInv, tstack # << >>, Loop!Last(tstack) = "out",
         \A c \in Loop!Queued(todo \o mIn) : c.cmd \notin {"transaction", "reply"}
  PROVE  /\ Waiting /\ ~Has(Coming, "transaction") /\ ~Has(Coming, "reply")
         /\ ~Has(mIn, "transaction")
         /\ OpenCount(stack) \in Nat /\ OpenCount(stack) > 0 /\ OpenCount(stack) = Len(tstack)
         /\ Turns(tstack, OpenCount(stack), "out")
<1>1. /\ mIn \in Seq(Incoming) /\ todo \in Seq(Incoming) /\ tstack \in Seq(Ways) /\ Phased
  BY CallsTyped
<1>2. ASSUME NEW c \in {"transaction", "reply"} PROVE ~Has(Coming, c) /\ ~Has(mIn, c)
  <2>1. \A i \in 1 .. Len(todo \o mIn) : (todo \o mIn)[i] \in Loop!Queued(todo \o mIn)
    <3>1. todo \o mIn \in Seq(Incoming)
      BY <1>1, ConcatProperties
    <3> DEFINE q == todo \o mIn
    <3>2. DOMAIN q = 1 .. Len(q)
      BY <3>1
    <3> QED
      BY <3>2 DEF Loop!Queued
  <2>2. ~Has(todo \o mIn, c)
    BY <2>1, <1>2 DEF Has
  <2>3. ~Has(todo, c) /\ ~Has(mIn, c)
    BY <1>1, <2>2, HasConcat
  <2> QED
    BY <1>1, <2>3, HasConcat DEF Coming
<1>3. ~Idle
  <2>1. Idle => tstack = <<"in">> \/ tstack = << >>
    BY DEF Idle
  <2>2. Loop!Last(<<"in">>) = "in"
    BY DEF Loop!Last
  <2> QED
    BY <2>1, <2>2
<1>4. ~Busy /\ ~Calling /\ ~Replying /\ ~Sent
  <2>1. ASSUME NEW n, Turns(tstack, n, "in") PROVE FALSE
    BY <1>1, <2>1, TurnsLast
  <2> QED
    BY <2>1 DEF Busy, Calling, Replying, Sent
<1>5. Waiting
  BY <1>1, <1>3, <1>4 DEF Phased
<1>6. Turns(tstack, OpenCount(stack), "out")
  <2>1. Answering(mIn, Coming, tstack, OpenCount(stack))
    BY <1>5 DEF Waiting
  <2> QED
    BY <1>2, <2>1 DEF Answering
<1>7. OpenCount(stack) \in Nat /\ OpenCount(stack) > 0 /\ OpenCount(stack) = Len(tstack)
  <2>1. Len(tstack) = OpenCount(stack) /\ OpenCount(stack) \in Nat
        /\ (tstack = << >> <=> OpenCount(stack) = 0)
    BY <1>1, <1>6, TurnsLast
  <2> QED
    BY <2>1
<1> QED
  BY <1>2, <1>5, <1>6, <1>7

LEMMA AnswerComes ==
  ASSUME CallsInv, tstack # << >>, Loop!Last(tstack) = "out",
         \A c \in Loop!Queued(todo \o mIn) : c.cmd \notin {"transaction", "reply"},
         NEW x \in Answers, x.cmd \in {"transaction", "reply"},
         x.cmd = "reply" => x.depth = OpenCount(stack),
         todo' = Append(todo, x), UNCHANGED <<mIn, mOut, stack, pending>>,
         tstack' = IF x.cmd = "reply" THEN Loop!Front(tstack) ELSE tstack
  PROVE  InPhase' /\ Coming' = Append(Coming, x) /\ Coming \in Seq(Answers)
<1> DEFINE n == OpenCount(stack)
<1>1. /\ Waiting /\ ~Has(Coming, "transaction") /\ ~Has(Coming, "reply")
      /\ ~Has(mIn, "transaction") /\ n \in Nat /\ n > 0 /\ Turns(tstack, n, "out")
  BY AnswerMayCome
<1>2. /\ mIn \in Seq(Incoming) /\ todo \in Seq(Incoming) /\ tstack \in Seq(Ways)
      /\ Stacked(stack, Len(pending)) /\ x \in Incoming
  BY CallsTyped DEF Answers
<1>3. Coming' = Append(Coming, x)
  <2>1. Append(todo, x) = todo \o <<x>> /\ <<x>> \in Seq(Incoming)
    BY <1>2, AppendIsConcat
  <2>2. Coming' = mIn \o (todo \o <<x>>)
    BY <2>1 DEF Coming
  <2>3. mIn \o (todo \o <<x>>) = (mIn \o todo) \o <<x>>
    BY <1>2, <2>1, ConcatAssociative
  <2>4. Coming \o <<x>> = Append(Coming, x)
    BY <1>2, CallsTyped, AppendIsConcat
  <2> QED
    BY <2>2, <2>3, <2>4 DEF Coming
<1>4. Expected
  BY <1>1 DEF Waiting
<1>5. \A i \in 1 .. Len(Coming) : Rank(Coming[i]) < Rank(x)
  <2> SUFFICES ASSUME NEW i \in 1 .. Len(Coming) PROVE Rank(Coming[i]) < Rank(x)
    OBVIOUS
  <2>1. Coming[i] \in Answers
    BY <1>4 DEF Expected
  <2>2. Coming[i].cmd \in {"acquire", "complete"}
    BY <1>1, <2>1 DEF Answers, Has
  <2> QED
    BY <2>2 DEF Rank
<1> DEFINE q == Append(Coming, x)
<1>6. /\ q \in Seq(Answers) /\ Ranked(q) /\ Len(q) = Len(Coming) + 1 /\ q[Len(Coming) + 1] = x
      /\ \A i \in 1 .. Len(Coming) : q[i] = Coming[i]
      /\ \A c : Has(q, c) <=> Has(Coming, c) \/ x.cmd = c
      /\ Len(Coming) \in Nat
  BY <1>4, <1>5, RankedAppend DEF Expected
<1> HIDE DEF q
<1>7. \A i \in 1 .. Len(q) : i \in 1 .. Len(Coming) \/ q[i] = x
  BY <1>6
<1>8. Expected'
  <2>1. \A i \in 1 .. Len(q) : q[i].cmd = "acquire" => q[i].obj = Upper(stack).obj
    BY <1>4, <1>6, <1>7 DEF Expected
  <2>2. Coming' = q
    BY <1>3 DEF q
  <2> QED
    BY <1>6, <2>1, <2>2 DEF Expected
<1>9. Answering(mIn, q, tstack', n)
  <2>1. CASE x.cmd = "transaction"
    BY <1>1, <1>6, <2>1 DEF Answering
  <2>2. CASE x.cmd = "reply"
    <3>1. Turns(tstack', n - 1, "in")
      BY <1>1, <1>2, <2>2, TurnsFront DEF Ways
    <3> QED
      BY <1>1, <1>6, <2>2, <3>1 DEF Answering
  <2> QED
    BY <2>1, <2>2
<1>10. Waiting'
  <2>1. Coming' = q
    BY <1>3 DEF q
  <2>2. \A i \in 1 .. Len(q) : q[i].cmd = "reply" => q[i].depth = n
    BY <1>1, <1>6, <1>7 DEF Waiting
  <2>3. Upper(stack).kind = "wait" /\ Upper(stack).oneway => Has(q, "complete")
    BY <1>1, <1>6 DEF Waiting
  <2>4. Upper(stack).kind = "replied" => ~Has(q, "complete") /\ ~Has(q, "acquire")
    BY <1>1, <1>6 DEF Waiting
  <2>5. stack # << >> /\ Open(stack) /\ mOut = << >>
    BY <1>1 DEF Waiting
  <2> QED
    BY <1>8, <1>9, <2>1, <2>2, <2>3, <2>4, <2>5 DEF Waiting
<1>11. InPhase'
  BY <1>2, <1>10 DEF InPhase, Phased
<1> QED
  BY <1>3, <1>4, <1>11 DEF Expected

(* What other processes send is for the thread that calls them, or work.   *)
LEMMA OthersInPhase ==
  ASSUME CallsInv, Loop!Others
  PROVE  /\ InPhase' /\ WorkOK' /\ UNCHANGED <<mIn, mOut, stack, pending, strongOf>>
         /\ \/ /\ UNCHANGED <<known, work>>
               /\ \E x \in Answers : /\ x.cmd \in {"transaction", "reply"}
                                     /\ Coming' = Append(Coming, x) /\ Coming \in Seq(Answers)
            \/ /\ UNCHANGED known /\ Coming' = Coming
               /\ \E x \in Incoming : x.cmd = "transaction" /\ work' = Append(work, x)
            \/ /\ Coming' = Coming
               /\ \E o \in Objects :
                    /\ Loop!DropReference(o) /\ known' = known \ {o} /\ o \in known
                    /\ Written("release", o, FALSE) \in Incoming
                    /\ work' = Append(work, Written("release", o, FALSE))
<1>0. /\ UNCHANGED <<mIn, mOut, stack, pending, strongOf>>
  BY DEF Loop!Others, Loop!TransactionFor, Loop!CallBack, Loop!ReplyFor, Loop!DropReference
<1>1. /\ work \in Seq(Incoming) /\ WorkOK /\ Stacked(stack, Len(pending)) /\ Phased
      /\ tstack \in Seq(Ways)
  BY CallsTyped
<1>2. ASSUME NEW x \in Incoming, x.cmd \in {"release", "transaction"}, work' = Append(work, x)
      PROVE  WorkOK'
  <2>1. /\ Len(work') = Len(work) + 1 /\ Len(work) \in Nat /\ work'[Len(work) + 1] = x
        /\ \A i \in 1 .. Len(work) : work'[i] = work[i]
    BY <1>1, <1>2, AppendProperties
  <2>2. \A i \in 1 .. Len(work') : i \in 1 .. Len(work) \/ i = Len(work) + 1
    BY <2>1
  <2> QED
    BY <1>1, <1>2, <2>1, <2>2 DEF WorkOK
<1>3. ASSUME UNCHANGED <<tstack, todo>> PROVE InPhase' /\ Coming' = Coming
  <2>1. Phased'
    BY <1>0, <1>1, <1>3 DEF Phased, Idle, Busy, Calling, Replying, Sent, Waiting, Expected, Coming
  <2> QED
    BY <1>0, <1>1, <1>3, <2>1 DEF InPhase, Coming
<1>4. CASE \E o \in Objects, from \in Callers, oneway \in BOOLEAN : Loop!TransactionFor(o, from, oneway)
  <2>1. PICK o \in Objects, from \in Callers, oneway \in BOOLEAN : Loop!TransactionFor(o, from, oneway)
    BY <1>4
  <2> DEFINE x == Loop!Command("transaction", o, from, oneway, 0)
  <2>2. x \in Incoming /\ x.cmd = "transaction"
    BY DEF Loop!Command, Incoming
  <2>3. work' = Append(work, x) /\ UNCHANGED <<known, tstack, todo>>
    BY <2>1 DEF Loop!TransactionFor
  <2> HIDE DEF x
  <2> QED
    BY <1>0, <1>2, <1>3, <2>2, <2>3
<1>5. CASE \E o \in Objects, from \in Callers : Loop!CallBack(o, from)
  <2>1. PICK o \in Objects, from \in Callers : Loop!CallBack(o, from)
    BY <1>5
  <2> DEFINE x == Loop!Command("transaction", o, from, FALSE, 0)
  <2>2. x \in Answers /\ x.cmd = "transaction"
    BY DEF Loop!Command, Incoming, Answers
  <2>3. /\ todo' = Append(todo, x) /\ tstack # << >> /\ Loop!Last(tstack) = "out"
        /\ \A c \in Loop!Queued(todo \o mIn) : c.cmd \notin {"transaction", "reply"}
        /\ UNCHANGED <<known, work, tstack>>
    BY <2>1 DEF Loop!CallBack
  <2> HIDE DEF x
  <2>4. InPhase' /\ Coming' = Append(Coming, x) /\ Coming \in Seq(Answers)
    BY <1>0, <2>2, <2>3, AnswerComes
  <2>5. WorkOK'
    BY <1>1, <2>3 DEF WorkOK
  <2> QED
    BY <1>0, <2>2, <2>3, <2>4, <2>5
<1>6. CASE Loop!ReplyFor
  <2> DEFINE x == Loop!Command("reply", Nobody, Nobody, FALSE, Len(tstack))
  <2>1. x \in Answers /\ x.cmd = "reply" /\ x.depth = Len(tstack)
    <3>1. Len(tstack) \in Nat
      BY <1>1
    <3> QED
      BY <3>1 DEF Loop!Command, Incoming, Answers
  <2>2. /\ todo' = Append(todo, x) /\ tstack # << >> /\ Loop!Last(tstack) = "out"
        /\ \A c \in Loop!Queued(todo \o mIn) : c.cmd \notin {"transaction", "reply"}
        /\ UNCHANGED <<known, work>> /\ tstack' = Loop!Front(tstack)
    BY <1>6 DEF Loop!ReplyFor
  <2> HIDE DEF x
  <2>3. Len(tstack) = OpenCount(stack)
    BY <2>2, AnswerMayCome
  <2>4. InPhase' /\ Coming' = Append(Coming, x) /\ Coming \in Seq(Answers)
    BY <1>0, <2>1, <2>2, <2>3, AnswerComes
  <2>5. WorkOK'
    BY <1>1, <2>2 DEF WorkOK
  <2> QED
    BY <1>0, <2>1, <2>2, <2>4, <2>5
<1>7. CASE \E o \in Objects : Loop!DropReference(o)
  <2>1. PICK o \in Objects : Loop!DropReference(o)
    BY <1>7
  <2> DEFINE x == Written("release", o, FALSE)
  <2>2. x \in Incoming /\ x.cmd = "release"
    BY DEF Loop!Command, Incoming, Written
  <2>3. /\ work' = Append(work, x) /\ UNCHANGED <<tstack, todo>>
        /\ known' = known \ {o} /\ o \in known
    BY <2>1 DEF Loop!DropReference, Written
  <2> HIDE DEF x
  <2>4. InPhase' /\ WorkOK' /\ Coming' = Coming
    BY <1>2, <1>3, <2>2, <2>3
  <2> QED
    BY <1>0, <2>1, <2>2, <2>3, <2>4 DEF x
<1> QED
  BY <1>4, <1>5, <1>6, <1>7 DEF Loop!Others

LEMMA CallsBegin ==
  ASSUME Loop!Init
  PROVE  CallsInv
<1>1. /\ mIn = << >> /\ mOut = << >> /\ stack = << >> /\ pending = << >>
      /\ tstack = << >> /\ todo = << >> /\ work = << >>
  BY DEF Loop!Init
<1>2. Idle
  BY <1>1 DEF Idle
<1>3. WorkOK
  BY <1>1 DEF WorkOK
<1> QED
  BY <1>1, <1>2, <1>3, IdentityBegins, NothingBelow DEF CallsInv, Phased

LEMMA ThreadInPhase ==
  ASSUME CallsInv, Loop!Thread
  PROVE  InPhase' /\ WorkOK'
<1>1. WorkOK
  BY DEF CallsInv
<1>2. CASE Loop!ReadCommands
  BY <1>2, ReadInPhase
<1>3. CASE Loop!WriteCommand
  <2>1. InPhase' /\ work' = work
    BY <1>3, WriteInPhase
  <2> QED
    BY <1>1, <2>1 DEF WorkOK
<1>4. CASE Loop!GetAndExecuteCommand \/ Loop!WaitEnds \/ Loop!WaitExecutes
  <2>1. work' = work
    BY <1>4 DEF Loop!GetAndExecuteCommand, Loop!WaitEnds, Loop!WaitExecutes, Loop!driver
  <2>2. InPhase'
    BY <1>4, LoopExecutes, WaitEndsInPhase, WaitExecutesInPhase
  <2> QED
    BY <1>1, <2>1, <2>2 DEF WorkOK
<1>5. CASE \E o \in Objects \cup {Nobody}, oneway \in BOOLEAN : Loop!Call(o, oneway)
  <2>1. PICK o \in Objects \cup {Nobody}, oneway \in BOOLEAN : Loop!Call(o, oneway)
    BY <1>5
  <2>2. work' = work
    BY <2>1 DEF Loop!Call, Loop!driver
  <2>3. InPhase'
    BY <2>1, CallInPhase
  <2> QED
    BY <1>1, <2>2, <2>3 DEF WorkOK
<1>6. CASE Loop!ClearCallingIdentity \/ Loop!ServeReturns \/ Loop!SendReply \/ Loop!Transacted
  <2>1. work' = work
    BY <1>6 DEF Loop!ClearCallingIdentity, Loop!ServeReturns, Loop!SendReply, Loop!Transacted, Loop!driver
  <2>2. InPhase'
    BY <1>6, ClearInPhase, ServeReturnsInPhase, SendReplyInPhase, TransactedInPhase
  <2> QED
    BY <1>1, <2>1, <2>2 DEF WorkOK
<1>7. CASE Loop!BeginDerefs \/ Loop!Deref \/ Loop!EndDerefs \/ Loop!Destroyed
  <2>1. work' = work
    BY <1>7 DEF Loop!BeginDerefs, Loop!Deref, Loop!EndDerefs, Loop!Destroyed, Loop!driver
  <2>2. InPhase'
    BY <1>7, BeginDerefsInPhase, DerefInPhase, EndDerefsInPhase, DestroyedInPhase
  <2> QED
    BY <1>1, <2>1, <2>2 DEF WorkOK
<1> QED
  BY <1>2, <1>3, <1>4, <1>5, <1>6, <1>7 DEF Loop!Thread

LEMMA CallsKept ==
  ASSUME CallsInv, Loop!Next
  PROVE  CallsInv'
<1>1. IdentityInv'
  <2>1. IdentityInv
    BY DEF CallsInv
  <2> QED
    BY <2>1, ThreadKeepsIdentity, OthersKeepIdentity DEF Loop!Next
<1>2. InPhase' /\ WorkOK'
  BY ThreadInPhase, OthersInPhase DEF Loop!Next
<1> QED
  BY <1>1, <1>2 DEF CallsInv, InPhase

-----------------------------------------------------------------------------
(* What the thread has promised (IPCThreadState)                           *)
LEMMA SameCount ==
  ASSUME NEW S
  PROVE  Loop!Cardinality(S) = Cardinality(S)
  BY DEF Loop!Cardinality, Cardinality

LEMMA RepliesPromise ==
  ASSUME CallsInv
  PROVE  Loop!RepliesReachTheirCalls
<1>1. /\ mIn \in Seq(Incoming) /\ tstack \in Seq(Ways) /\ stack \in Seq(Activations) /\ Phased
      /\ mOut \in Seq(Outgoing)
  BY CallsTyped
<1>2. ASSUME mOut # << >>, Head(mOut).cmd = "reply" PROVE tstack # << >> /\ Loop!Last(tstack) = "in"
  <2>1. Calling \/ Replying
    BY <1>1, <1>2 DEF Phased, Idle, Busy, Sent, Waiting
  <2>2. ~Calling
    <3>1. ASSUME NEW x, mOut = <<x>> PROVE Head(mOut) = x
      BY <3>1
    <3> QED
      BY <1>2, <3>1 DEF Calling, Written, Loop!Command
  <2>3. Turns(tstack, OpenCount(stack) + 1, "in") /\ OpenCount(stack) \in Nat
    BY <1>1, <2>1, <2>2, TimesIsNat DEF Replying, OpenCount
  <2> QED
    BY <1>1, <2>3, TurnsLast
<1>3. ASSUME mIn # << >>, stack = << >> PROVE Head(mIn).cmd \in {"release", "transaction"}
  <2>1. Idle
    BY <1>1, <1>3 DEF Phased, Busy, Calling, Replying, Sent, Waiting
  <2>2. Head(mIn) = mIn[1] /\ 1 \in 1 .. Len(mIn)
    BY <1>1, <1>3, EmptySeq
  <2> QED
    BY <2>1, <2>2 DEF Idle
<1>4. ASSUME mIn # << >>, Loop!On({"wait"}), Head(mIn).cmd = "reply"
      PROVE  ~Loop!Top.oneway /\ Head(mIn).depth = OpenCount(stack)
  <2> DEFINE a == Upper(stack)
  <2>1. stack # << >> /\ a.kind = "wait" /\ Loop!Top = a /\ (Sent \/ Waiting)
    BY <1>4, OnTop, Inner, InWait
  <2>2. Head(mIn) = Coming[1] /\ 1 \in 1 .. Len(Coming) /\ Ranked(Coming) /\ Coming \in Seq(Answers)
    <3>1. mIn[1] = Head(mIn) /\ 1 \in 1 .. Len(mIn)
      BY <1>1, <1>4, EmptySeq
    <3>2. Coming[1] = mIn[1] /\ 1 \in 1 .. Len(Coming)
      BY <1>1, <3>1, CallsTyped, ConcatProperties DEF Coming
    <3> QED
      BY <2>1, <3>1, <3>2 DEF Sent, Waiting, Expected
  <2>3. Waiting
    BY <1>4, <2>1, <2>2 DEF Sent, Has
  <2>4. ~a.oneway
    <3> SUFFICES ASSUME a.oneway PROVE FALSE
      OBVIOUS
    <3>1. PICK i \in 1 .. Len(Coming) : Coming[i].cmd = "complete"
      BY <2>1, <2>3 DEF Waiting, Has
    <3>2. i # 1 /\ 1 < i
      BY <1>4, <2>2, <3>1
    <3>3. Rank(Coming[1]) < Rank(Coming[i])
      BY <2>2, <3>2 DEF Ranked
    <3> QED
      BY <1>4, <2>2, <3>1, <3>3 DEF Rank
  <2> QED
    BY <1>4, <2>1, <2>2, <2>3, <2>4 DEF Waiting
<1>5. Cardinality(Loop!Open) = OpenCount(stack)
  <2>1. Loop!Open = PlacesOf(stack, Opens)
    BY <1>1 DEF Loop!Open, PlacesOf, Opens, IsOpen
  <2> QED
    BY <2>1 DEF OpenCount, Times
<1>6. Loop!On({"wait"}) => stack # << >>
  BY DEF Loop!On
<1>7. ASSUME mIn # << >>, stack = << >> \/ Loop!On({"wait"})
      PROVE  /\ Head(mIn).cmd \in {"complete", "reply"} => stack # << >>
             /\ Head(mIn).cmd = "reply" =>
                  ~Loop!Top.oneway /\ Head(mIn).depth = Loop!Cardinality(Loop!Open)
  <2>1. CASE stack = << >>
    <3>1. Head(mIn).cmd \notin {"complete", "reply"}
      BY <1>3, <1>7, <2>1
    <3> QED
      BY <3>1
  <2>2. CASE Loop!On({"wait"})
    BY <1>4, <1>5, <1>6, <1>7, <2>2, SameCount
  <2> QED
    BY <1>7, <2>1, <2>2
<1> QED
  BY <1>2, <1>7 DEF Loop!RepliesReachTheirCalls

-----------------------------------------------------------------------------
(* References (IPCThreadState)                                             *)

(* A reference is promised by an acquire that comes; it is owed for what   *)
(* other processes have, for their releases, as long as they are put off;  *)
(* or it is held by an activation.                                         *)
Of(c, o) == {x \in Incoming : x.cmd = c /\ x.obj = o}
IsHolder(a, o) == a.kind \in {"serve", "wait"} /\ a.obj = o
HoldersOf(o) == {a \in Activations : IsHolder(a, o)}
LeftOf(s, p) == IF s # << >> /\ s[1].kind = "derefs" THEN SubSeq(p, s[1].n, Len(p)) ELSE p

Acquiring(o) == Times(Coming, Of("acquire", o))
Known(o) == IF o \in known THEN 1 ELSE 0
Releasing(o) == Times(work, Of("release", o)) + Times(mIn, Of("release", o))
PutOff(o) == Times(LeftOf(stack, pending), {o})
Owed(o) == Known(o) + Releasing(o) + PutOff(o)
Holds(o) == Times(stack, HoldersOf(o))

(* The other processes are owed one reference at most, and none as long as *)
(* the object is new to them.                                              *)
RefsInv ==
  /\ strongOf \in [Objects -> Int]
  /\ \A o \in Objects :
       /\ strongOf[o] + Acquiring(o) = Owed(o) + Holds(o)
       /\ Owed(o) <= 1
       /\ mOut # << >> /\ Head(mOut).obj = o => Owed(o) = 0

LEMMA RefsTyped ==
  ASSUME CallsInv
  PROVE  /\ LeftOf(stack, pending) \in Seq(Objects)
         /\ \A o : /\ Acquiring(o) \in Nat /\ Known(o) \in {0, 1} /\ Releasing(o) \in Nat
                   /\ Times(work, Of("release", o)) \in Nat
                   /\ Times(mIn, Of("release", o)) \in Nat
                   /\ PutOff(o) \in Nat /\ Owed(o) \in Nat /\ Holds(o) \in Nat
<1>1. /\ mIn \in Seq(Incoming) /\ work \in Seq(Incoming) /\ Coming \in Seq(Incoming)
      /\ stack \in Seq(Activations) /\ pending \in Seq(Objects)
  BY CallsTyped
<1>2. LeftOf(stack, pending) \in Seq(Objects)
  <2>1. CASE stack # << >> /\ stack[1].kind = "derefs"
    <3>1. stack[1] \in Activations
      <4>1. 1 \in 1 .. Len(stack)
        BY <1>1, <2>1, EmptySeq
      <4> QED
        BY <1>1, <4>1
    <3>2. stack[1].n \in Nat /\ stack[1].n > 0
      BY <2>1, <3>1 DEF Activations
    <3> DEFINE n == stack[1].n
    <3> HIDE DEF n
    <3>3. \A i \in n .. Len(pending) : pending[i] \in Objects
      BY <1>1, <3>2 DEF n
    <3>4. SubSeq(pending, n, Len(pending)) \in Seq(Objects)
      BY <1>1, <3>2, <3>3, SubSeqProperties DEF n
    <3> QED
      BY <2>1, <3>4 DEF LeftOf, n
  <2>2. CASE ~(stack # << >> /\ stack[1].kind = "derefs")
    BY <1>1, <2>2 DEF LeftOf
  <2> QED
    BY <2>1, <2>2
<1>3. ASSUME NEW o
      PROVE  /\ Acquiring(o) \in Nat /\ PutOff(o) \in Nat /\ Holds(o) \in Nat
             /\ Times(work, Of("release", o)) \in Nat /\ Times(mIn, Of("release", o)) \in Nat
  BY <1>1, <1>2, TimesIsNat DEF Acquiring, PutOff, Holds
<1>4. ASSUME NEW o PROVE Known(o) \in {0, 1} /\ Releasing(o) \in Nat /\ Owed(o) \in Nat
  BY <1>3 DEF Known, Releasing, Owed
<1> QED
  BY <1>2, <1>3, <1>4

(* An activation that begins or ends.                                      *)
LEMMA Holding ==
  ASSUME NEW s \in Seq(Activations), NEW a \in Activations, NEW p, a.kind # "derefs"
  PROVE  /\ LeftOf(Append(s, a), p) = LeftOf(s, p)
         /\ Append(s, a) \in Seq(Activations)
         /\ \A o : Times(Append(s, a), HoldersOf(o))
                     = Times(s, HoldersOf(o)) + (IF IsHolder(a, o) THEN 1 ELSE 0)
         /\ \A o : Times(s, HoldersOf(o)) \in Nat
<1>1. /\ Append(s, a) \in Seq(Activations) /\ Append(s, a) # << >>
      /\ Append(s, a)[1] = IF s = << >> THEN a ELSE s[1]
  BY Grows
<1>2. LeftOf(Append(s, a), p) = LeftOf(s, p)
  BY <1>1 DEF LeftOf
<1> QED
  BY <1>1, <1>2, TimesAppend, TimesIsNat DEF HoldersOf

LEMMA OneAcquire ==
  ASSUME CallsInv, NEW o \in Objects
  PROVE  /\ Acquiring(o) <= 1
         /\ Acquiring(o) > 0 => stack # << >> /\ IsHolder(Upper(stack), o) /\ Holds(o) > 0
         /\ (Idle \/ Busy \/ Calling \/ Replying) => Acquiring(o) = 0
<1>1. /\ Coming \in Seq(Incoming) /\ mIn \in Seq(Incoming) /\ Phased /\ Acquiring(o) \in Nat
      /\ todo = << >> => Coming = mIn
  BY CallsTyped, RefsTyped
<1>2. ASSUME Idle \/ Busy \/ Calling \/ Replying PROVE Acquiring(o) = 0
  <2>1. Coming = mIn /\ \A i \in 1 .. Len(mIn) : mIn[i].cmd # "acquire"
    <3>1. todo = << >>
      BY <1>2 DEF Idle, Busy, Calling, Replying
    <3>2. Idle \/ mIn = << >>
      BY <1>2 DEF Busy, Calling, Replying
    <3>3. Idle => \A i \in 1 .. Len(mIn) : mIn[i].cmd # "acquire"
      BY DEF Idle
    <3> QED
      BY <1>1, <3>1, <3>2, <3>3
  <2> QED
    BY <1>1, <2>1, TimesNone DEF Acquiring, Of
<1>3. ASSUME Sent \/ Waiting PROVE Acquiring(o) <= 1
  <2>1. Coming \in Seq(Answers) /\ Ranked(Coming)
    BY <1>3 DEF Sent, Waiting, Expected
  <2>2. ASSUME NEW i \in 1 .. Len(Coming), Coming[i].cmd = "acquire" PROVE i <= 1
    <3> SUFFICES ASSUME i > 1 PROVE FALSE
      BY <1>1
    <3>1. 1 \in 1 .. Len(Coming)
      BY <1>1
    <3>2. Rank(Coming[1]) < Rank(Coming[i])
      BY <2>1, <3>1 DEF Ranked
    <3> QED
      BY <2>2, <3>2 DEF Rank
  <2>3. \A i \in 1 .. Len(Coming) : Coming[i] \in Of("acquire", o) => i <= 1
    BY <2>2 DEF Of
  <2> QED
    BY <1>1, <2>3, TimesBound DEF Acquiring
<1>4. ASSUME Acquiring(o) > 0 PROVE stack # << >> /\ IsHolder(Upper(stack), o) /\ Holds(o) > 0
  <2>1. Sent \/ Waiting
    BY <1>1, <1>2, <1>4 DEF Phased
  <2>2. PICK i \in 1 .. Len(Coming) : Coming[i] \in Of("acquire", o)
    <3>1. Acquiring(o) # 0
      BY <1>1, <1>4
    <3> QED
      BY <1>1, <3>1, TimesNone DEF Acquiring
  <2>3. Has(Coming, "acquire") /\ Upper(stack).obj = o /\ stack # << >>
    BY <2>1, <2>2 DEF Sent, Waiting, Expected, Has, Of
  <2>4. Upper(stack).kind = "wait"
    BY <2>1, <2>3 DEF Sent, Waiting, Open
  <2>5. stack \in Seq(Activations) /\ Len(stack) \in 1 .. Len(stack) /\ stack[Len(stack)] \in HoldersOf(o)
    <3>1. Len(stack) \in 1 .. Len(stack) /\ Upper(stack) \in Activations /\ stack \in Seq(Activations)
      BY <2>3, Inner, CallsTyped, EmptySeq
    <3> QED
      BY <2>3, <2>4, <3>1 DEF HoldersOf, IsHolder, Upper
  <2>6. Holds(o) # 0
    BY <2>5, TimesNone DEF Holds
  <2> QED
    BY <2>3, <2>4, <2>6, RefsTyped DEF IsHolder
<1> QED
  BY <1>1, <1>2, <1>3, <1>4 DEF Phased

(* No count goes below zero.                                               *)
LEMMA StrongIsNat ==
  ASSUME CallsInv, RefsInv, NEW o \in Objects
  PROVE  strongOf[o] \in Nat /\ strongOf[o] + Acquiring(o) = Owed(o) + Holds(o)
<1>1. /\ Acquiring(o) \in Nat /\ Owed(o) \in Nat /\ Holds(o) \in Nat
      /\ Acquiring(o) <= 1
      /\ Acquiring(o) > 0 => Holds(o) > 0
  BY OneAcquire, RefsTyped
<1>2. strongOf[o] + Acquiring(o) = Owed(o) + Holds(o) /\ strongOf[o] \in Int
  BY DEF RefsInv
<1> QED
  BY <1>1, <1>2

(* A step that moves references, but leaves the sum as it is.              *)
LEMMA Rebalanced ==
  ASSUME CallsInv, RefsInv, strongOf' \in [Objects -> Int],
         mOut' = mOut \/ mOut' = << >> \/ Head(mOut').obj \notin Objects,
         \A o \in Objects :
           /\ Owed(o)' \in Nat /\ Owed(o)' <= Owed(o)
           /\ Holds(o)' \in Nat /\ Acquiring(o)' \in Nat
           /\ strongOf'[o] + Acquiring(o)' + Owed(o) + Holds(o)
                = strongOf[o] + Acquiring(o) + Owed(o)' + Holds(o)'
  PROVE  RefsInv'
<1> SUFFICES ASSUME NEW o \in Objects
             PROVE  /\ strongOf'[o] + Acquiring(o)' = Owed(o)' + Holds(o)'
                    /\ Owed(o)' <= 1
                    /\ mOut' # << >> /\ Head(mOut').obj = o => Owed(o)' = 0
  BY DEF RefsInv
<1>1. /\ strongOf[o] + Acquiring(o) = Owed(o) + Holds(o) /\ Owed(o) <= 1
      /\ strongOf[o] \in Int /\ strongOf'[o] \in Int
  BY DEF RefsInv
<1>2. mOut # << >> /\ Head(mOut).obj = o => Owed(o) = 0
  BY DEF RefsInv
<1>3. Acquiring(o) \in Nat /\ Owed(o) \in Nat /\ Holds(o) \in Nat
  BY RefsTyped
<1>4. strongOf'[o] + Acquiring(o)' = Owed(o)' + Holds(o)' /\ Owed(o)' <= 1
  <2>1. /\ Owed(o)' \in Nat /\ Owed(o)' <= Owed(o) /\ Holds(o)' \in Nat /\ Acquiring(o)' \in Nat
        /\ strongOf'[o] + Acquiring(o)' + Owed(o) + Holds(o)
             = strongOf[o] + Acquiring(o) + Owed(o)' + Holds(o)'
    OBVIOUS
  <2>2. Owed(o)' <= 1
    BY <1>1, <1>3, <2>1
  <2> DEFINE s == strongOf[o]
             t == strongOf'[o]
             a == Acquiring(o)
             w == Owed(o)
             h == Holds(o)
             b == Acquiring(o)'
             v == Owed(o)'
             g == Holds(o)'
  <2>3. /\ s \in Int /\ a \in Nat /\ w \in Nat /\ h \in Nat
        /\ t \in Int /\ b \in Nat /\ v \in Nat /\ g \in Nat
        /\ s + a = w + h /\ t + b + w + h = s + a + v + g
    BY <1>1, <1>3, <2>1
  <2> HIDE DEF s, t, a, w, h, b, v, g
  <2>4. t + b = v + g
    BY <2>3
  <2> QED
    BY <2>2, <2>4 DEF t, b, v, g
<1>5. Owed(o) = 0 => Owed(o)' = 0
  BY <1>3
<1> QED
  BY <1>2, <1>4, <1>5

(* What is executed goes from the queue, and from what comes.              *)
LEMMA TakenNext ==
  ASSUME CallsInv, mIn # << >>, mIn' = Tail(mIn), todo' = todo, NEW o
  PROVE  /\ Acquiring(o) = Acquiring(o)' + (IF Head(mIn) \in Of("acquire", o) THEN 1 ELSE 0)
         /\ Times(mIn, Of("release", o))
              = Times(mIn, Of("release", o))' + (IF Head(mIn) \in Of("release", o) THEN 1 ELSE 0)
         /\ Acquiring(o)' \in Nat /\ Times(mIn, Of("release", o))' \in Nat
<1>1. /\ Coming # << >> /\ Head(Coming) = Head(mIn) /\ Coming' = Tail(Coming)
      /\ Coming \in Seq(Incoming) /\ mIn \in Seq(Incoming)
  BY TakesNext, CallsTyped
<1>2. Tail(Coming) \in Seq(Incoming) /\ Tail(mIn) \in Seq(Incoming)
  BY <1>1, TailIsSeq
<1>3. Times(Coming, Of("acquire", o))
        = Times(Tail(Coming), Of("acquire", o)) + (IF Head(Coming) \in Of("acquire", o) THEN 1 ELSE 0)
  BY <1>1, TimesTail
<1>4. Times(mIn, Of("release", o))
        = Times(Tail(mIn), Of("release", o)) + (IF Head(mIn) \in Of("release", o) THEN 1 ELSE 0)
  BY <1>1, TimesTail
<1>5. Times(Tail(Coming), Of("acquire", o)) \in Nat /\ Times(Tail(mIn), Of("release", o)) \in Nat
  BY <1>2, TimesIsNat
<1> QED
  BY <1>1, <1>3, <1>4, <1>5 DEF Acquiring

(* A transaction takes a reference to its object, if there is one.         *)
LEMMA ServesWithReference ==
  ASSUME CallsInv, RefsInv, NEW c \in Incoming, c.cmd = "transaction", Loop!Execute(c),
         NEW o \in Objects
  PROVE  /\ strongOf' \in [Objects -> Int]
         /\ LeftOf(stack', pending') = LeftOf(stack, pending)
         /\ Holds(o)' \in Nat /\ strongOf'[o] + Holds(o) = strongOf[o] + Holds(o)'
<1>1. PICK a \in Activations :
           /\ stack' = Append(stack, a) /\ pending' = pending
           /\ a.kind = IF strongOf[c.obj] > 0 THEN "serve" ELSE "served"
           /\ a.obj = c.obj /\ a.obj \in Objects
  BY Serves
<1>2. strongOf \in [Objects -> Int] /\ stack \in Seq(Activations)
  BY CallsTyped DEF RefsInv
<1>3. strongOf' = [strongOf EXCEPT ![c.obj] = IF @ > 0 THEN @ + 1 ELSE 0]
  BY DEF Loop!Execute, Loop!Transact
<1>4. \A x \in Objects : strongOf[x] \in Nat /\ Holds(x) \in Nat
  BY StrongIsNat, RefsTyped
<1>5. strongOf' \in [Objects -> Int]
  BY <1>1, <1>2, <1>3
<1>6. strongOf'[o] = strongOf[o] + (IF strongOf[c.obj] > 0 /\ c.obj = o THEN 1 ELSE 0)
  BY <1>1, <1>2, <1>3, <1>4
<1>7. /\ LeftOf(stack', pending') = LeftOf(stack, pending)
      /\ Holds(o)' = Holds(o) + (IF IsHolder(a, o) THEN 1 ELSE 0)
  <2>1. a.kind # "derefs"
    BY <1>1
  <2>2. /\ LeftOf(Append(stack, a), pending) = LeftOf(stack, pending)
        /\ Times(Append(stack, a), HoldersOf(o))
                     = Times(stack, HoldersOf(o)) + (IF IsHolder(a, o) THEN 1 ELSE 0)
    BY <1>2, <2>1, Holding
  <2> QED
    BY <1>1, <2>2 DEF Holds
<1>8. IsHolder(a, o) <=> strongOf[c.obj] > 0 /\ c.obj = o
  BY <1>1 DEF IsHolder
<1>9. strongOf[o] \in Nat /\ Holds(o) \in Nat
  BY <1>4
<1>10. Holds(o)' \in Nat /\ strongOf'[o] + Holds(o) = strongOf[o] + Holds(o)'
  BY <1>6, <1>7, <1>8, <1>9
<1> QED
  BY <1>5, <1>7, <1>10

LEMMA LoopExecutesRefs ==
  ASSUME CallsInv, RefsInv, Loop!GetAndExecuteCommand
  PROVE  RefsInv'
<1> DEFINE c == Head(mIn)
<1>1. /\ stack = << >> /\ mIn # << >> /\ Loop!Execute(c) /\ mIn' = Tail(mIn)
      /\ UNCHANGED <<mOut, todo, work, known>>
  BY DEF Loop!GetAndExecuteCommand, Loop!driver
<1>2. /\ mIn \in Seq(Incoming) /\ pending \in Seq(Objects) /\ c \in Incoming
      /\ c.cmd \in {"release", "transaction"}
  <2>1. mIn \in Seq(Incoming) /\ pending \in Seq(Objects) /\ Phased
    BY CallsTyped
  <2>2. Idle
    BY <1>1, <2>1 DEF Phased, Busy, Calling, Replying, Sent, Waiting
  <2>3. c = mIn[1] /\ 1 \in 1 .. Len(mIn)
    BY <1>1, <2>1, EmptySeq
  <2> QED
    BY <2>1, <2>2, <2>3 DEF Idle
<1>3. strongOf \in [Objects -> Int]
  BY DEF RefsInv
<1>4. \A o : /\ Acquiring(o) = Acquiring(o)' + (IF c \in Of("acquire", o) THEN 1 ELSE 0)
             /\ Times(mIn, Of("release", o))
                  = Times(mIn, Of("release", o))' + (IF c \in Of("release", o) THEN 1 ELSE 0)
             /\ Acquiring(o)' \in Nat /\ Times(mIn, Of("release", o))' \in Nat
  BY <1>1, TakenNext
<1>5. \A o : /\ Times(work, Of("release", o)) \in Nat /\ Times(mIn, Of("release", o)) \in Nat
             /\ Acquiring(o) \in Nat /\ Owed(o) \in Nat /\ PutOff(o) \in Nat /\ Holds(o) \in Nat
             /\ Known(o) \in {0, 1}
  BY RefsTyped
<1>6. \A o : /\ Owed(o) = Known(o) + (Times(work, Of("release", o)) + Times(mIn, Of("release", o))) + PutOff(o)
             /\ Owed(o)' = Known(o) + (Times(work, Of("release", o)) + Times(mIn, Of("release", o))') + PutOff(o)'
  BY <1>1 DEF Owed, Releasing, Known
<1> HIDE DEF c
<1>7. CASE c.cmd = "release"
  <2>1. stack' = stack /\ strongOf' = strongOf /\ pending' = Append(pending, c.obj) /\ c.obj \in Objects
    BY <1>1, <1>2, <1>7, PutsOff
  <2>2. \A o : PutOff(o)' = PutOff(o) + (IF c.obj = o THEN 1 ELSE 0) /\ Holds(o)' = Holds(o)
    <3>2. ASSUME NEW o PROVE /\ PutOff(o)' = Times(Append(pending, c.obj), {o})
                             /\ PutOff(o) = Times(pending, {o}) /\ Holds(o)' = Holds(o)
      BY <1>1, <2>1 DEF PutOff, LeftOf, Holds
    <3>3. ASSUME NEW o PROVE Times(Append(pending, c.obj), {o})
                               = Times(pending, {o}) + (IF c.obj \in {o} THEN 1 ELSE 0)
      BY <1>2, <2>1, TimesAppend
    <3> QED
      BY <3>2, <3>3
  <2>3. \A o \in Objects : /\ c \in Of("release", o) <=> c.obj = o
                           /\ c \notin Of("acquire", o)
    BY <1>2, <1>7 DEF Of
  <2>4. ASSUME NEW o \in Objects
        PROVE  Owed(o)' = Owed(o) /\ Acquiring(o)' = Acquiring(o) /\ Holds(o)' = Holds(o)
    BY <1>4, <1>5, <1>6, <2>2, <2>3
  <2> QED
    BY <1>1, <1>3, <1>5, <2>1, <2>4, Rebalanced
<1>8. CASE c.cmd = "transaction"
  <2>1. ASSUME NEW o \in Objects
        PROVE  /\ strongOf' \in [Objects -> Int]
               /\ LeftOf(stack', pending') = LeftOf(stack, pending)
               /\ Holds(o)' \in Nat /\ strongOf'[o] + Holds(o) = strongOf[o] + Holds(o)'
    BY <1>1, <1>2, <1>8, ServesWithReference
  <2>2. strongOf' \in [Objects -> Int]
    <3>1. c.obj \in Objects
      BY <1>2, <1>8 DEF Incoming
    <3> QED
      BY <2>1, <3>1
  <2>3. \A o \in Objects : c \notin Of("release", o) /\ c \notin Of("acquire", o)
    BY <1>8 DEF Of
  <2>4. ASSUME NEW o \in Objects
        PROVE  Owed(o)' = Owed(o) /\ Acquiring(o)' = Acquiring(o)
    <3>1. PutOff(o)' = PutOff(o)
      BY <2>1 DEF PutOff
    <3> QED
      BY <1>4, <1>5, <1>6, <2>3, <3>1
  <2>5. ASSUME NEW o \in Objects
        PROVE  /\ Owed(o)' \in Nat /\ Owed(o)' <= Owed(o)
               /\ Holds(o)' \in Nat /\ Acquiring(o)' \in Nat
               /\ strongOf'[o] + Acquiring(o)' + Owed(o) + Holds(o)
                    = strongOf[o] + Acquiring(o) + Owed(o)' + Holds(o)'
    <3>1. strongOf[o] \in Int /\ strongOf'[o] \in Int
      BY <1>3, <2>2
    <3>2. Holds(o)' \in Nat /\ strongOf'[o] + Holds(o) = strongOf[o] + Holds(o)'
      BY <2>1
    <3>3. Acquiring(o) \in Nat /\ Owed(o) \in Nat /\ Holds(o) \in Nat
      BY <1>5
    <3> QED
      BY <2>4, <3>1, <3>2, <3>3
  <2> QED
    BY <1>1, <2>2, <2>5, Rebalanced
<1> QED
  BY <1>2, <1>7, <1>8

(* What is executed, or ends a wait, is taken from what comes: it releases *)
(* nothing.                                                                *)
LEMMA TakenInWait ==
  ASSUME CallsInv, RefsInv, mIn # << >>, mIn' = Tail(mIn), Head(mIn).cmd # "release",
         UNCHANGED <<mOut, todo, work, known>>, strongOf' \in [Objects -> Int],
         LeftOf(stack', pending') = LeftOf(stack, pending),
         \A o \in Objects :
           /\ Holds(o)' \in Nat
           /\ strongOf'[o] + Holds(o)
                = strongOf[o] + Holds(o)' + (IF Head(mIn) \in Of("acquire", o) THEN 1 ELSE 0)
  PROVE  RefsInv'
<1> DEFINE c == Head(mIn)
<1>1. ASSUME NEW o \in Objects
      PROVE  /\ Owed(o)' \in Nat /\ Owed(o)' <= Owed(o)
             /\ Holds(o)' \in Nat /\ Acquiring(o)' \in Nat
             /\ strongOf'[o] + Acquiring(o)' + Owed(o) + Holds(o)
                  = strongOf[o] + Acquiring(o) + Owed(o)' + Holds(o)'
  <2>1. /\ Acquiring(o) = Acquiring(o)' + (IF c \in Of("acquire", o) THEN 1 ELSE 0)
        /\ Times(mIn, Of("release", o))
             = Times(mIn, Of("release", o))' + (IF c \in Of("release", o) THEN 1 ELSE 0)
        /\ Acquiring(o)' \in Nat /\ Times(mIn, Of("release", o))' \in Nat
    BY TakenNext
  <2>2. c \notin Of("release", o)
    BY DEF Of
  <2>3. Times(mIn, Of("release", o))' = Times(mIn, Of("release", o))
    BY <2>1, <2>2
  <2>4. Owed(o)' = Owed(o)
    BY <2>3 DEF Owed, Known, Releasing, PutOff
  <2>5. /\ Acquiring(o) \in Nat /\ Owed(o) \in Nat /\ Holds(o) \in Nat /\ Holds(o)' \in Nat
        /\ strongOf[o] \in Int /\ strongOf'[o] \in Int
    BY RefsTyped DEF RefsInv
  <2>6. strongOf'[o] + Holds(o) = strongOf[o] + Holds(o)' + (IF c \in Of("acquire", o) THEN 1 ELSE 0)
    OBVIOUS
  <2> DEFINE s == strongOf[o]
             t == strongOf'[o]
             A == Acquiring(o)
             B == Acquiring(o)'
             W == Owed(o)
             V == Owed(o)'
             H == Holds(o)
             G == Holds(o)'
             d == IF c \in Of("acquire", o) THEN 1 ELSE 0
  <2>7. /\ s \in Int /\ t \in Int /\ A \in Nat /\ B \in Nat /\ W \in Nat /\ V = W
        /\ H \in Nat /\ G \in Nat /\ d \in Nat /\ t + H = s + G + d /\ A = B + d
    BY <2>1, <2>4, <2>5, <2>6
  <2> HIDE DEF s, t, A, B, W, V, H, G, d
  <2>8. V \in Nat /\ V <= W /\ t + B + W + H = s + A + V + G
    BY <2>7
  <2> QED
    BY <2>7, <2>8 DEF s, t, A, B, W, V, H, G
<1> QED
  BY <1>1, Rebalanced

LEMMA WaitExecutesRefs ==
  ASSUME CallsInv, RefsInv, Loop!WaitExecutes
  PROVE  RefsInv'
<1> DEFINE c == Head(mIn)
<1>1. /\ mIn # << >> /\ Loop!Execute(c) /\ mIn' = Tail(mIn)
      /\ UNCHANGED <<mOut, todo, work, known>>
  BY DEF Loop!WaitExecutes, Loop!driver
<1>2. c.cmd \in {"acquire", "complete", "transaction"} /\ c \in Incoming
  BY <1>1, WaitExecutesInPhase, TakesNext DEF Loop!WaitExecutes, Loop!driver
<1>3. /\ strongOf \in [Objects -> Int]
      /\ \A o \in Objects : strongOf[o] \in Int /\ Holds(o) \in Nat
  BY RefsTyped DEF RefsInv
<1> HIDE DEF c
<1>4. /\ strongOf' \in [Objects -> Int]
      /\ LeftOf(stack', pending') = LeftOf(stack, pending)
      /\ \A o \in Objects :
           /\ Holds(o)' \in Nat
           /\ strongOf'[o] + Holds(o)
                = strongOf[o] + Holds(o)' + (IF c \in Of("acquire", o) THEN 1 ELSE 0)
  <2>1. CASE c.cmd = "acquire"
    <3>1. strongOf' = [strongOf EXCEPT ![c.obj] = @ + 1] /\ UNCHANGED <<stack, pending>>
      BY <1>1, <2>1 DEF Loop!Execute, Loop!Acquire
    <3>2. c.obj \in Objects
      BY <1>2, <2>1 DEF Incoming
    <3>3. strongOf' \in [Objects -> Int]
      BY <1>3, <3>1, <3>2
    <3>4. ASSUME NEW o \in Objects
          PROVE  /\ Holds(o)' \in Nat
                 /\ strongOf'[o] + Holds(o)
                      = strongOf[o] + Holds(o)' + (IF c \in Of("acquire", o) THEN 1 ELSE 0)
      <4>1. Holds(o)' = Holds(o)
        BY <3>1 DEF Holds
      <4>2. c \in Of("acquire", o) <=> c.obj = o
        BY <1>2, <2>1 DEF Of
      <4>3. strongOf'[o] = IF c.obj = o THEN strongOf[o] + 1 ELSE strongOf[o]
        BY <1>3, <3>1, <3>2
      <4> QED
        BY <1>3, <4>1, <4>2, <4>3
    <3> QED
      BY <3>1, <3>3, <3>4
  <2>2. CASE c.cmd = "complete"
    <3>1. UNCHANGED <<strongOf, stack, pending>>
      BY <1>1, <2>2 DEF Loop!Execute
    <3>2. ASSUME NEW o \in Objects PROVE Holds(o)' = Holds(o) /\ c \notin Of("acquire", o)
      BY <2>2, <3>1 DEF Holds, Of
    <3> QED
      BY <1>3, <3>1, <3>2
  <2>3. CASE c.cmd = "transaction"
    <3>1. ASSUME NEW o \in Objects
          PROVE  /\ strongOf' \in [Objects -> Int]
                 /\ LeftOf(stack', pending') = LeftOf(stack, pending)
                 /\ Holds(o)' \in Nat /\ strongOf'[o] + Holds(o) = strongOf[o] + Holds(o)'
      BY <1>1, <1>2, <2>3, ServesWithReference
    <3>2. strongOf' \in [Objects -> Int] /\ LeftOf(stack', pending') = LeftOf(stack, pending)
      <4>1. c.obj \in Objects
        BY <1>2, <2>3 DEF Incoming
      <4> QED
        BY <3>1, <4>1
    <3>3. ASSUME NEW o \in Objects
          PROVE  strongOf'[o] + Holds(o)
                   = strongOf[o] + Holds(o)' + (IF c \in Of("acquire", o) THEN 1 ELSE 0)
      <4>1. c \notin Of("acquire", o)
        BY <2>3 DEF Of
      <4> QED
        BY <1>3, <3>1, <4>1
    <3> QED
      BY <3>1, <3>2, <3>3
  <2> QED
    BY <1>2, <2>1, <2>2, <2>3
<1> QED
  BY <1>1, <1>2, <1>4, TakenInWait DEF c

(* The Parcel that carried the object of a call is gone with the call.     *)
LEMMA WaitEndsRefs ==
  ASSUME CallsInv, RefsInv, Loop!WaitEnds
  PROVE  RefsInv'
<1> DEFINE c == Head(mIn)
           a == Upper(stack)
           f == Loop!Front(stack)
<1>1. /\ mIn # << >> /\ mIn' = Tail(mIn) /\ stack' = f /\ pending' = pending
      /\ UNCHANGED <<mOut, todo, work, known>>
  BY DEF Loop!WaitEnds, Loop!driver, Loop!Pop
<1>2. /\ c.cmd \in {"complete", "reply"} /\ stack # << >> /\ a.kind = "wait"
      /\ stack = Append(f, a) /\ f \in Seq(Activations) /\ a \in Activations /\ Loop!Top = a
  BY WaitEndsInPhase, Inner
<1>3. /\ strongOf \in [Objects -> Int]
      /\ strongOf' = [o \in Objects |-> IF o = a.obj THEN strongOf[o] - 1 ELSE strongOf[o]]
      /\ \A o \in Objects : strongOf[o] \in Int
  BY <1>2 DEF RefsInv, Loop!WaitEnds
<1> HIDE DEF c, a, f
<1>4. strongOf' \in [Objects -> Int]
  BY <1>3
<1>5. /\ LeftOf(stack, pending) = LeftOf(f, pending)
      /\ \A o : Times(stack, HoldersOf(o))
                  = Times(f, HoldersOf(o)) + (IF IsHolder(a, o) THEN 1 ELSE 0)
      /\ \A o : Times(f, HoldersOf(o)) \in Nat
  BY <1>2, Holding
<1>6. ASSUME NEW o \in Objects
      PROVE  /\ Holds(o)' \in Nat
             /\ strongOf'[o] + Holds(o)
                  = strongOf[o] + Holds(o)' + (IF c \in Of("acquire", o) THEN 1 ELSE 0)
  <2>1. Holds(o) = Holds(o)' + (IF IsHolder(a, o) THEN 1 ELSE 0) /\ Holds(o)' \in Nat
    BY <1>1, <1>5 DEF Holds
  <2>2. IsHolder(a, o) <=> o = a.obj
    BY <1>2 DEF IsHolder
  <2>3. c \notin Of("acquire", o)
    BY <1>2 DEF Of
  <2> QED
    BY <1>3, <2>1, <2>2, <2>3
<1> QED
  BY <1>1, <1>2, <1>4, <1>5, <1>6, TakenInWait DEF c

(* The thread alone moves references.                                      *)
LEMMA MovedAlone ==
  ASSUME CallsInv, RefsInv, UNCHANGED <<mIn, todo, work, known>>,
         mOut' = mOut \/ Head(mOut').obj \notin Objects,
         strongOf' \in [Objects -> Int],
         \A o \in Objects :
           /\ PutOff(o)' \in Nat /\ PutOff(o)' <= PutOff(o) /\ Holds(o)' \in Nat
           /\ strongOf'[o] + Holds(o) + PutOff(o) = strongOf[o] + Holds(o)' + PutOff(o)'
  PROVE  RefsInv'
<1>1. ASSUME NEW o \in Objects
      PROVE  /\ Owed(o)' \in Nat /\ Owed(o)' <= Owed(o)
             /\ Holds(o)' \in Nat /\ Acquiring(o)' \in Nat
             /\ strongOf'[o] + Acquiring(o)' + Owed(o) + Holds(o)
                  = strongOf[o] + Acquiring(o) + Owed(o)' + Holds(o)'
  <2> DEFINE s == strongOf[o]
             t == strongOf'[o]
             A == Acquiring(o)
             B == Acquiring(o)'
             R == Known(o) + Releasing(o)
             W == Owed(o)
             V == Owed(o)'
             P == PutOff(o)
             Q == PutOff(o)'
             H == Holds(o)
             G == Holds(o)'
  <2>1. R \in Nat /\ A \in Nat /\ P \in Nat /\ H \in Nat /\ s \in Int /\ t \in Int
    <3>1. /\ Known(o) \in Nat /\ Releasing(o) \in Nat /\ Acquiring(o) \in Nat
          /\ PutOff(o) \in Nat /\ Holds(o) \in Nat
      <4>1. Known(o) \in {0, 1}
        BY RefsTyped
      <4>2. Known(o) \in Nat
        BY <4>1
      <4> QED
        BY <4>2, RefsTyped
    <3>2. strongOf[o] \in Int /\ strongOf'[o] \in Int
      BY DEF RefsInv
    <3> QED
      BY <3>1, <3>2
  <2>2. B = A /\ W = R + P /\ V = R + Q
    BY DEF Acquiring, Coming, Owed, Known, Releasing
  <2>3. Q \in Nat /\ Q <= P /\ G \in Nat /\ t + H + P = s + G + Q
    OBVIOUS
  <2> HIDE DEF s, t, A, B, R, W, V, P, Q, H, G
  <2>4. V \in Nat /\ V <= W /\ B \in Nat /\ t + B + W + H = s + A + V + G
    BY <2>1, <2>2, <2>3
  <2> QED
    BY <2>3, <2>4 DEF s, t, A, B, W, V, H, G
<1> QED
  BY <1>1, Rebalanced

(* It holds what it held, or drops a reference that it held.               *)
LEMMA HeldAlone ==
  ASSUME CallsInv, RefsInv, UNCHANGED <<mIn, todo, work, known>>,
         mOut' = mOut \/ Head(mOut').obj \notin Objects,
         strongOf' \in [Objects -> Int],
         LeftOf(stack', pending') = LeftOf(stack, pending),
         \A o \in Objects : /\ Holds(o)' \in Nat
                            /\ strongOf'[o] + Holds(o) = strongOf[o] + Holds(o)'
  PROVE  RefsInv'
<1>1. ASSUME NEW o \in Objects
      PROVE  /\ PutOff(o)' \in Nat /\ PutOff(o)' <= PutOff(o) /\ Holds(o)' \in Nat
             /\ strongOf'[o] + Holds(o) + PutOff(o) = strongOf[o] + Holds(o)' + PutOff(o)'
  <2> DEFINE s == strongOf[o]
             t == strongOf'[o]
             P == PutOff(o)
             Q == PutOff(o)'
             H == Holds(o)
             G == Holds(o)'
  <2>1. /\ s \in Int /\ t \in Int /\ P \in Nat /\ H \in Nat /\ G \in Nat /\ Q = P
        /\ t + H = s + G
    BY RefsTyped DEF RefsInv, PutOff
  <2> HIDE DEF s, t, P, Q, H, G
  <2>2. Q \in Nat /\ Q <= P /\ t + H + P = s + G + Q
    BY <2>1
  <2> QED
    BY <2>1, <2>2 DEF s, t, P, Q, H, G
<1> QED
  BY <1>1, MovedAlone

LEMMA ClearRefs ==
  ASSUME CallsInv, RefsInv, Loop!ClearCallingIdentity
  PROVE  RefsInv'
<1>1. UNCHANGED <<mIn, mOut, todo, work, known, stack, pending, strongOf>>
  BY DEF Loop!ClearCallingIdentity, Loop!driver
<1>2. strongOf \in [Objects -> Int] /\ \A o \in Objects : Holds(o) \in Nat /\ strongOf[o] \in Int
  BY RefsTyped DEF RefsInv
<1>3. \A o \in Objects : Holds(o)' = Holds(o) /\ strongOf'[o] = strongOf[o]
  BY <1>1 DEF Holds
<1>4. \A o \in Objects : Holds(o)' \in Nat /\ strongOf'[o] + Holds(o) = strongOf[o] + Holds(o)'
  BY <1>2, <1>3
<1> QED
  BY <1>1, <1>2, <1>4, HeldAlone

(* An activation that holds nothing ends.                                  *)
LEMMA EndsHoldingNothing ==
  ASSUME CallsInv, RefsInv, stack # << >>, Loop!Pop, UNCHANGED <<mIn, mOut, todo, work, known>>,
         UNCHANGED <<pending, strongOf>>,
         Upper(stack).kind \notin {"serve", "wait", "derefs"}
  PROVE  RefsInv'
<1> DEFINE a == Upper(stack)
           f == Loop!Front(stack)
<1>1. stack = Append(f, a) /\ f \in Seq(Activations) /\ a \in Activations /\ stack' = f
  BY Inner DEF Loop!Pop
<1>2. a.kind \notin {"serve", "wait", "derefs"}
  OBVIOUS
<1> HIDE DEF a, f
<1>3. /\ LeftOf(stack, pending) = LeftOf(f, pending)
      /\ \A o : Times(stack, HoldersOf(o))
                  = Times(f, HoldersOf(o)) + (IF IsHolder(a, o) THEN 1 ELSE 0)
      /\ \A o : Times(f, HoldersOf(o)) \in Nat
  BY <1>1, <1>2, Holding
<1>4. strongOf \in [Objects -> Int] /\ \A o \in Objects : strongOf[o] \in Int
  BY DEF RefsInv
<1>5. ASSUME NEW o \in Objects
      PROVE  Holds(o)' \in Nat /\ strongOf'[o] + Holds(o) = strongOf[o] + Holds(o)'
  <2>1. Holds(o)' = Holds(o) /\ Holds(o)' \in Nat
    BY <1>1, <1>2, <1>3 DEF Holds, IsHolder
  <2> QED
    BY <1>4, <2>1
<1> QED
  BY <1>1, <1>3, <1>4, <1>5, HeldAlone

LEMMA TransactedRefs ==
  ASSUME CallsInv, RefsInv, Loop!Transacted
  PROVE  RefsInv'
<1>1. /\ stack # << >> /\ Upper(stack).kind \in {"replied", "served"} /\ Loop!Pop
      /\ UNCHANGED <<mIn, mOut, todo, work, known, pending, strongOf>>
  <2>1. Loop!On({"replied"}) \/ Loop!On({"served"})
    BY DEF Loop!Transacted
  <2> QED
    BY <2>1, OnTop DEF Loop!Transacted, Loop!driver
<1> QED
  BY <1>1, EndsHoldingNothing

LEMMA DestroyedRefs ==
  ASSUME CallsInv, RefsInv, Loop!Destroyed
  PROVE  RefsInv'
<1>1. /\ stack # << >> /\ Upper(stack).kind = "destroy" /\ Loop!Pop
      /\ UNCHANGED <<mIn, mOut, todo, work, known, pending, strongOf>>
  BY OnTop DEF Loop!Destroyed, Loop!driver
<1> QED
  BY <1>1, EndsHoldingNothing

(* The transaction is served: what the activation held is given back.      *)
LEMMA ServeReturnsRefs ==
  ASSUME CallsInv, RefsInv, Loop!ServeReturns
  PROVE  RefsInv'
<1> DEFINE a == Upper(stack)
           f == Loop!Front(stack)
           b == [a EXCEPT !.kind = "served"]
           d == Loop!Activation("destroy", a.obj, Nobody, FALSE, 0)
<1>1. /\ stack # << >> /\ a.kind = "serve" /\ Loop!Top = a
      /\ stack = Append(f, a) /\ f \in Seq(Activations) /\ a \in Activations
  <2>1. Loop!On({"serve"})
    BY DEF Loop!ServeReturns
  <2> QED
    BY <2>1, OnTop, Inner
<1>2. /\ strongOf' = [strongOf EXCEPT ![a.obj] = @ - 1]
      /\ stack' = Append(f, b) \/ stack' = Append(Append(f, b), d)
      /\ UNCHANGED <<mIn, mOut, todo, work, known, pending>>
  BY <1>1 DEF Loop!ServeReturns, Loop!driver
<1>3. a.obj \in Objects
  BY <1>1, Inner DEF Placed
<1>4. b \in Activations /\ b.kind = "served"
  BY <1>1 DEF Activations, Kinds
<1>5. d \in Activations /\ d.kind = "destroy"
  <2>1. caller \in Identities
    BY CallsTyped
  <2> QED
    BY <1>3, <2>1 DEF Loop!Activation, Activations, Kinds
<1> HIDE DEF a, f, b, d
<1>6. /\ LeftOf(stack, pending) = LeftOf(f, pending)
      /\ \A o : Times(stack, HoldersOf(o))
                  = Times(f, HoldersOf(o)) + (IF IsHolder(a, o) THEN 1 ELSE 0)
      /\ \A o : Times(f, HoldersOf(o)) \in Nat
  BY <1>1, Holding
<1>7. /\ LeftOf(Append(f, b), pending) = LeftOf(f, pending)
      /\ \A o : Times(Append(f, b), HoldersOf(o)) = Times(f, HoldersOf(o))
      /\ Append(f, b) \in Seq(Activations)
  <2>1. /\ LeftOf(Append(f, b), pending) = LeftOf(f, pending)
        /\ \A o : Times(Append(f, b), HoldersOf(o))
                    = Times(f, HoldersOf(o)) + (IF IsHolder(b, o) THEN 1 ELSE 0)
        /\ Append(f, b) \in Seq(Activations)
    BY <1>1, <1>4, Holding
  <2>2. \A o : ~IsHolder(b, o)
    BY <1>4 DEF IsHolder
  <2> QED
    BY <1>6, <2>1, <2>2
<1>8. /\ LeftOf(Append(Append(f, b), d), pending) = LeftOf(f, pending)
      /\ \A o : Times(Append(Append(f, b), d), HoldersOf(o)) = Times(f, HoldersOf(o))
  <2> DEFINE g == Append(f, b)
  <2> HIDE DEF g
  <2>0. g \in Seq(Activations)
    BY <1>7 DEF g
  <2>1. /\ LeftOf(Append(g, d), pending) = LeftOf(g, pending)
        /\ \A o : Times(Append(g, d), HoldersOf(o))
                    = Times(g, HoldersOf(o)) + (IF IsHolder(d, o) THEN 1 ELSE 0)
        /\ \A o : Times(g, HoldersOf(o)) \in Nat
    BY <1>5, <2>0, Holding
  <2>2. \A o : ~IsHolder(d, o)
    BY <1>5 DEF IsHolder
  <2>3. \A o : Times(Append(g, d), HoldersOf(o)) = Times(g, HoldersOf(o))
    BY <2>1, <2>2
  <2> QED
    BY <1>7, <2>1, <2>3 DEF g
<1>9. /\ strongOf \in [Objects -> Int] /\ strongOf' \in [Objects -> Int]
      /\ \A o \in Objects : /\ strongOf[o] \in Int
                            /\ strongOf'[o] = IF o = a.obj THEN strongOf[o] - 1 ELSE strongOf[o]
  BY <1>2, <1>3 DEF RefsInv
<1>10. ASSUME NEW o \in Objects
       PROVE  Holds(o)' \in Nat /\ strongOf'[o] + Holds(o) = strongOf[o] + Holds(o)'
  <2>1. Holds(o) = Holds(o)' + (IF IsHolder(a, o) THEN 1 ELSE 0) /\ Holds(o)' \in Nat
    BY <1>2, <1>6, <1>7, <1>8 DEF Holds
  <2>2. IsHolder(a, o) <=> o = a.obj
    BY <1>1 DEF IsHolder
  <2> QED
    BY <1>9, <2>1, <2>2
<1>11. LeftOf(stack', pending') = LeftOf(stack, pending)
  BY <1>2, <1>6, <1>7, <1>8
<1> QED
  BY <1>2, <1>9, <1>10, <1>11, HeldAlone

(* A reply carries no object, and waits for none.                          *)
LEMMA SendReplyRefs ==
  ASSUME CallsInv, RefsInv, Loop!SendReply
  PROVE  RefsInv'
<1> DEFINE a == Upper(stack)
           f == Loop!Front(stack)
<1>1. PICK b, w \in Activations :
        /\ stack' = Append(Append(f, b), w)
        /\ b.kind = "replied" /\ w.kind = "wait" /\ w.obj = Nobody
        /\ a.kind = "served" /\ mOut' = <<Written("reply", Nobody, FALSE)>>
  BY SendReplyInPhase
<1>2. /\ stack = Append(f, a) /\ f \in Seq(Activations) /\ a \in Activations
      /\ UNCHANGED <<mIn, todo, work, known, pending, strongOf>>
  <2>1. Loop!On({"served"})
    BY DEF Loop!SendReply
  <2> QED
    BY <2>1, OnTop, Inner DEF Loop!SendReply, Loop!driver
<1> DEFINE g == Append(f, b)
<1> HIDE DEF a, f, g
<1>3. /\ LeftOf(stack, pending) = LeftOf(f, pending)
      /\ \A o : Times(stack, HoldersOf(o))
                  = Times(f, HoldersOf(o)) + (IF IsHolder(a, o) THEN 1 ELSE 0)
      /\ \A o : Times(f, HoldersOf(o)) \in Nat
  BY <1>1, <1>2, Holding
<1>4. /\ LeftOf(g, pending) = LeftOf(f, pending) /\ g \in Seq(Activations)
      /\ \A o : Times(g, HoldersOf(o))
                  = Times(f, HoldersOf(o)) + (IF IsHolder(b, o) THEN 1 ELSE 0)
  BY <1>1, <1>2, Holding DEF g
<1>5. /\ LeftOf(stack', pending) = LeftOf(g, pending)
      /\ \A o : Times(stack', HoldersOf(o))
                  = Times(g, HoldersOf(o)) + (IF IsHolder(w, o) THEN 1 ELSE 0)
  BY <1>1, <1>4, Holding DEF g
<1>6. strongOf \in [Objects -> Int] /\ \A o \in Objects : strongOf[o] \in Int
  BY DEF RefsInv
<1>7. Nobody \notin Objects
  BY CallsTyped
<1>8. ASSUME NEW o \in Objects
      PROVE  Holds(o)' \in Nat /\ strongOf'[o] + Holds(o) = strongOf[o] + Holds(o)'
  <2>1. ~IsHolder(a, o) /\ ~IsHolder(b, o) /\ ~IsHolder(w, o)
    BY <1>1, <1>7 DEF IsHolder
  <2>2. Holds(o)' = Holds(o) /\ Holds(o)' \in Nat
    BY <1>3, <1>4, <1>5, <2>1 DEF Holds
  <2> QED
    BY <1>2, <1>6, <2>2
<1>9. mOut' # << >> /\ Head(mOut').obj = Nobody
  <2>1. Head(mOut') = Written("reply", Nobody, FALSE)
    BY <1>1
  <2> QED
    BY <1>1, <2>1 DEF Written, Loop!Command
<1> QED
  BY <1>2, <1>3, <1>4, <1>5, <1>6, <1>7, <1>8, <1>9, HeldAlone

LEMMA BeginDerefsRefs ==
  ASSUME CallsInv, RefsInv, Loop!BeginDerefs
  PROVE  RefsInv'
<1> DEFINE d == Loop!Activation("derefs", Nobody, Nobody, FALSE, 1)
<1>1. /\ stack = << >> /\ stack' = Append(stack, d)
      /\ UNCHANGED <<mIn, mOut, todo, work, known, pending, strongOf>>
  BY DEF Loop!BeginDerefs, Loop!Push, Loop!driver
<1>2. d \in Activations /\ d.kind = "derefs" /\ d.n = 1
  <2>1. caller \in Identities
    BY CallsTyped
  <2> QED
    BY <2>1 DEF Loop!Activation, Activations, Kinds
<1>3. stack \in Seq(Activations) /\ pending \in Seq(Objects)
  BY CallsTyped
<1> HIDE DEF d
<1>4. /\ stack' # << >> /\ stack'[1] = d
  BY <1>1, <1>2, <1>3, Grows
<1>5. LeftOf(stack', pending') = LeftOf(stack, pending)
  <2>1. SubSeq(pending, 1, Len(pending)) = pending
    BY <1>3, SubSeqFull
  <2> QED
    BY <1>1, <1>2, <1>4, <2>1 DEF LeftOf
<1>6. \A o \in Objects : Times(Append(stack, d), HoldersOf(o)) = Times(stack, HoldersOf(o))
  <2>1. \A o : Times(Append(stack, d), HoldersOf(o))
                 = Times(stack, HoldersOf(o)) + (IF d \in HoldersOf(o) THEN 1 ELSE 0)
    BY <1>2, <1>3, TimesAppend
  <2>2. \A o : d \notin HoldersOf(o) /\ Times(stack, HoldersOf(o)) \in Nat
    BY <1>2, <1>3, TimesIsNat DEF HoldersOf, IsHolder
  <2> QED
    BY <2>1, <2>2
<1>7. strongOf \in [Objects -> Int] /\ \A o \in Objects : strongOf[o] \in Int /\ Holds(o) \in Nat
  BY RefsTyped DEF RefsInv
<1>8. \A o \in Objects : Holds(o)' \in Nat /\ strongOf'[o] + Holds(o) = strongOf[o] + Holds(o)'
  <2> SUFFICES ASSUME NEW o \in Objects
               PROVE  Holds(o)' \in Nat /\ strongOf'[o] + Holds(o) = strongOf[o] + Holds(o)'
    OBVIOUS
  <2>1. Holds(o)' = Holds(o)
    BY <1>1, <1>6 DEF Holds
  <2> QED
    BY <1>1, <1>7, <2>1
<1> QED
  BY <1>1, <1>5, <1>7, <1>8, HeldAlone

(* The loop of derefs is alone at the bottom, as long as it drops          *)
(* references itself.                                                      *)
LEMMA AtDerefs ==
  ASSUME CallsInv, stack # << >>, Upper(stack).kind = "derefs"
  PROVE  /\ stack = Append(<< >>, Upper(stack)) /\ Upper(stack) \in Activations
         /\ Loop!Front(stack) = << >> /\ Loop!Top = Upper(stack)
         /\ Upper(stack).n \in Nat /\ Upper(stack).n > 0 /\ Upper(stack).n <= Len(pending) + 1
         /\ LeftOf(stack, pending) = SubSeq(pending, Upper(stack).n, Len(pending))
<1> DEFINE a == Upper(stack)
<1>1. /\ Loop!Front(stack) = << >> /\ stack = Append(Loop!Front(stack), a) /\ a \in Activations
      /\ Loop!Top = a /\ Placed(a, Len(stack), Len(pending))
      /\ stack[1] = IF Loop!Front(stack) = << >> THEN a ELSE Loop!Front(stack)[1]
  BY LoopIsBelow, Inner
<1>2. a.n \in Nat /\ a.n > 0 /\ a.n <= Len(pending) + 1
  BY <1>1 DEF Activations, Placed
<1>3. stack[1] = a
  BY <1>1
<1> QED
  BY <1>1, <1>2, <1>3 DEF LeftOf

(* The derefs that are left, and those after the next.                     *)
LEMMA NextOfLeft ==
  ASSUME NEW p \in Seq(Objects), NEW n \in 1 .. Len(p), NEW o
  PROVE  /\ Times(SubSeq(p, n, Len(p)), {o})
              = Times(SubSeq(p, n + 1, Len(p)), {o}) + (IF p[n] = o THEN 1 ELSE 0)
         /\ Times(SubSeq(p, n + 1, Len(p)), {o}) \in Nat
<1>1. Len(p) \in Nat /\ n \in Nat /\ n - 1 \in 0 .. Len(p) /\ n \in 0 .. Len(p)
      /\ (n - 1) + 1 = n
  OBVIOUS
<1>2. /\ SubSeq(p, 1, n - 1) \in Seq(Objects)
      /\ Times(p, {o}) = Times(SubSeq(p, 1, n - 1), {o}) + Times(SubSeq(p, (n - 1) + 1, Len(p)), {o})
      /\ SubSeq(p, (n - 1) + 1, Len(p)) \in Seq(Objects)
  BY <1>1, TimesSplit
<1>3. /\ SubSeq(p, n + 1, Len(p)) \in Seq(Objects)
      /\ Times(p, {o}) = Times(SubSeq(p, 1, n), {o}) + Times(SubSeq(p, n + 1, Len(p)), {o})
  BY <1>1, TimesSplit
<1>4. SubSeq(p, 1, n) = Append(SubSeq(p, 1, n - 1), p[n])
  <2> DEFINE f == SubSeq(p, 1, n - 1)
             g == SubSeq(p, 1, n)
             h == Append(f, p[n])
  <2>1. f \in Seq(Objects) /\ Len(f) = n - 1 /\ \A i \in 1 .. n - 1 : f[i] = p[i]
    <3>1. \A i \in 1 .. n - 1 : p[i] \in Objects
      OBVIOUS
    <3>2. n - 1 \in Nat /\ n - 1 <= Len(p)
      BY <1>1
    <3> QED
      BY <3>1, <3>2, SubSeqProperties
  <2>2. g \in Seq(Objects) /\ Len(g) = n /\ \A i \in 1 .. n : g[i] = p[i]
    <3>1. \A i \in 1 .. n : p[i] \in Objects
      OBVIOUS
    <3> QED
      BY <1>1, <3>1, SubSeqProperties
  <2> HIDE DEF f, g
  <2>3. /\ h \in Seq(Objects) /\ Len(h) = Len(f) + 1 /\ h[Len(f) + 1] = p[n]
        /\ \A i \in 1 .. Len(f) : h[i] = f[i]
    BY <2>1, AppendProperties
  <2> HIDE DEF h
  <2>4. \A i \in 1 .. Len(g) : g[i] = h[i]
    <3> SUFFICES ASSUME NEW i \in 1 .. n PROVE g[i] = h[i]
      BY <2>2
    <3>1. CASE i = n
      BY <1>1, <2>1, <2>2, <2>3, <3>1
    <3>2. CASE i \in 1 .. n - 1
      BY <1>1, <2>1, <2>2, <2>3, <3>2
    <3> QED
      BY <1>1, <3>1, <3>2
  <2>5. Len(g) = Len(h)
    BY <1>1, <2>1, <2>2, <2>3
  <2>6. g = h
    BY <2>2, <2>3, <2>4, <2>5, SeqEqual
  <2> QED
    BY <2>6 DEF f, g, h
<1>5. Times(SubSeq(p, 1, n), {o}) = Times(SubSeq(p, 1, n - 1), {o}) + (IF p[n] \in {o} THEN 1 ELSE 0)
  <2> DEFINE f == SubSeq(p, 1, n - 1)
             x == p[n]
  <2>1. x \in Objects /\ f \in Seq(Objects)
    BY <1>2
  <2> HIDE DEF f, x
  <2>2. Times(Append(f, x), {o}) = Times(f, {o}) + (IF x \in {o} THEN 1 ELSE 0)
    BY <2>1, TimesAppend
  <2> QED
    BY <1>4, <2>2 DEF f, x
<1>6. /\ Times(SubSeq(p, 1, n - 1), {o}) \in Nat /\ Times(SubSeq(p, n + 1, Len(p)), {o}) \in Nat
      /\ Times(SubSeq(p, n, Len(p)), {o}) \in Nat
  BY <1>1, <1>2, <1>3, TimesIsNat
<1> DEFINE A == Times(SubSeq(p, 1, n - 1), {o})
           B == Times(SubSeq(p, n + 1, Len(p)), {o})
           C == Times(SubSeq(p, n, Len(p)), {o})
           D == Times(SubSeq(p, 1, n), {o})
           T == Times(p, {o})
           d == IF p[n] = o THEN 1 ELSE 0
<1>7. T = A + C /\ T = D + B /\ D = A + d /\ A \in Nat /\ B \in Nat /\ C \in Nat /\ d \in Nat
  BY <1>1, <1>2, <1>3, <1>5, <1>6
<1> HIDE DEF A, B, C, D, T, d
<1>8. C = B + d /\ B \in Nat
  BY <1>7
<1> QED
  BY <1>8 DEF B, C, d

LEMMA NextDeref ==
  ASSUME NEW a \in Activations, a.kind = "derefs"
  PROVE  /\ [a EXCEPT !.n = @ + 1] \in Activations
         /\ [a EXCEPT !.n = @ + 1].kind = "derefs" /\ [a EXCEPT !.n = @ + 1].n = a.n + 1
  BY DEF Activations

(* One reference that was put off is dropped.                              *)
LEMMA DerefRefs ==
  ASSUME CallsInv, RefsInv, Loop!Deref
  PROVE  RefsInv'
<1> DEFINE a == Upper(stack)
           b == [a EXCEPT !.n = @ + 1]
           p == pending[a.n]
           d == Loop!Activation("destroy", p, Nobody, FALSE, 0)
<1>1. /\ stack # << >> /\ a.kind = "derefs"
  <2>1. Loop!On({"derefs"})
    BY DEF Loop!Deref
  <2> QED
    BY <2>1, OnTop
<1>2. /\ stack = Append(<< >>, a) /\ a \in Activations
      /\ Loop!Front(stack) = << >> /\ Loop!Top = a
      /\ a.n \in Nat /\ a.n > 0
      /\ LeftOf(stack, pending) = SubSeq(pending, a.n, Len(pending))
  BY <1>1, AtDerefs
<1>3. /\ strongOf' = [strongOf EXCEPT ![p] = @ - 1] /\ a.n <= Len(pending)
      /\ stack' = Append(<< >>, b) \/ stack' = Append(Append(<< >>, b), d)
      /\ UNCHANGED <<mIn, mOut, todo, work, known, pending>>
  BY <1>2 DEF Loop!Deref, Loop!driver
<1>4. pending \in Seq(Objects) /\ a.n \in 1 .. Len(pending) /\ p \in Objects
  <2>1. pending \in Seq(Objects) /\ Len(pending) \in Nat
    BY CallsTyped
  <2> QED
    BY <1>2, <1>3, <2>1
<1>5. b \in Activations /\ b.kind = "derefs" /\ b.n = a.n + 1
  BY <1>1, <1>2, NextDeref
<1>6. d \in Activations /\ d.kind = "destroy"
  <2>1. caller \in Identities
    BY CallsTyped
  <2> QED
    BY <1>4, <2>1 DEF Loop!Activation, Activations, Kinds
<1> HIDE DEF a, b, d, p
<1>7. << >> \in Seq(Activations) /\ \A o : Times(<< >>, HoldersOf(o)) = 0
  BY TimesEmpty
<1>8. /\ Append(<< >>, b) \in Seq(Activations)
      /\ LeftOf(Append(<< >>, b), pending) = SubSeq(pending, a.n + 1, Len(pending))
      /\ \A o : Times(Append(<< >>, b), HoldersOf(o)) = 0
  <2>1. /\ Append(<< >>, b) \in Seq(Activations) /\ Append(<< >>, b) # << >>
        /\ Append(<< >>, b)[1] = b
    BY <1>5, <1>7, Grows
  <2>2. \A o : Times(Append(<< >>, b), HoldersOf(o))
                 = Times(<< >>, HoldersOf(o)) + (IF b \in HoldersOf(o) THEN 1 ELSE 0)
    BY <1>5, <1>7, TimesAppend
  <2>3. \A o : b \notin HoldersOf(o)
    BY <1>5 DEF HoldersOf, IsHolder
  <2>4. \A o : Times(Append(<< >>, b), HoldersOf(o)) = 0
    BY <1>7, <2>2, <2>3
  <2> HIDE DEF b
  <2> DEFINE g == Append(<< >>, b)
  <2>5. g # << >> /\ g[1] = b
    BY <2>1
  <2> HIDE DEF g
  <2>6. LeftOf(g, pending) = SubSeq(pending, a.n + 1, Len(pending))
    BY <1>5, <2>5 DEF LeftOf
  <2> QED
    BY <2>1, <2>4, <2>6 DEF g
<1>9. /\ LeftOf(Append(Append(<< >>, b), d), pending) = SubSeq(pending, a.n + 1, Len(pending))
      /\ \A o : Times(Append(Append(<< >>, b), d), HoldersOf(o)) = 0
  <2> DEFINE g == Append(<< >>, b)
  <2>0. g \in Seq(Activations)
    BY <1>8
  <2> HIDE DEF g
  <2>1. /\ LeftOf(Append(g, d), pending) = LeftOf(g, pending)
        /\ \A o : Times(Append(g, d), HoldersOf(o))
                    = Times(g, HoldersOf(o)) + (IF IsHolder(d, o) THEN 1 ELSE 0)
    BY <1>6, <2>0, Holding
  <2>2. \A o : ~IsHolder(d, o)
    BY <1>6 DEF IsHolder
  <2> QED
    BY <1>8, <2>1, <2>2 DEF g
<1>10. \A o : Times(stack, HoldersOf(o)) = 0
  <2>1. \A o : Times(Append(<< >>, a), HoldersOf(o))
                 = Times(<< >>, HoldersOf(o)) + (IF a \in HoldersOf(o) THEN 1 ELSE 0)
    BY <1>2, <1>7, TimesAppend
  <2>2. \A o : a \notin HoldersOf(o)
    BY <1>1 DEF HoldersOf, IsHolder
  <2> QED
    BY <1>2, <1>7, <2>1, <2>2
<1>11. /\ strongOf \in [Objects -> Int] /\ strongOf' \in [Objects -> Int]
       /\ \A o \in Objects : /\ strongOf[o] \in Int
                             /\ strongOf'[o] = IF o = p THEN strongOf[o] - 1 ELSE strongOf[o]
  BY <1>3, <1>4 DEF RefsInv
<1>12. ASSUME NEW o \in Objects
       PROVE  /\ PutOff(o)' \in Nat /\ PutOff(o)' <= PutOff(o) /\ Holds(o)' \in Nat
              /\ strongOf'[o] + Holds(o) + PutOff(o) = strongOf[o] + Holds(o)' + PutOff(o)'
  <2>1. Holds(o) = 0 /\ Holds(o)' = 0
    BY <1>3, <1>8, <1>9, <1>10 DEF Holds
  <2>2. /\ PutOff(o) = Times(SubSeq(pending, a.n, Len(pending)), {o})
        /\ PutOff(o)' = Times(SubSeq(pending, a.n + 1, Len(pending)), {o})
    BY <1>2, <1>3, <1>8, <1>9 DEF PutOff
  <2>3. PutOff(o) = PutOff(o)' + (IF p = o THEN 1 ELSE 0) /\ PutOff(o)' \in Nat
    <3>1. pending \in Seq(Objects) /\ a.n \in 1 .. Len(pending)
      BY <1>4
    <3>2. /\ Times(SubSeq(pending, a.n, Len(pending)), {o})
               = Times(SubSeq(pending, a.n + 1, Len(pending)), {o}) + (IF pending[a.n] = o THEN 1 ELSE 0)
          /\ Times(SubSeq(pending, a.n + 1, Len(pending)), {o}) \in Nat
      <4> DEFINE n == a.n
      <4>1. n \in 1 .. Len(pending)
        BY <3>1
      <4> HIDE DEF n
      <4>2. /\ Times(SubSeq(pending, n, Len(pending)), {o})
                 = Times(SubSeq(pending, n + 1, Len(pending)), {o}) + (IF pending[n] = o THEN 1 ELSE 0)
            /\ Times(SubSeq(pending, n + 1, Len(pending)), {o}) \in Nat
        BY <3>1, <4>1, NextOfLeft
      <4> QED
        BY <4>2 DEF n
    <3> QED
      BY <2>2, <3>2 DEF p
  <2>4. strongOf'[o] = IF o = p THEN strongOf[o] - 1 ELSE strongOf[o]
    BY <1>11
  <2> DEFINE s == strongOf[o]
             t == strongOf'[o]
             P == PutOff(o)
             Q == PutOff(o)'
             H == Holds(o)
             G == Holds(o)'
             x == IF p = o THEN 1 ELSE 0
  <2>5. /\ s \in Int /\ t = s - x /\ P = Q + x /\ Q \in Nat /\ H = 0 /\ G = 0 /\ x \in Nat
    BY <1>11, <2>1, <2>3, <2>4
  <2> HIDE DEF s, t, P, Q, H, G, x
  <2>6. Q \in Nat /\ Q <= P /\ G \in Nat /\ t + H + P = s + G + Q
    BY <2>5
  <2> QED
    BY <2>6 DEF s, t, P, Q, H, G
<1> QED
  BY <1>3, <1>11, <1>12, MovedAlone

LEMMA EndDerefsRefs ==
  ASSUME CallsInv, RefsInv, Loop!EndDerefs
  PROVE  RefsInv'
<1> DEFINE a == Upper(stack)
<1>1. stack # << >> /\ a.kind = "derefs"
  <2>1. Loop!On({"derefs"})
    BY DEF Loop!EndDerefs
  <2> QED
    BY <2>1, OnTop
<1>2. /\ stack = Append(<< >>, a) /\ a \in Activations /\ Loop!Front(stack) = << >> /\ Loop!Top = a
      /\ a.n \in Nat /\ a.n <= Len(pending) + 1
      /\ LeftOf(stack, pending) = SubSeq(pending, a.n, Len(pending))
  BY <1>1, AtDerefs
<1>3. /\ a.n > Len(pending) /\ stack' = << >> /\ pending' = << >>
      /\ UNCHANGED <<mIn, mOut, todo, work, known, strongOf>>
  BY <1>2 DEF Loop!EndDerefs, Loop!driver, Loop!Pop
<1>4. pending \in Seq(Objects) /\ Len(pending) \in Nat
  BY CallsTyped
<1> HIDE DEF a
<1>5. LeftOf(stack', pending') = LeftOf(stack, pending)
  <2>1. SubSeq(pending, a.n, Len(pending)) = << >>
    BY <1>2, <1>3, <1>4, SubSeqEmpty
  <2> QED
    BY <1>2, <1>3, <2>1 DEF LeftOf
<1>6. \A o : Times(stack, HoldersOf(o)) = 0 /\ Times(<< >>, HoldersOf(o)) = 0
  <2>1. << >> \in Seq(Activations) /\ \A o : Times(<< >>, HoldersOf(o)) = 0
    BY TimesEmpty
  <2>2. \A o : Times(Append(<< >>, a), HoldersOf(o))
                 = Times(<< >>, HoldersOf(o)) + (IF a \in HoldersOf(o) THEN 1 ELSE 0)
    BY <1>2, <2>1, TimesAppend
  <2>3. \A o : a \notin HoldersOf(o)
    BY <1>1 DEF HoldersOf, IsHolder
  <2> QED
    BY <1>2, <2>1, <2>2, <2>3
<1>7. strongOf \in [Objects -> Int] /\ \A o \in Objects : strongOf[o] \in Int
  BY DEF RefsInv
<1>8. ASSUME NEW o \in Objects
      PROVE  Holds(o)' \in Nat /\ strongOf'[o] + Holds(o) = strongOf[o] + Holds(o)'
  <2>1. Holds(o) = 0 /\ Holds(o)' = 0
    BY <1>3, <1>6 DEF Holds
  <2> QED
    BY <1>3, <1>7, <2>1
<1> QED
  BY <1>3, <1>5, <1>7, <1>8, HeldAlone

(* A call carries a new object, to which nobody has a reference yet.       *)
LEMMA CallRefs ==
  ASSUME CallsInv, RefsInv, NEW o \in Objects \cup {Nobody}, NEW oneway \in BOOLEAN,
         Loop!Call(o, oneway)
  PROVE  RefsInv'
<1>1. /\ Busy /\ mOut' = <<Written("transaction", o, oneway)>>
      /\ \E a \in Activations : stack' = Append(stack, a) /\ a.kind = "wait" /\ a.obj = o
  BY CallInPhase
<1>2. PICK a \in Activations : stack' = Append(stack, a) /\ a.kind = "wait" /\ a.obj = o
  BY <1>1
<1>3. /\ o # Nobody => strongOf[o] = 0
      /\ strongOf' = [x \in Objects |-> IF x = o THEN 1 ELSE strongOf[x]]
      /\ UNCHANGED <<mIn, todo, work, known, pending>>
  BY DEF Loop!Call, Loop!driver
<1>4. stack \in Seq(Activations) /\ Nobody \notin Objects
  BY CallsTyped
<1>5. /\ strongOf \in [Objects -> Int] /\ strongOf' \in [Objects -> Int]
      /\ \A x \in Objects : strongOf[x] \in Int /\ strongOf'[x] = IF x = o THEN 1 ELSE strongOf[x]
  BY <1>3 DEF RefsInv
<1>6. /\ LeftOf(stack', pending') = LeftOf(stack, pending)
      /\ \A x : Times(stack', HoldersOf(x))
                  = Times(stack, HoldersOf(x)) + (IF IsHolder(a, x) THEN 1 ELSE 0)
  BY <1>2, <1>3, <1>4, Holding
<1>7. mOut' # << >> /\ Head(mOut').obj = o
  <2>1. mOut' # << >> /\ Head(mOut') = Written("transaction", o, oneway)
    BY <1>1
  <2> QED
    BY <2>1 DEF Written, Loop!Command
<1>8. ASSUME NEW x \in Objects
      PROVE  /\ strongOf'[x] + Acquiring(x)' = Owed(x)' + Holds(x)'
             /\ Owed(x)' <= 1
             /\ mOut' # << >> /\ Head(mOut').obj = x => Owed(x)' = 0
  <2>1. /\ Acquiring(x)' = Acquiring(x) /\ Owed(x)' = Owed(x)
        /\ Holds(x)' = Holds(x) + (IF x = o THEN 1 ELSE 0)
    <3>1. IsHolder(a, x) <=> x = o
      BY <1>2 DEF IsHolder
    <3>2. Acquiring(x)' = Acquiring(x) /\ Owed(x)' = Owed(x)
      BY <1>3, <1>6 DEF Acquiring, Coming, Owed, Known, Releasing, PutOff
    <3>3. Holds(x)' = Holds(x) + (IF IsHolder(a, x) THEN 1 ELSE 0)
      BY <1>6 DEF Holds
    <3> QED
      BY <3>1, <3>2, <3>3
  <2>2. Acquiring(x) = 0 /\ Owed(x) \in Nat /\ Holds(x) \in Nat
    BY <1>1, OneAcquire, RefsTyped
  <2>3. strongOf[x] + Acquiring(x) = Owed(x) + Holds(x) /\ Owed(x) <= 1
    BY DEF RefsInv
  <2>4. x = o => strongOf[x] = 0 /\ strongOf'[x] = 1
    BY <1>3, <1>4, <1>5
  <2>5. x = o => Owed(x) = 0 /\ Holds(x) = 0
    BY <2>2, <2>3, <2>4
  <2>6. CASE x = o
    BY <2>1, <2>2, <2>4, <2>5, <2>6
  <2>7. CASE x # o
    <3>1. strongOf'[x] = strongOf[x] /\ strongOf[x] \in Int /\ Holds(x)' = Holds(x)
      BY <1>5, <2>1, <2>2, <2>7
    <3> QED
      BY <1>7, <2>1, <2>2, <2>3, <2>7, <3>1
  <2> QED
    BY <2>6, <2>7
<1> QED
  BY <1>5, <1>8 DEF RefsInv

(* What comes of a call acquires the object it carried.                    *)
LEMMA FirstAcquires ==
  ASSUME NEW x \in Objects \cup {Nobody}, NEW o \in Objects
  PROVE  Times(First(x), Of("acquire", o)) = IF x = o THEN 1 ELSE 0
<1> DEFINE acquire == Written("acquire", x, FALSE)
           complete == Loop!Complete
           one == <<acquire>>
           S == Of("acquire", o)
<1>1. Nobody \notin Objects
  BY LoopAssumption DEF Loop!IPCThreadStateAssumption
<1>2. complete \in Incoming /\ complete \notin S
  BY DEF Loop!Command, Loop!Complete, Incoming, Of
<1>3. x # Nobody => acquire \in Incoming /\ (acquire \in S <=> x = o)
  BY DEF Loop!Command, Written, Incoming, Of
<1>4. First(x) = IF x # Nobody THEN <<acquire, complete>> ELSE <<complete>>
  BY DEF First
<1> HIDE DEF acquire, complete, S
<1>5. Append(<< >>, complete) = <<complete>> /\ Append(<< >>, acquire) = one
  OBVIOUS
<1>6. Append(one, complete) = <<acquire, complete>>
  BY AppendOne
<1> HIDE DEF one
<1>7. << >> \in Seq(Incoming) /\ Times(<< >>, S) = 0
  BY TimesEmpty
<1>8. CASE x = Nobody
  <2>1. Times(Append(<< >>, complete), S) = Times(<< >>, S) + (IF complete \in S THEN 1 ELSE 0)
    BY <1>2, <1>7, TimesAppend
  <2>2. First(x) = Append(<< >>, complete)
    BY <1>4, <1>5, <1>8
  <2>3. Times(First(x), S) = 0
    BY <1>2, <1>7, <2>1, <2>2
  <2> QED
    BY <1>1, <1>8, <2>3 DEF S
<1>9. CASE x # Nobody
  <2>1. Times(one, S) = Times(<< >>, S) + (IF acquire \in S THEN 1 ELSE 0)
    <3>1. acquire \in Incoming
      BY <1>3, <1>9
    <3>2. Times(Append(<< >>, acquire), S) = Times(<< >>, S) + (IF acquire \in S THEN 1 ELSE 0)
      BY <1>7, <3>1, TimesAppend
    <3> QED
      BY <1>5, <3>2
  <2>2. one \in Seq(Incoming)
    BY <1>3, <1>9 DEF one
  <2>3. Times(Append(one, complete), S) = Times(one, S) + (IF complete \in S THEN 1 ELSE 0)
    BY <1>2, <2>2, TimesAppend
  <2>4. First(x) = Append(one, complete)
    BY <1>4, <1>6, <1>9
  <2>5. Times(First(x), S) = IF x = o THEN 1 ELSE 0
    BY <1>2, <1>3, <1>7, <1>9, <2>1, <2>3, <2>4
  <2> QED
    BY <2>5 DEF S
<1> QED
  BY <1>8, <1>9

(* The driver is given a reference with a call that carries an object.     *)
LEMMA WriteRefs ==
  ASSUME CallsInv, RefsInv, Loop!WriteCommand
  PROVE  RefsInv'
<1>1. /\ mOut' = << >> /\ mIn = << >> /\ todo = << >> /\ mIn' = mIn
      /\ UNCHANGED <<stack, pending, strongOf, work>>
      /\ \/ /\ mOut = <<Written("reply", Nobody, FALSE)>>
            /\ UNCHANGED known /\ todo' = First(Nobody)
         \/ /\ Calling /\ Upper(stack) \in Activations
            /\ known' = IF Upper(stack).obj # Nobody THEN known \cup {Upper(stack).obj} ELSE known
            /\ todo' = First(Upper(stack).obj)
  BY WriteInPhase
<1>2. Nobody \notin Objects
  BY CallsTyped
<1>3. PICK x \in Objects \cup {Nobody} :
        /\ todo' = First(x)
        /\ known' = IF x # Nobody THEN known \cup {x} ELSE known
        /\ x # Nobody => mOut # << >> /\ Head(mOut).obj = x
  <2>1. CASE mOut = <<Written("reply", Nobody, FALSE)>> /\ UNCHANGED known /\ todo' = First(Nobody)
    <3>1. Nobody \in Objects \cup {Nobody}
      OBVIOUS
    <3> QED
      BY <2>1, <3>1
  <2>2. CASE /\ Calling /\ Upper(stack) \in Activations
             /\ known' = IF Upper(stack).obj # Nobody THEN known \cup {Upper(stack).obj} ELSE known
             /\ todo' = First(Upper(stack).obj)
    <3>1. Upper(stack).obj \in Objects \cup {Nobody}
      BY <2>2 DEF Activations
    <3>2. mOut # << >> /\ Head(mOut) = Written("transaction", Upper(stack).obj, Upper(stack).oneway)
      BY <2>2 DEF Calling
    <3>3. Head(mOut).obj = Upper(stack).obj
      BY <3>2 DEF Written, Loop!Command
    <3> QED
      BY <2>2, <3>1, <3>2, <3>3
  <2> QED
    BY <1>1, <2>1, <2>2
<1>4. Coming = << >> /\ Coming' = First(x)
  <2>1. First(x) \in Seq(Answers)
    BY FirstAnswers
  <2>2. Coming' = << >> \o First(x)
    BY <1>1, <1>3 DEF Coming
  <2>3. Coming = << >>
    BY <1>1, CallsTyped
  <2> QED
    BY <2>1, <2>2, <2>3, ConcatEmptySeq
<1>5. ASSUME NEW o \in Objects
      PROVE  /\ strongOf'[o] + Acquiring(o)' = Owed(o)' + Holds(o)'
             /\ Owed(o)' <= 1
  <2>1. Acquiring(o) = 0 /\ Acquiring(o)' = IF x = o THEN 1 ELSE 0
    BY <1>4, TimesEmpty, FirstAcquires DEF Acquiring
  <2>2. Holds(o)' = Holds(o) /\ PutOff(o)' = PutOff(o) /\ Releasing(o)' = Releasing(o)
    BY <1>1 DEF Holds, PutOff, Releasing
  <2>3. x = o => Owed(o) = 0
    BY <1>2, <1>3 DEF RefsInv
  <2>4. /\ Known(o) \in {0, 1} /\ Releasing(o) \in Nat /\ PutOff(o) \in Nat
        /\ Holds(o) \in Nat /\ Owed(o) \in Nat
    BY RefsTyped
  <2>5. /\ Owed(o) = Known(o) + Releasing(o) + PutOff(o)
        /\ Owed(o)' = Known(o)' + Releasing(o) + PutOff(o)
    BY <2>2 DEF Owed
  <2>6. /\ strongOf'[o] = strongOf[o] /\ strongOf[o] \in Int
        /\ strongOf[o] + Acquiring(o) = Owed(o) + Holds(o) /\ Owed(o) <= 1
    BY <1>1 DEF RefsInv
  <2>7. Known(o)' = IF x = o THEN 1 ELSE Known(o)
    BY <1>2, <1>3 DEF Known
  <2>8. CASE x = o
    <3>1. Owed(o)' = 1
      <4>1. Known(o) = 0 /\ Releasing(o) = 0 /\ PutOff(o) = 0
        BY <2>3, <2>4, <2>5, <2>8
      <4> QED
        BY <2>5, <2>7, <2>8, <4>1
    <3> QED
      BY <2>1, <2>2, <2>3, <2>4, <2>6, <2>8, <3>1
  <2>9. CASE x # o
    <3>1. Owed(o)' = Owed(o) /\ Acquiring(o)' = Acquiring(o)
      BY <2>1, <2>5, <2>7, <2>9
    <3> QED
      BY <2>2, <2>6, <3>1
  <2> QED
    BY <2>8, <2>9
<1>6. strongOf' \in [Objects -> Int]
  BY <1>1 DEF RefsInv
<1> QED
  BY <1>1, <1>5, <1>6 DEF RefsInv

(* What the thread is handed is what came, or the process's work.          *)
LEMMA ReadRefs ==
  ASSUME CallsInv, RefsInv, Loop!ReadCommands
  PROVE  RefsInv'
<1>1. /\ mIn = << >> /\ mOut' = << >>
      /\ UNCHANGED <<stack, pending, strongOf, known>>
      /\ \/ Coming' = Coming /\ mIn' = Coming /\ work' = work /\ Coming \in Seq(Answers)
         \/ /\ todo = << >> /\ todo' = << >> /\ stack = << >>
            /\ \E n \in 0 .. Len(work) :
                 mIn' = SubSeq(work, 1, n) /\ work' = SubSeq(work, n + 1, Len(work))
  BY ReadInPhase
<1>2. work \in Seq(Incoming) /\ WorkOK /\ Coming = todo /\ Coming \in Seq(Incoming)
  BY <1>1, CallsTyped
<1>3. ASSUME NEW o \in Objects
      PROVE  /\ Times(work, Of("release", o))' \in Nat /\ Times(mIn, Of("release", o))' \in Nat
             /\ Times(work, Of("release", o))' + Times(mIn, Of("release", o))'
                  = Times(work, Of("release", o)) + Times(mIn, Of("release", o))
             /\ Acquiring(o)' = Acquiring(o)
  <2> DEFINE R == Of("release", o)
             Q == Of("acquire", o)
  <2>1. Times(mIn, R) = 0 /\ Times(work, R) \in Nat
    BY <1>1, <1>2, TimesEmpty, TimesIsNat
  <2>2. CASE Coming' = Coming /\ mIn' = Coming /\ work' = work /\ Coming \in Seq(Answers)
    <3>1. \A i \in 1 .. Len(Coming) : Coming[i] \notin R
      <4>1. \A i \in 1 .. Len(Coming) : Coming[i] \in Answers
        BY <2>2
      <4> QED
        BY <4>1 DEF Answers, Of
    <3>2. Times(Coming, R) = 0
      BY <1>2, <3>1, TimesNone
    <3>3. Acquiring(o)' = Acquiring(o)
      BY <2>2 DEF Acquiring
    <3> HIDE DEF R
    <3>4. Times(mIn, R)' = 0 /\ Times(work, R)' = Times(work, R)
      BY <2>2, <3>2 DEF R
    <3> QED
      BY <2>1, <3>3, <3>4 DEF R
  <2>3. CASE /\ todo = << >> /\ todo' = << >> /\ stack = << >>
             /\ \E n \in 0 .. Len(work) :
                  mIn' = SubSeq(work, 1, n) /\ work' = SubSeq(work, n + 1, Len(work))
    <3>1. PICK n \in 0 .. Len(work) :
                  mIn' = SubSeq(work, 1, n) /\ work' = SubSeq(work, n + 1, Len(work))
      BY <2>3
    <3>2. /\ SubSeq(work, 1, n) \in Seq(Incoming) /\ SubSeq(work, n + 1, Len(work)) \in Seq(Incoming)
          /\ Times(work, R) = Times(SubSeq(work, 1, n), R) + Times(SubSeq(work, n + 1, Len(work)), R)
      BY <1>2, TimesSplit
    <3>3. Times(SubSeq(work, 1, n), R) \in Nat /\ Times(SubSeq(work, n + 1, Len(work)), R) \in Nat
      BY <3>2, TimesIsNat
    <3>4. /\ Times(mIn, R)' = Times(SubSeq(work, 1, n), R)
          /\ Times(work, R)' = Times(SubSeq(work, n + 1, Len(work)), R)
      BY <3>1
    <3>5. Coming = << >> /\ Coming' = mIn'
      <4>1. mIn' \in Seq(Incoming)
        BY <3>1, <3>2
      <4>2. Coming' = mIn' \o << >>
        BY <2>3 DEF Coming
      <4> QED
        BY <1>2, <2>3, <4>1, <4>2, ConcatEmptySeq
    <3>6. \A i \in 1 .. n : SubSeq(work, 1, n)[i] = work[i] /\ i \in 1 .. Len(work)
      <4>1. n \in Nat /\ n <= Len(work) /\ \A i \in 1 .. n : i \in 1 .. Len(work)
        BY <1>2
      <4> QED
        BY <1>2, <4>1, SubSeqProperties
    <3>7. Len(SubSeq(work, 1, n)) = n
      <4>1. n \in Nat /\ n <= Len(work) /\ \A i \in 1 .. n : i \in 1 .. Len(work)
        BY <1>2
      <4> QED
        BY <1>2, <4>1, SubSeqProperties
    <3>8. Times(SubSeq(work, 1, n), Q) = 0
      <4> DEFINE q == SubSeq(work, 1, n)
      <4>1. q \in Seq(Incoming) /\ \A i \in 1 .. Len(q) : q[i] \notin Q
        <5>1. \A i \in 1 .. n : work[i].cmd # "acquire"
          BY <1>2, <3>6 DEF WorkOK
        <5> QED
          BY <3>2, <3>6, <3>7, <5>1 DEF Of
      <4> HIDE DEF q, Q
      <4>2. Times(q, Q) = 0
        BY <4>1, TimesNone
      <4> QED
        BY <4>2 DEF q
    <3>9. Acquiring(o) = 0 /\ Acquiring(o)' = 0
      BY <3>1, <3>5, <3>8, TimesEmpty DEF Acquiring
    <3> HIDE DEF R
    <3>10. Times(mIn, R)' \in Nat /\ Times(work, R)' \in Nat
           /\ Times(work, R)' + Times(mIn, R)' = Times(work, R) + Times(mIn, R)
      BY <2>1, <3>2, <3>3, <3>4
    <3> QED
      BY <3>9, <3>10 DEF R
  <2> QED
    BY <1>1, <2>2, <2>3
<1>4. ASSUME NEW o \in Objects
      PROVE  /\ Owed(o)' \in Nat /\ Owed(o)' <= Owed(o)
             /\ Holds(o)' \in Nat /\ Acquiring(o)' \in Nat
             /\ strongOf'[o] + Acquiring(o)' + Owed(o) + Holds(o)
                  = strongOf[o] + Acquiring(o) + Owed(o)' + Holds(o)'
  <2>1. Releasing(o)' = Releasing(o)
    BY <1>3 DEF Releasing
  <2>2. /\ Owed(o)' = Owed(o) /\ Holds(o)' = Holds(o) /\ strongOf'[o] = strongOf[o]
        /\ Acquiring(o)' = Acquiring(o)
    BY <1>1, <1>3, <2>1 DEF Owed, Holds, Known, PutOff
  <2>3. /\ Owed(o) \in Nat /\ Holds(o) \in Nat /\ Acquiring(o) \in Nat /\ strongOf[o] \in Int
    BY RefsTyped DEF RefsInv
  <2> QED
    BY <2>2, <2>3
<1>5. strongOf' \in [Objects -> Int]
  BY <1>1 DEF RefsInv
<1> QED
  BY <1>1, <1>4, <1>5, Rebalanced

(* What other processes send acquires nothing; they release what they had. *)
LEMMA OthersRefs ==
  ASSUME CallsInv, RefsInv, Loop!Others
  PROVE  RefsInv'
<1>1. /\ UNCHANGED <<mIn, mOut, stack, pending, strongOf>>
      /\ \/ /\ UNCHANGED <<known, work>>
            /\ \E x \in Answers : /\ x.cmd \in {"transaction", "reply"}
                                  /\ Coming' = Append(Coming, x) /\ Coming \in Seq(Answers)
         \/ /\ UNCHANGED known /\ Coming' = Coming
            /\ \E x \in Incoming : x.cmd = "transaction" /\ work' = Append(work, x)
         \/ /\ Coming' = Coming
            /\ \E o \in Objects :
                 /\ Loop!DropReference(o) /\ known' = known \ {o} /\ o \in known
                 /\ Written("release", o, FALSE) \in Incoming
                 /\ work' = Append(work, Written("release", o, FALSE))
  BY OthersInPhase
<1>2. work \in Seq(Incoming) /\ Coming \in Seq(Incoming)
  BY CallsTyped
<1>3. ASSUME NEW o \in Objects
      PROVE  Owed(o)' = Owed(o) /\ Acquiring(o)' = Acquiring(o)
  <2> DEFINE R == Of("release", o)
             Q == Of("acquire", o)
  <2>1. /\ Known(o) \in {0, 1} /\ Times(work, R) \in Nat /\ Times(mIn, R) \in Nat
        /\ PutOff(o) \in Nat /\ Acquiring(o) \in Nat
    BY RefsTyped
  <2>2. /\ Owed(o) = Known(o) + (Times(work, R) + Times(mIn, R)) + PutOff(o)
        /\ Owed(o)' = Known(o)' + (Times(work, R)' + Times(mIn, R)) + PutOff(o)
    BY <1>1 DEF Owed, Releasing, PutOff
  <2>3. CASE /\ UNCHANGED <<known, work>>
             /\ \E x \in Answers : /\ x.cmd \in {"transaction", "reply"}
                                   /\ Coming' = Append(Coming, x) /\ Coming \in Seq(Answers)
    <3>1. PICK x \in Answers : x.cmd \in {"transaction", "reply"} /\ Coming' = Append(Coming, x)
      BY <2>3
    <3>2. x \in Incoming /\ x \notin Q
      BY <3>1 DEF Answers, Of
    <3>3. Times(Append(Coming, x), Q) = Times(Coming, Q) + (IF x \in Q THEN 1 ELSE 0)
      BY <1>2, <3>2, TimesAppend
    <3> HIDE DEF Q
    <3>4. Times(Coming, Q)' = Times(Coming, Q) + 0
      BY <3>1, <3>2, <3>3 DEF Q
    <3>5. Acquiring(o)' = Acquiring(o)
      BY <2>1, <3>4 DEF Acquiring, Q
    <3>6. Owed(o)' = Owed(o)
      BY <2>2, <2>3 DEF Known
    <3> QED
      BY <3>5, <3>6
  <2>4. CASE /\ UNCHANGED known /\ Coming' = Coming
             /\ \E x \in Incoming : x.cmd = "transaction" /\ work' = Append(work, x)
    <3>1. PICK x \in Incoming : x.cmd = "transaction" /\ work' = Append(work, x)
      BY <2>4
    <3>2. x \notin R
      BY <3>1 DEF Of
    <3>3. Times(Append(work, x), R) = Times(work, R) + (IF x \in R THEN 1 ELSE 0)
      BY <1>2, TimesAppend
    <3>4. Times(work, R)' = Times(work, R)
      <4> HIDE DEF R
      <4>1. Times(work, R)' = Times(work, R) + 0
        BY <3>1, <3>2, <3>3 DEF R
      <4> QED
        BY <2>1, <4>1
    <3>5. Acquiring(o)' = Acquiring(o) /\ Known(o)' = Known(o)
      BY <2>4 DEF Acquiring, Known
    <3> QED
      BY <2>2, <3>4, <3>5
  <2>5. CASE /\ Coming' = Coming
             /\ \E y \in Objects :
                  /\ Loop!DropReference(y) /\ known' = known \ {y} /\ y \in known
                  /\ Written("release", y, FALSE) \in Incoming
                  /\ work' = Append(work, Written("release", y, FALSE))
    <3>1. PICK y \in Objects :
                  /\ known' = known \ {y} /\ y \in known
                  /\ Written("release", y, FALSE) \in Incoming
                  /\ work' = Append(work, Written("release", y, FALSE))
      BY <2>5
    <3> DEFINE x == Written("release", y, FALSE)
    <3>2. x \in Incoming /\ (x \in R <=> y = o)
      BY <3>1 DEF Of, Written, Loop!Command
    <3> HIDE DEF x
    <3>3. Times(Append(work, x), R) = Times(work, R) + (IF x \in R THEN 1 ELSE 0)
      BY <1>2, <3>2, TimesAppend
    <3>4. Times(work, R)' = Times(work, R) + (IF y = o THEN 1 ELSE 0)
      <4>1. work' = Append(work, x)
        BY <3>1 DEF x
      <4> HIDE DEF R
      <4> QED
        BY <3>2, <3>3, <4>1 DEF R
    <3>5. Known(o)' + (IF y = o THEN 1 ELSE 0) = Known(o) /\ Known(o)' \in {0, 1}
      BY <3>1 DEF Known
    <3>6. Acquiring(o)' = Acquiring(o)
      BY <2>5 DEF Acquiring
    <3> HIDE DEF R
    <3>7. CASE y = o
      BY <2>1, <2>2, <3>4, <3>5, <3>6, <3>7 DEF R
    <3>8. CASE y # o
      BY <2>1, <2>2, <3>4, <3>5, <3>6, <3>8 DEF R
    <3> QED
      BY <3>7, <3>8
  <2> QED
    BY <1>1, <2>3, <2>4, <2>5
<1>4. ASSUME NEW o \in Objects
      PROVE  /\ Owed(o)' \in Nat /\ Owed(o)' <= Owed(o)
             /\ Holds(o)' \in Nat /\ Acquiring(o)' \in Nat
             /\ strongOf'[o] + Acquiring(o)' + Owed(o) + Holds(o)
                  = strongOf[o] + Acquiring(o) + Owed(o)' + Holds(o)'
  <2>1. /\ Owed(o)' = Owed(o) /\ Holds(o)' = Holds(o) /\ strongOf'[o] = strongOf[o]
        /\ Acquiring(o)' = Acquiring(o)
    BY <1>1, <1>3 DEF Holds
  <2>2. /\ Owed(o) \in Nat /\ Holds(o) \in Nat /\ Acquiring(o) \in Nat /\ strongOf[o] \in Int
    BY RefsTyped DEF RefsInv
  <2> QED
    BY <2>1, <2>2
<1>5. strongOf' \in [Objects -> Int]
  BY <1>1 DEF RefsInv
<1> QED
  BY <1>1, <1>4, <1>5, Rebalanced

LEMMA RefsBegin ==
  ASSUME Loop!Init
  PROVE  RefsInv
<1>1. /\ mIn = << >> /\ mOut = << >> /\ stack = << >> /\ pending = << >>
      /\ todo = << >> /\ work = << >>
      /\ strongOf = [o \in Objects |-> 1] /\ known = Objects
  BY DEF Loop!Init
<1>2. Coming = << >>
  BY <1>1 DEF Coming
<1>3. ASSUME NEW o \in Objects
      PROVE  strongOf[o] + Acquiring(o) = Owed(o) + Holds(o) /\ Owed(o) <= 1
  <2>1. Acquiring(o) = 0 /\ Releasing(o) = 0 + 0 /\ Holds(o) = 0
    BY <1>1, <1>2, TimesEmpty DEF Acquiring, Releasing, Holds
  <2>2. PutOff(o) = 0
    BY <1>1, TimesEmpty DEF PutOff, LeftOf
  <2>3. Owed(o) = 1
    BY <1>1, <2>1, <2>2 DEF Owed, Known
  <2> QED
    BY <1>1, <2>1, <2>3
<1> QED
  BY <1>1, <1>3 DEF RefsInv

LEMMA RefsKept ==
  ASSUME CallsInv, RefsInv, Loop!Next
  PROVE  RefsInv'
<1>1. CASE Loop!Thread
  <2>1. CASE \E o \in Objects \cup {Nobody}, oneway \in BOOLEAN : Loop!Call(o, oneway)
    BY <2>1, CallRefs
  <2>2. CASE Loop!GetAndExecuteCommand \/ Loop!WaitEnds \/ Loop!WaitExecutes
    BY <2>2, LoopExecutesRefs, WaitEndsRefs, WaitExecutesRefs
  <2>3. CASE Loop!ClearCallingIdentity \/ Loop!ServeReturns \/ Loop!SendReply \/ Loop!Transacted
    BY <2>3, ClearRefs, ServeReturnsRefs, SendReplyRefs, TransactedRefs
  <2>4. CASE Loop!BeginDerefs \/ Loop!Deref \/ Loop!EndDerefs \/ Loop!Destroyed
    BY <2>4, BeginDerefsRefs, DerefRefs, EndDerefsRefs, DestroyedRefs
  <2>5. CASE Loop!WriteCommand \/ Loop!ReadCommands
    BY <2>5, WriteRefs, ReadRefs
  <2> QED
    BY <1>1, <2>1, <2>2, <2>3, <2>4, <2>5 DEF Loop!Thread
<1> QED
  BY <1>1, OthersRefs DEF Loop!Next

LEMMA CountIs ==
  ASSUME NEW q \in Seq(Incoming), NEW c, NEW o
  PROVE  Loop!Count(q, c, o) = Times(q, Of(c, o))
<1>1. {i \in DOMAIN q : q[i].cmd = c /\ q[i].obj = o} = PlacesOf(q, Of(c, o))
  BY DEF PlacesOf, Of
<1> QED
  BY <1>1, SameCount DEF Loop!Count, Times

(* The loop of derefs is at the bottom.                                    *)
LEMMA LeftIs ==
  ASSUME CallsInv
  PROVE  Loop!ToDeref = LeftOf(stack, pending)
<1>1. stack \in Seq(Activations) /\ Stacked(stack, Len(pending)) /\ Len(stack) \in Nat
  BY CallsTyped
<1>2. ASSUME NEW i \in 1 .. Len(stack), stack[i].kind = "derefs" PROVE i = 1
  <2> SUFFICES ASSUME i # 1 PROVE FALSE
    OBVIOUS
  <2> DEFINE j == i - 1
  <2>1. j \in 1 .. Len(stack) - 1 /\ j + 1 = i
    BY <1>1
  <2> HIDE DEF j
  <2>2. Above(stack[j], stack[j + 1])
    BY <1>1, <2>1 DEF Stacked
  <2> QED
    BY <1>2, <2>1, <2>2 DEF Above
<1>3. stack # << >> <=> 1 \in 1 .. Len(stack)
  <2>1. stack = << >> <=> Len(stack) = 0
    BY <1>1, EmptyHasNoLength
  <2> QED
    BY <1>1, <2>1
<1>4. (\E i \in DOMAIN stack : stack[i].kind = "derefs") <=> stack # << >> /\ stack[1].kind = "derefs"
  <2>1. DOMAIN stack = 1 .. Len(stack)
    BY <1>1
  <2> QED
    BY <1>2, <1>3, <2>1
<1> QED
  BY <1>4 DEF Loop!ToDeref, LeftOf

LEMMA RefsPromise ==
  ASSUME CallsInv, RefsInv
  PROVE  Loop!ReferencesAreBalanced
<1> SUFFICES ASSUME NEW o \in Objects
             PROVE  strongOf[o] + Loop!Count(todo \o mIn, "acquire", o)
                      = Loop!Cardinality(known \intersect {o}) + Loop!Count(work \o mIn, "release", o)
                        + Loop!Cardinality({i \in DOMAIN Loop!ToDeref : Loop!ToDeref[i] = o})
                        + Loop!Cardinality({i \in Loop!Holding : stack[i].obj = o})
  BY DEF Loop!ReferencesAreBalanced
<1>1. /\ mIn \in Seq(Incoming) /\ todo \in Seq(Incoming) /\ work \in Seq(Incoming)
      /\ stack \in Seq(Activations)
  BY CallsTyped
<1>2. Loop!Count(todo \o mIn, "acquire", o) = Acquiring(o)
  <2> DEFINE q == todo \o mIn
             A == Of("acquire", o)
  <2>1. q \in Seq(Incoming)
    BY <1>1, ConcatProperties
  <2> HIDE DEF q, A
  <2>2. Loop!Count(q, "acquire", o) = Times(q, A)
    BY <2>1, CountIs DEF A
  <2>3. /\ Times(todo \o mIn, A) = Times(todo, A) + Times(mIn, A)
        /\ Times(mIn \o todo, A) = Times(mIn, A) + Times(todo, A)
        /\ Times(mIn, A) \in Nat /\ Times(todo, A) \in Nat
    BY <1>1, TimesConcat, TimesIsNat
  <2>4. Times(todo \o mIn, A) = Times(mIn \o todo, A)
    BY <2>3
  <2> QED
    BY <2>2, <2>4 DEF Acquiring, Coming, q, A
<1>3. Loop!Count(work \o mIn, "release", o) = Releasing(o)
  <2> DEFINE q == work \o mIn
             R == Of("release", o)
  <2>1. q \in Seq(Incoming)
    BY <1>1, ConcatProperties
  <2> HIDE DEF q, R
  <2>2. Loop!Count(q, "release", o) = Times(q, R)
    BY <2>1, CountIs DEF R
  <2>3. Times(work \o mIn, R) = Times(work, R) + Times(mIn, R)
    BY <1>1, TimesConcat
  <2> QED
    BY <2>2, <2>3 DEF Releasing, q, R
<1>4. Cardinality(known \intersect {o}) = Known(o)
  <2>1. CASE o \in known
    <3>1. known \intersect {o} = {o}
      BY <2>1
    <3> QED
      BY <2>1, <3>1, FS_Singleton DEF Known
  <2>2. CASE o \notin known
    <3>1. known \intersect {o} = {}
      BY <2>2
    <3> QED
      BY <2>2, <3>1, FS_EmptySet DEF Known
  <2> QED
    BY <2>1, <2>2
<1>5. Cardinality({i \in DOMAIN Loop!ToDeref : Loop!ToDeref[i] = o}) = PutOff(o)
  <2> DEFINE p == LeftOf(stack, pending)
  <2>1. Loop!ToDeref = p /\ p \in Seq(Objects)
    BY LeftIs, RefsTyped
  <2> HIDE DEF p
  <2>2. {i \in DOMAIN p : p[i] = o} = PlacesOf(p, {o})
    BY <2>1 DEF PlacesOf
  <2> QED
    BY <2>1, <2>2 DEF PutOff, Times, p
<1>6. Cardinality({i \in Loop!Holding : stack[i].obj = o}) = Holds(o)
  <2>1. {i \in Loop!Holding : stack[i].obj = o} = PlacesOf(stack, HoldersOf(o))
    BY <1>1 DEF Loop!Holding, PlacesOf, HoldersOf, IsHolder
  <2> QED
    BY <2>1 DEF Holds, Times
<1>7. strongOf[o] + Acquiring(o) = Owed(o) + Holds(o)
  BY DEF RefsInv
<1>8. Owed(o) = Known(o) + Releasing(o) + PutOff(o)
  BY DEF Owed
<1> QED
  BY <1>2, <1>3, <1>4, <1>5, <1>6, <1>7, <1>8, SameCount

(* How deep the stack gets: calls are made below its limit.                *)
LEMMA CallsAreLow ==
  ASSUME CallsInv, NEW i \in 1 .. Len(stack)
  PROVE  /\ IsOpen(stack[i]) /\ stack[i].kind = "wait" => i <= MaxStack
         /\ stack[i].kind = "wait" /\ stack[i].obj # Nobody => i <= MaxStack
         /\ stack[i].kind = "serve" => i <= MaxStack + 1
         /\ Waiting /\ IsOpen(stack[i]) => i <= MaxStack
<1>1. /\ stack \in Seq(Activations) /\ Len(stack) \in Nat /\ MaxStack \in Nat
      /\ \A j \in 1 .. Len(stack) : Placed(stack[j], j, Len(pending))
      /\ \A j \in 1 .. Len(stack) - 1 : Above(stack[j], stack[j + 1])
  BY CallsTyped, LoopAssumption DEF Stacked, Loop!IPCThreadStateAssumption
<1>2. ASSUME NEW j \in 1 .. Len(stack), stack[j].kind = "wait",
             ~stack[j].oneway \/ stack[j].obj # Nobody
      PROVE  j <= MaxStack
  BY <1>1, <1>2 DEF Placed
<1>3. ASSUME stack[i].kind = "serve" PROVE i <= MaxStack + 1
  <2>1. CASE i = 1
    BY <1>1, <2>1
  <2>2. CASE i # 1
    <3> DEFINE j == i - 1
    <3>1. j \in 1 .. Len(stack) - 1 /\ j + 1 = i /\ j \in 1 .. Len(stack)
      BY <1>1, <2>2
    <3> HIDE DEF j
    <3>2. Above(stack[j], stack[j + 1])
      BY <1>1, <3>1
    <3>3. stack[j].kind = "wait" /\ ~stack[j].oneway
      BY <1>3, <3>1, <3>2 DEF Above
    <3>4. j <= MaxStack
      BY <1>2, <3>1, <3>3
    <3> QED
      BY <1>1, <3>1, <3>4
  <2> QED
    BY <2>1, <2>2
<1>4. ASSUME Waiting, NEW j \in 1 .. Len(stack), stack[j].kind \in {"serve", "destroy"}
      PROVE  j + 1 <= MaxStack
  <2>1. /\ Open(stack) /\ Upper(stack) = stack[Len(stack)]
        /\ Upper(stack).kind \in {"wait", "replied"}
    BY <1>4 DEF Waiting, Open, Upper
  <2>2. j # Len(stack)
    BY <1>4, <2>1
  <2> DEFINE k == j + 1
  <2>3. j \in 1 .. Len(stack) - 1 /\ k \in 1 .. Len(stack) /\ k = j + 1
    BY <1>1, <2>2
  <2> HIDE DEF k
  <2>4. Above(stack[j], stack[k])
    BY <1>1, <2>3
  <2>5. stack[k].kind = "wait"
    BY <1>4, <2>4 DEF Above
  <2>6. ~stack[k].oneway
    <3>1. CASE k = Len(stack)
      <4>1. ~Answered(stack)
        <5>1. Len(stack) - 1 = j
          BY <1>1, <2>3, <3>1
        <5> QED
          BY <1>4, <5>1 DEF Answered
      <4> QED
        BY <2>1, <2>5, <3>1, <4>1 DEF Open
    <3>2. CASE k # Len(stack)
      <4>1. k \in 1 .. Len(stack) - 1
        BY <1>1, <2>3, <3>2
      <4>2. Above(stack[k], stack[k + 1])
        BY <1>1, <4>1
      <4> QED
        BY <2>5, <4>2 DEF Above
    <3> QED
      BY <3>1, <3>2
  <2>7. k <= MaxStack
    BY <1>2, <2>3, <2>5, <2>6
  <2> QED
    BY <2>3, <2>7
<1>5. ASSUME Waiting, IsOpen(stack[i]) PROVE i <= MaxStack
  <2>1. stack[i].kind \in {"serve", "served", "wait"} /\ ~stack[i].oneway
    BY <1>5 DEF IsOpen
  <2>2. CASE stack[i].kind = "wait"
    BY <1>2, <2>1, <2>2
  <2>3. CASE stack[i].kind = "serve"
    <3>1. i + 1 <= MaxStack
      BY <1>4, <1>5, <2>3
    <3> QED
      BY <1>1, <3>1
  <2>4. CASE stack[i].kind = "served"
    <3>1. i # Len(stack)
      BY <1>5, <2>4 DEF Waiting, Open, Upper
    <3> DEFINE k == i + 1
    <3>2. i \in 1 .. Len(stack) - 1 /\ k \in 1 .. Len(stack) /\ k = i + 1
      BY <1>1, <3>1
    <3> HIDE DEF k
    <3>3. Above(stack[i], stack[k])
      BY <1>1, <3>2
    <3>4. stack[k].kind = "destroy"
      BY <2>4, <3>3 DEF Above
    <3>5. k + 1 <= MaxStack
      BY <1>4, <1>5, <3>2, <3>4
    <3> QED
      BY <1>1, <3>2, <3>5
  <2> QED
    BY <2>1, <2>2, <2>3, <2>4
<1>6. IsOpen(stack[i]) /\ stack[i].kind = "wait" => i <= MaxStack
  BY <1>2 DEF IsOpen
<1>7. stack[i].kind = "wait" /\ stack[i].obj # Nobody => i <= MaxStack
  BY <1>2
<1> QED
  BY <1>3, <1>5, <1>6, <1>7

LEMMA SeqOf ==
  ASSUME NEW S, NEW T, NEW q \in Seq(S), \A i \in 1 .. Len(q) : q[i] \in T
  PROVE  q \in Seq(T)
OBVIOUS

LEMMA CommandsOf ==
  ASSUME NEW q \in Seq(Incoming),
         \A i \in 1 .. Len(q) : q[i].cmd = "reply" => q[i].depth <= MaxStack
  PROVE  q \in Seq(Loop!Commands)
<1>1. MaxStack \in Nat
  BY LoopAssumption DEF Loop!IPCThreadStateAssumption
<1>2. \A c \in Incoming : (c.cmd = "reply" => c.depth <= MaxStack) => c \in Loop!Commands
  BY <1>1 DEF Incoming, Loop!Commands
<1>3. \A i \in 1 .. Len(q) : q[i] \in Loop!Commands
  BY <1>2
<1> QED
  BY <1>3

LEMMA TypesPromise ==
  ASSUME CallsInv, RefsInv, known \subseteq Objects
  PROVE  Loop!TypeOK
<1>1. /\ mIn \in Seq(Incoming) /\ todo \in Seq(Incoming) /\ work \in Seq(Incoming)
      /\ mOut \in Seq(Outgoing) /\ pending \in Seq(Objects)
      /\ tstack \in Seq(Ways) /\ stack \in Seq(Activations) /\ caller \in Identities
      /\ WorkOK /\ Phased /\ Nobody \notin Objects /\ Coming \in Seq(Incoming)
  BY CallsTyped
<1>2. MaxStack \in Nat
  BY LoopAssumption DEF Loop!IPCThreadStateAssumption
<1>3. ASSUME NEW i \in 1 .. Len(Coming), Coming[i].cmd = "reply" PROVE Coming[i].depth <= MaxStack
  <2>1. todo = << >> => Coming = mIn
    BY CallsTyped
  <2>2. ~Idle
    BY <1>3, <2>1 DEF Idle
  <2>3. ~Busy /\ ~Calling /\ ~Replying
    <3>1. Coming # << >>
      BY <1>1, <1>3, EmptySeq
    <3>2. todo = << >> /\ mIn = << >> => Coming = << >>
      BY <2>1
    <3> QED
      BY <3>1, <3>2 DEF Busy, Calling, Replying
  <2>4. ~Sent
    BY <1>3 DEF Sent, Has
  <2>5. Waiting
    BY <1>1, <2>2, <2>3, <2>4 DEF Phased
  <2>6. Coming[i].depth = OpenCount(stack)
    BY <1>3, <2>5 DEF Waiting
  <2>7. \A j \in 1 .. Len(stack) : stack[j] \in Opens => j <= MaxStack
    BY <2>5, CallsAreLow DEF Opens
  <2>8. OpenCount(stack) <= MaxStack
    BY <1>1, <1>2, <2>7, TimesBound DEF OpenCount
  <2> QED
    BY <2>6, <2>8
<1>4. mIn \in Seq(Loop!Commands) /\ todo \in Seq(Loop!Commands)
  <2>1. /\ Len(mIn) \in Nat /\ Len(todo) \in Nat /\ Len(Coming) = Len(mIn) + Len(todo)
        /\ \A i \in 1 .. Len(mIn) + Len(todo) :
             Coming[i] = IF i <= Len(mIn) THEN mIn[i] ELSE todo[i - Len(mIn)]
    BY <1>1, ConcatProperties DEF Coming
  <2>2. ASSUME NEW i \in 1 .. Len(mIn), mIn[i].cmd = "reply" PROVE mIn[i].depth <= MaxStack
    <3>1. i \in 1 .. Len(Coming) /\ Coming[i] = mIn[i]
      BY <2>1
    <3> QED
      BY <1>3, <2>2, <3>1
  <2>3. ASSUME NEW i \in 1 .. Len(todo), todo[i].cmd = "reply" PROVE todo[i].depth <= MaxStack
    <3> DEFINE j == Len(mIn) + i
    <3>1. j \in 1 .. Len(mIn) + Len(todo) /\ j > Len(mIn) /\ j - Len(mIn) = i
      BY <2>1
    <3> HIDE DEF j
    <3>2. j \in 1 .. Len(Coming) /\ Coming[j] = todo[i]
      BY <2>1, <3>1
    <3> QED
      BY <1>3, <2>3, <3>2
  <2> QED
    BY <1>1, <2>2, <2>3, CommandsOf
<1>5. work \in Seq(Loop!Commands)
  BY <1>1, CommandsOf DEF WorkOK
<1>6. mOut \in Seq(Loop!Commands)
  <2>1. \A c \in Outgoing : c \in Loop!Commands
    BY <1>2 DEF Outgoing, Loop!Commands
  <2>2. \A i \in 1 .. Len(mOut) : mOut[i] \in Loop!Commands
    BY <1>1, <2>1
  <2> QED
    BY <1>1, <2>2, SeqOf
<1>7. stack \in Seq([kind : Kinds, obj : Objects \cup {Nobody}, orig : Identities,
                     from : Callers \cup {Nobody}, oneway : BOOLEAN, n : Nat])
  <2> DEFINE A == [kind : Kinds, obj : Objects \cup {Nobody}, orig : Identities,
                   from : Callers \cup {Nobody}, oneway : BOOLEAN, n : Nat]
  <2>1. \A i \in 1 .. Len(stack) : stack[i] \in A
    BY <1>1 DEF Activations
  <2> HIDE DEF A
  <2>2. stack \in Seq(A)
    BY <1>1, <2>1, SeqOf
  <2> QED
    BY <2>2 DEF A
<1>8. strongOf \in [Objects -> 0 .. MaxStack + 2]
  <2>1. strongOf \in [Objects -> Int]
    BY DEF RefsInv
  <2>2. ASSUME NEW o \in Objects PROVE strongOf[o] \in 0 .. MaxStack + 2
    <3>1. strongOf[o] \in Nat /\ strongOf[o] + Acquiring(o) = Owed(o) + Holds(o)
      BY StrongIsNat
    <3>2. Acquiring(o) \in Nat /\ Owed(o) \in Nat /\ Holds(o) \in Nat /\ Owed(o) <= 1
      BY RefsTyped DEF RefsInv
    <3>3. \A j \in 1 .. Len(stack) : stack[j] \in HoldersOf(o) => j <= MaxStack + 1
      <4> SUFFICES ASSUME NEW j \in 1 .. Len(stack), stack[j] \in HoldersOf(o) PROVE j <= MaxStack + 1
        OBVIOUS
      <4>1. stack[j].kind \in {"serve", "wait"} /\ stack[j].obj # Nobody
        BY <1>1 DEF HoldersOf, IsHolder
      <4>2. j <= MaxStack \/ j <= MaxStack + 1
        BY <4>1, CallsAreLow
      <4> QED
        BY <1>1, <1>2, <4>2
    <3>4. Holds(o) <= MaxStack + 1
      <4>1. MaxStack + 1 \in Nat
        BY <1>2
      <4> QED
        BY <1>1, <3>3, <4>1, TimesBound DEF Holds
    <3> QED
      BY <1>2, <3>1, <3>2, <3>4
  <2> QED
    BY <2>1, <2>2
<1> QED
  BY <1>1, <1>4, <1>5, <1>6, <1>7, <1>8 DEF Loop!TypeOK, Ways, Kinds, Identities

(* What other processes know are objects of this one.                      *)
ReferencesInv == CallsInv /\ RefsInv /\ known \subseteq Objects

LEMMA KnownStay ==
  ASSUME CallsInv, known \subseteq Objects, Loop!Next
  PROVE  known' \subseteq Objects
<1>1. CASE known' = known
  BY <1>1
<1>2. CASE Loop!WriteCommand
  <2>1. mOut # << >> /\ mOut \in Seq(Outgoing)
    BY <1>2, CallsTyped DEF Loop!WriteCommand
  <2>2. Head(mOut) \in Outgoing
    BY <2>1
  <2>3. Head(mOut).obj \in Objects \cup {Nobody}
    BY <2>2 DEF Outgoing
  <2> QED
    BY <1>2, <2>3 DEF Loop!WriteCommand
<1>3. CASE \E o \in Objects : Loop!DropReference(o)
  BY <1>3 DEF Loop!DropReference
<1>4. CASE Loop!Thread /\ ~Loop!WriteCommand
  <2>1. known' = known
    BY <1>4 DEF Loop!Thread, Loop!GetAndExecuteCommand, Loop!WaitEnds, Loop!WaitExecutes, Loop!Call,
                Loop!ClearCallingIdentity, Loop!ServeReturns, Loop!SendReply, Loop!Transacted,
                Loop!BeginDerefs, Loop!Deref, Loop!EndDerefs, Loop!Destroyed, Loop!ReadCommands,
                Loop!driver
  <2> QED
    BY <1>1, <2>1
<1>5. CASE Loop!Others /\ ~(\E o \in Objects : Loop!DropReference(o))
  <2>1. known' = known
    BY <1>5 DEF Loop!Others, Loop!TransactionFor, Loop!CallBack, Loop!ReplyFor
  <2> QED
    BY <1>1, <2>1
<1> QED
  BY <1>2, <1>3, <1>4, <1>5 DEF Loop!Next

LEMMA ReferencesBegin ==
  ASSUME Loop!Init
  PROVE  ReferencesInv
<1>1. known \subseteq Objects
  BY DEF Loop!Init
<1> QED
  BY <1>1, CallsBegin, RefsBegin DEF ReferencesInv

LEMMA ReferencesRest ==
  ASSUME ReferencesInv, UNCHANGED loopVars
  PROVE  ReferencesInv'
<1>1. /\ mIn' = mIn /\ mOut' = mOut /\ stack' = stack /\ caller' = caller /\ pending' = pending
      /\ strongOf' = strongOf /\ known' = known /\ tstack' = tstack /\ todo' = todo /\ work' = work
  BY DEF loopVars
<1>2. IdentityInv'
  BY <1>1 DEF ReferencesInv, CallsInv, IdentityInv, LoopTyped
<1>3. WorkOK' /\ Phased'
  <2>1. Coming' = Coming /\ Expected' = Expected
    BY <1>1 DEF Coming, Expected
  <2>2. Idle' = Idle /\ Busy' = Busy /\ Calling' = Calling /\ Replying' = Replying
    BY <1>1 DEF Idle, Busy, Calling, Replying
  <2>3. Sent' = Sent
    BY <1>1, <2>1 DEF Sent
  <2>4. Waiting' = Waiting
    BY <1>1, <2>1 DEF Waiting
  <2>5. WorkOK' = WorkOK
    BY <1>1 DEF WorkOK
  <2> QED
    BY <2>2, <2>3, <2>4, <2>5 DEF ReferencesInv, CallsInv, Phased
<1>4. CallsInv'
  BY <1>1, <1>2, <1>3 DEF ReferencesInv, CallsInv
<1>5. RefsInv'
  BY <1>1 DEF ReferencesInv, RefsInv, Acquiring, Owed, Known, Releasing, PutOff, Holds, Coming
<1> QED
  BY <1>1, <1>4, <1>5 DEF ReferencesInv

LEMMA ReferencesStay ==
  ASSUME ReferencesInv, [ProcessNext]_<<vars, loopVars, used>>
  PROVE  ReferencesInv'
<1>1. CASE Loop!Next
  BY <1>1, CallsKept, RefsKept, KnownStay DEF ReferencesInv
<1>2. CASE UNCHANGED loopVars
  BY <1>2, ReferencesRest
<1> QED
  BY <1>1, <1>2 DEF ProcessNext

(* Whatever calls back and destructors a call waits through, each reply    *)
(* goes to the innermost of the calls that are open, on both sides         *)
(* (waitForResponse, sendReply): the driver's stack of transactions takes  *)
(* turns with the program's.                                               *)
THEOREM RepliesReachTheirCallsAlways == ProcessSpec => []RepliesReachTheirCalls
<1>1. ProcessInit => ReferencesInv
  BY ReferencesBegin DEF ProcessInit
<1>2. ReferencesInv /\ [ProcessNext]_<<vars, loopVars, used>> => ReferencesInv'
  BY ReferencesStay
<1>3. ReferencesInv => RepliesReachTheirCalls
  BY TypesPromise, RepliesPromise DEF ReferencesInv, RepliesReachTheirCalls
<1> QED
  BY <1>1, <1>2, <1>3, PTL DEF ProcessSpec

(* Releases put off and given back while others come are counted once      *)
(* (mPendingStrongDerefs, processPendingDerefs, BR_ACQUIRE): an object's   *)
(* strong count is what the driver was promised and has not given back,    *)
(* and what the calls under way hold.                                      *)
THEOREM ReferencesAreBalancedAlways == ProcessSpec => []ReferencesAreBalanced
<1>1. ProcessInit => ReferencesInv
  BY ReferencesBegin DEF ProcessInit
<1>2. ReferencesInv /\ [ProcessNext]_<<vars, loopVars, used>> => ReferencesInv'
  BY ReferencesStay
<1>3. ReferencesInv => ReferencesAreBalanced
  BY RefsPromise DEF ReferencesInv, ReferencesAreBalanced
<1> QED
  BY <1>1, <1>2, <1>3, PTL DEF ProcessSpec

=============================================================================
