---------------------------- MODULE BinderProofs ----------------------------
(***************************************************************************)
(* Proofs about what the processes that use binder do around their calls   *)
(* (MCBinder), for any finite sets of threads, recipients, death records,  *)
(* names, services and queries, and any bounds.                            *)
(*                                                                         *)
(* The parts share only the service that dies and comes back, which both   *)
(* the check of a permission and the other clients of services look up: a  *)
(* step of one part leaves the invariant of another alone.                 *)
(***************************************************************************)
EXTENDS MCBinder, CountingLemmas

-----------------------------------------------------------------------------
(* The death of a proxy's remote (BpBinder)                                *)
(*                                                                         *)
(* A weak reference is taken for each record of the driver.  A handler     *)
(* that is neither idle nor clearing has a delivered record to report done *)
(* (any one of the proxy's), and the record in force is one that a call    *)
(* off will see: once no reference is left there is no record, so there    *)
(* is no handler and nothing to call off.                                  *)

BusyStates == {"dead", "before", "reporting", "done"}
Busy == {t \in Threads : pc[t] \in BusyStates}
Delivered == {d \in Records : record[d] \in {"delivered", "deliveredClear"}}

LinksInv ==
  /\ TypeOK /\ WatchedWhileLinked /\ CookiesAreCounted
  /\ Cardinality(Busy) = Cardinality(Delivered)
  /\ current # NoRecord => record[current] \in {"armed", "queued", "delivered", "spent"}
  /\ destroyed => ~held

LEMMA SetsAreFinite ==
  /\ IsFiniteSet(PendingRecords) /\ IsFiniteSet(Clearing)
  /\ IsFiniteSet(Busy) /\ IsFiniteSet(Delivered)
  /\ Cardinality(PendingRecords) \in Nat /\ Cardinality(Clearing) \in Nat
  /\ Cardinality(Busy) \in Nat /\ Cardinality(Delivered) \in Nat
<1>1. /\ PendingRecords \subseteq Records /\ Delivered \subseteq Records
      /\ Clearing \subseteq Threads /\ Busy \subseteq Threads
  BY DEF PendingRecords, Delivered, Clearing, Busy
<1> QED
  BY <1>1, NoMore, BpBinderAssumption

LEMMA LinksBegin ==
  ASSUME Init
  PROVE  LinksInv
<1> USE DEF Init
<1>1. TypeOK
  <2>1. None \in [Recipients -> 0 .. MaxEntries] /\ None \in [Recipients -> Nat]
    BY BpBinderAssumption DEF None
  <2>2. "free" \in RecordStates /\ "idle" \in ThreadStates
    BY DEF RecordStates, ThreadStates
  <2> QED
    BY <2>1, <2>2 DEF TypeOK
<1>2. WatchedWhileLinked
  BY DEF WatchedWhileLinked, None
<1>3. PendingRecords = {} /\ Clearing = {} /\ Busy = {} /\ Delivered = {}
  BY DEF PendingRecords, Clearing, Busy, BusyStates, Delivered
<1>4. CookiesAreCounted
  BY <1>3, FS_EmptySet DEF CookiesAreCounted
<1> QED
  BY <1>1, <1>2, <1>3, <1>4 DEF LinksInv

(* Calling off a notification leaves each record as far as it was, apart   *)
(* from what it turns into.                                                *)
LEMMA CallingOff ==
  ASSUME TypeOK, ClearDeathNotification
  PROVE  /\ record' \in [Records -> RecordStates] /\ current' = NoRecord
         /\ PendingRecords' = PendingRecords /\ Delivered' = Delivered
<1>1. \A s \in RecordStates : /\ Cleared(s) \in RecordStates
                              /\ Cleared(s) = "free" <=> s = "free"
                              /\ Cleared(s) \in {"delivered", "deliveredClear"} <=>
                                   s \in {"delivered", "deliveredClear"}
  BY DEF Cleared, RecordStates
<1>2. /\ record' = [d \in Records |-> IF d = current THEN Cleared(record[d]) ELSE record[d]]
      /\ current' = NoRecord
  BY DEF ClearDeathNotification
<1>3. \A d \in Records : record[d] \in RecordStates
  BY DEF TypeOK
<1> HIDE DEF RecordStates
<1>4. record' \in [Records -> RecordStates]
  BY <1>1, <1>2, <1>3
<1>5. \A d \in Records : /\ record'[d] = "free" <=> record[d] = "free"
                         /\ record'[d] \in {"delivered", "deliveredClear"} <=>
                              record[d] \in {"delivered", "deliveredClear"}
  BY <1>1, <1>2, <1>3
<1> QED
  BY <1>2, <1>4, <1>5 DEF PendingRecords, Delivered

LEMMA LinkKeepsInv ==
  ASSUME LinksInv, NEW r \in Recipients, LinkToDeath(r)
  PROVE  LinksInv'
<1> USE DEF LinksInv
<1>1. /\ held /\ ~obitsSent /\ obits[r] < MaxEntries
      /\ obits' = [obits EXCEPT ![r] = obits[r] + 1]
      /\ UNCHANGED <<obitsSent, alive, held, destroyed, dead, threadVars>>
  BY DEF LinkToDeath
<1>2. obits' \in [Recipients -> 0 .. MaxEntries] /\ obits'[r] > 0
  BY <1>1, BpBinderAssumption DEF TypeOK
<1>3. Clearing' = Clearing /\ Busy' = Busy
  BY <1>1 DEF Clearing, Busy, threadVars
<1>4. CASE hasObits
  <2>1. UNCHANGED <<hasObits, deathRefs, current, record>>
    BY <1>4 DEF LinkToDeath
  <2>2. PendingRecords' = PendingRecords /\ Delivered' = Delivered
    BY <2>1 DEF PendingRecords, Delivered
  <2>3. TypeOK'
    BY <1>1, <1>2, <2>1 DEF TypeOK, threadVars
  <2>4. WatchedWhileLinked'
    BY <1>1, <1>2, <1>4, <2>1 DEF WatchedWhileLinked
  <2>5. CookiesAreCounted'
    BY <1>1, <1>3, <2>1, <2>2 DEF CookiesAreCounted, threadVars
  <2> QED
    BY <1>1, <1>3, <2>1, <2>2, <2>3, <2>4, <2>5
<1>5. CASE ~hasObits
  <2>1. hasObits' = TRUE /\ deathRefs' = deathRefs + 1 /\ current = NoRecord
    BY <1>5 DEF LinkToDeath, WatchedWhileLinked
  <2>2. PICK d \in Records : /\ record[d] = "free" /\ current' = d
                             /\ record' = [record EXCEPT ![d] = IF dead THEN "queued" ELSE "armed"]
    BY <1>5, <2>1 DEF LinkToDeath, RequestDeathNotification
  <2>3. TypeOK'
    <3>1. record' \in [Records -> RecordStates]
      BY <2>2 DEF TypeOK, RecordStates
    <3> QED
      BY <1>1, <1>2, <2>1, <2>2, <3>1 DEF TypeOK, threadVars
  <2>4. record'[d] \in {"armed", "queued"} /\ \A e \in Records \ {d} : record'[e] = record[e]
    BY <2>2 DEF TypeOK
  <2>5. PendingRecords' = PendingRecords \cup {d} /\ d \notin PendingRecords
    BY <2>2, <2>4 DEF PendingRecords
  <2>6. Delivered' = Delivered
    BY <2>2, <2>4 DEF Delivered
  <2>7. Cardinality(PendingRecords') = Cardinality(PendingRecords) + 1
    BY <2>5, SetsAreFinite, FS_AddElement
  <2>8. WatchedWhileLinked'
    BY <1>1, <1>2, <2>1, <2>2, BpBinderAssumption DEF WatchedWhileLinked
  <2>9. CookiesAreCounted'
    BY <1>1, <1>3, <2>1, <2>7, SetsAreFinite DEF CookiesAreCounted
  <2> QED
    BY <1>1, <1>3, <2>2, <2>3, <2>4, <2>6, <2>8, <2>9
<1> QED
  BY <1>4, <1>5

LEMMA UnlinkKeepsInv ==
  ASSUME LinksInv, NEW r \in Recipients, UnlinkToDeath(r)
  PROVE  LinksInv'
<1> USE DEF LinksInv
<1>1. /\ held /\ ~obitsSent /\ obits[r] > 0
      /\ obits' = [obits EXCEPT ![r] = obits[r] - 1]
      /\ UNCHANGED <<obitsSent, alive, lifeVars, dead, threadVars>>
  BY DEF UnlinkToDeath
<1>2. obits' \in [Recipients -> 0 .. MaxEntries]
  BY <1>1, BpBinderAssumption DEF TypeOK
<1>3. Clearing' = Clearing /\ Busy' = Busy
  BY <1>1 DEF Clearing, Busy, threadVars
<1>4. hasObits
  BY <1>1 DEF WatchedWhileLinked
<1>5. CASE obits' # None
  <2>1. UNCHANGED <<hasObits, current, record>>
    BY <1>5 DEF UnlinkToDeath
  <2>2. PendingRecords' = PendingRecords /\ Delivered' = Delivered
    BY <2>1 DEF PendingRecords, Delivered
  <2>3. TypeOK'
    BY <1>1, <1>2, <2>1 DEF TypeOK, lifeVars, threadVars
  <2>4. \E q \in Recipients : obits'[q] > 0
    <3>1. PICK q \in Recipients : obits'[q] # 0
      BY <1>2, <1>5 DEF None
    <3> QED
      BY <1>2, <3>1, BpBinderAssumption
  <2>5. WatchedWhileLinked'
    BY <1>1, <1>4, <2>1, <2>4 DEF WatchedWhileLinked
  <2>6. CookiesAreCounted'
    BY <1>1, <1>3, <2>2 DEF CookiesAreCounted, lifeVars, threadVars
  <2> QED
    BY <1>1, <1>3, <2>1, <2>2, <2>3, <2>5, <2>6 DEF lifeVars
<1>6. CASE obits' = None
  <2>1. ClearDeathNotification /\ hasObits' = FALSE
    BY <1>6 DEF UnlinkToDeath
  <2>2. /\ record' \in [Records -> RecordStates] /\ current' = NoRecord
        /\ PendingRecords' = PendingRecords /\ Delivered' = Delivered
    BY <2>1, CallingOff
  <2>3. TypeOK'
    BY <1>1, <1>2, <2>1, <2>2 DEF TypeOK, lifeVars, threadVars
  <2>4. WatchedWhileLinked'
    BY <1>6, <2>1, <2>2 DEF WatchedWhileLinked, None
  <2>5. CookiesAreCounted'
    BY <1>1, <1>3, <2>2 DEF CookiesAreCounted, lifeVars, threadVars
  <2> QED
    BY <1>1, <1>3, <2>2, <2>3, <2>4, <2>5 DEF lifeVars
<1> QED
  BY <1>5, <1>6

(* Deleting the proxy when its last reference is gone: there is no record  *)
(* left, hence no list, no handler and nothing to call off.                *)
LEMMA DeletingWhenDone ==
  ASSUME LinksInv, NEW gone \in BOOLEAN, DeleteWhen(gone),
         gone => PendingRecords = {}
  PROVE  /\ destroyed' = gone
         /\ UNCHANGED <<hasObits, obits, current, record>>
<1>1. gone => ~hasObits
  <2> SUFFICES ASSUME gone, hasObits PROVE FALSE
    OBVIOUS
  <2>1. current \in Records /\ record[current] # "free"
    BY DEF LinksInv, WatchedWhileLinked, TypeOK
  <2> QED
    BY <2>1 DEF PendingRecords
<1> QED
  BY <1>1 DEF DeleteWhen

LEMMA DropProxyKeepsInv ==
  ASSUME LinksInv, DropProxy
  PROVE  LinksInv'
<1> USE DEF LinksInv
<1>1. /\ held /\ held' = FALSE /\ DeleteWhen(deathRefs = 0)
      /\ UNCHANGED <<obitsSent, alive, deathRefs, dead, threadVars>>
  BY DEF DropProxy
<1>2. deathRefs = 0 => PendingRecords = {} /\ Clearing = {} /\ Busy = {}
  <2> SUFFICES ASSUME deathRefs = 0 PROVE PendingRecords = {} /\ Clearing = {} /\ Busy = {}
    OBVIOUS
  <2>1. Cardinality(PendingRecords) = 0 /\ Cardinality(Clearing) = 0
    BY SetsAreFinite DEF CookiesAreCounted
  <2>2. PendingRecords = {} /\ Clearing = {}
    BY <2>1, SetsAreFinite, FS_EmptySet
  <2>3. Delivered = {}
    BY <2>2 DEF PendingRecords, Delivered
  <2>4. Cardinality(Busy) = 0
    BY <2>3, FS_EmptySet
  <2> QED
    BY <2>2, <2>4, SetsAreFinite, FS_EmptySet
<1>3. /\ destroyed' = (deathRefs = 0)
      /\ UNCHANGED <<hasObits, obits, current, record>>
  BY <1>1, <1>2, DeletingWhenDone
<1>4. TypeOK'
  BY <1>1, <1>3 DEF TypeOK, threadVars
<1>5. WatchedWhileLinked'
  BY <1>1, <1>3 DEF WatchedWhileLinked
<1>6. /\ PendingRecords' = PendingRecords /\ Clearing' = Clearing
      /\ Busy' = Busy /\ Delivered' = Delivered
  BY <1>1, <1>3 DEF PendingRecords, Clearing, Busy, Delivered, threadVars
<1>7. deathRefs = 0 => \A t \in Threads : pc[t] = "idle"
  BY <1>2 DEF Clearing, Busy, BusyStates, TypeOK, ThreadStates
<1>8. CookiesAreCounted'
  BY <1>1, <1>3, <1>6, <1>7 DEF CookiesAreCounted, threadVars
<1> QED
  BY <1>1, <1>3, <1>4, <1>5, <1>6, <1>8

(* A thread goes on to another state.                                      *)
LEMMA ThreadMoves ==
  ASSUME TypeOK, NEW t \in Threads, NEW s \in ThreadStates, pc' = [pc EXCEPT ![t] = s]
  PROVE  /\ pc' \in [Threads -> ThreadStates]
         /\ pc[t] # "clearing" /\ s # "clearing" => Clearing' = Clearing
         /\ pc[t] # "clearing" /\ s = "clearing" =>
              Clearing' = Clearing \cup {t} /\ t \notin Clearing
         /\ pc[t] = "clearing" /\ s # "clearing" =>
              Clearing' = Clearing \ {t} /\ t \in Clearing
         /\ (pc[t] \in BusyStates <=> s \in BusyStates) => Busy' = Busy
         /\ pc[t] \notin BusyStates /\ s \in BusyStates => Busy' = Busy \cup {t} /\ t \notin Busy
         /\ pc[t] \in BusyStates /\ s \notin BusyStates => Busy' = Busy \ {t} /\ t \in Busy
<1>1. /\ pc' \in [Threads -> ThreadStates] /\ pc'[t] = s
      /\ \A u \in Threads \ {t} : pc'[u] = pc[u]
  BY DEF TypeOK
<1> QED
  BY <1>1 DEF Clearing, Busy, BusyStates

LEMMA ReadKeepsInv ==
  ASSUME LinksInv, NEW t \in Threads, Read(t)
  PROVE  LinksInv'
<1> USE DEF LinksInv
<1>1. /\ pc[t] = "idle"
      /\ UNCHANGED <<obits, hasObits, obitsSent, alive, held, deathRefs, destroyed,
                     dead, current, report, told>>
  BY DEF Read, listVars, lifeVars
<1>2. PICK d \in Records :
        \/ /\ record[d] \in {"queued", "queuedClear"}
           /\ record' = [record EXCEPT ![d] =
                           IF record[d] = "queued" THEN "delivered" ELSE "deliveredClear"]
           /\ pc' = [pc EXCEPT ![t] = "dead"]
        \/ /\ record[d] = "clear"
           /\ record' = [record EXCEPT ![d] = "free"]
           /\ pc' = [pc EXCEPT ![t] = "clearing"]
  BY DEF Read
<1>3. d \in PendingRecords /\ ~destroyed
  <2>1. d \in PendingRecords
    BY <1>2 DEF PendingRecords
  <2>2. Cardinality(PendingRecords) # 0
    BY <2>1, SetsAreFinite, FS_EmptySet
  <2> QED
    BY <2>1, <2>2, SetsAreFinite DEF CookiesAreCounted
<1>4. WatchedWhileLinked'
  BY <1>1 DEF WatchedWhileLinked
<1>5. CASE record[d] \in {"queued", "queuedClear"}
  <2>1. /\ record' \in [Records -> RecordStates]
        /\ record'[d] = (IF record[d] = "queued" THEN "delivered" ELSE "deliveredClear")
        /\ \A e \in Records \ {d} : record'[e] = record[e]
        /\ pc' = [pc EXCEPT ![t] = "dead"]
    BY <1>2, <1>5 DEF TypeOK, RecordStates
  <2>2. PendingRecords' = PendingRecords
    BY <1>5, <2>1 DEF PendingRecords
  <2>3. Delivered' = Delivered \cup {d} /\ d \notin Delivered
    BY <1>5, <2>1 DEF Delivered
  <2>4. /\ pc' \in [Threads -> ThreadStates]
        /\ Clearing' = Clearing /\ Busy' = Busy \cup {t} /\ t \notin Busy
    BY <1>1, <2>1, ThreadMoves DEF ThreadStates, BusyStates
  <2>5. Cardinality(Busy') = Cardinality(Delivered')
    <3>1. Cardinality(Busy') = Cardinality(Busy) + 1
      BY <2>4, SetsAreFinite, FS_AddElement
    <3>2. Cardinality(Delivered') = Cardinality(Delivered) + 1
      BY <2>3, SetsAreFinite, FS_AddElement
    <3> QED
      BY <3>1, <3>2
  <2>6. TypeOK'
    BY <1>1, <2>1, <2>4 DEF TypeOK
  <2>7. CookiesAreCounted'
    BY <1>1, <1>3, <2>2, <2>4 DEF CookiesAreCounted
  <2>8. current' # NoRecord => record'[current'] \in {"armed", "queued", "delivered", "spent"}
    BY <1>1, <1>5, <2>1 DEF TypeOK
  <2> QED
    BY <1>1, <1>3, <1>4, <2>5, <2>6, <2>7, <2>8
<1>6. CASE record[d] = "clear"
  <2>1. /\ record' \in [Records -> RecordStates] /\ record'[d] = "free"
        /\ \A e \in Records \ {d} : record'[e] = record[e]
        /\ pc' = [pc EXCEPT ![t] = "clearing"]
    BY <1>2, <1>6 DEF TypeOK, RecordStates
  <2>2. PendingRecords' = PendingRecords \ {d}
    BY <2>1 DEF PendingRecords
  <2>3. Delivered' = Delivered
    BY <1>6, <2>1 DEF Delivered
  <2>4. /\ pc' \in [Threads -> ThreadStates]
        /\ Clearing' = Clearing \cup {t} /\ t \notin Clearing /\ Busy' = Busy
    BY <1>1, <2>1, ThreadMoves DEF ThreadStates, BusyStates
  <2>5. /\ Cardinality(PendingRecords') = Cardinality(PendingRecords) - 1
        /\ Cardinality(Clearing') = Cardinality(Clearing) + 1
    BY <1>3, <2>2, <2>4, SetsAreFinite, FS_AddElement, FS_RemoveElement
  <2>6. TypeOK'
    BY <1>1, <2>1, <2>4 DEF TypeOK
  <2>7. CookiesAreCounted'
    BY <1>1, <1>3, <2>5, SetsAreFinite DEF CookiesAreCounted
  <2>8. current' # NoRecord => record'[current'] \in {"armed", "queued", "delivered", "spent"}
    BY <1>1, <1>6, <2>1 DEF TypeOK
  <2> QED
    BY <1>1, <1>3, <1>4, <2>3, <2>4, <2>6, <2>7, <2>8
<1> QED
  BY <1>2, <1>5, <1>6

(* A handler goes from one step to the next of those before it is done.    *)
LEMMA GoingOnKeepsInv ==
  ASSUME LinksInv, NEW t \in Threads, NEW s \in {"before", "reporting", "done"},
         pc[t] \in {"dead", "before", "reporting"}, pc' = [pc EXCEPT ![t] = s],
         record' \in [Records -> RecordStates],
         PendingRecords' = PendingRecords, Delivered' = Delivered,
         UNCHANGED <<deathRefs, destroyed, held>>
  PROVE  /\ pc' \in [Threads -> ThreadStates]
         /\ CookiesAreCounted' /\ Cardinality(Busy') = Cardinality(Delivered')
         /\ destroyed' => ~held'
<1>1. /\ pc' \in [Threads -> ThreadStates] /\ Clearing' = Clearing /\ Busy' = Busy
  <2>1. /\ s \in ThreadStates /\ s # "clearing" /\ pc[t] # "clearing"
        /\ s \in BusyStates /\ pc[t] \in BusyStates
    BY DEF BusyStates, ThreadStates
  <2> QED
    BY <2>1, ThreadMoves DEF LinksInv
<1>2. ~destroyed
  BY DEF LinksInv, CookiesAreCounted
<1>3. CookiesAreCounted'
  BY <1>1, <1>2 DEF LinksInv, CookiesAreCounted
<1> QED
  BY <1>1, <1>2, <1>3 DEF LinksInv

LEMMA SendObituaryKeepsInv ==
  ASSUME LinksInv, NEW t \in Threads, SendObituary(t)
  PROVE  LinksInv'
<1>1. /\ pc[t] = "dead" /\ alive' = FALSE
      /\ pc' = [pc EXCEPT ![t] = IF obitsSent THEN "done" ELSE "before"]
      /\ UNCHANGED <<obits, hasObits, obitsSent, held, deathRefs, destroyed,
                     dead, current, record, report, told>>
  BY DEF SendObituary, listVars, lifeVars, driverVars
<1>2. PendingRecords' = PendingRecords /\ Delivered' = Delivered
      /\ record' \in [Records -> RecordStates]
  BY <1>1 DEF PendingRecords, Delivered, LinksInv, TypeOK
<1>3. (IF obitsSent THEN "done" ELSE "before") \in {"before", "reporting", "done"}
  OBVIOUS
<1>4. /\ pc' \in [Threads -> ThreadStates]
      /\ CookiesAreCounted' /\ Cardinality(Busy') = Cardinality(Delivered')
      /\ destroyed' => ~held'
  BY <1>1, <1>2, <1>3, GoingOnKeepsInv
<1>5. TypeOK'
  BY <1>1, <1>4 DEF LinksInv, TypeOK
<1>6. WatchedWhileLinked'
  BY <1>1 DEF LinksInv, WatchedWhileLinked
<1> QED
  BY <1>1, <1>4, <1>5, <1>6 DEF LinksInv

LEMMA LockObituariesKeepsInv ==
  ASSUME LinksInv, NEW t \in Threads, LockObituaries(t)
  PROVE  LinksInv'
<1>1. /\ pc[t] = "before" /\ obitsSent' = TRUE
      /\ report' = [report EXCEPT ![t] = obits]
      /\ pc' = [pc EXCEPT ![t] = "reporting"]
      /\ obits' = None /\ hasObits' = FALSE
      /\ UNCHANGED <<alive, held, deathRefs, destroyed, dead, told>>
  BY DEF LockObituaries, TakeObituaries, lifeVars
<1>2. /\ PendingRecords' = PendingRecords /\ Delivered' = Delivered
      /\ record' \in [Records -> RecordStates] /\ current' = NoRecord
  <2>1. CASE hasObits
    BY <2>1, CallingOff DEF LockObituaries, LinksInv
  <2>2. CASE ~hasObits
    <3>1. UNCHANGED <<current, record>>
      BY <2>2 DEF LockObituaries
    <3> QED
      BY <2>2, <3>1 DEF PendingRecords, Delivered, LinksInv, WatchedWhileLinked, TypeOK
  <2> QED
    BY <2>1, <2>2
<1>3. /\ pc' \in [Threads -> ThreadStates]
      /\ CookiesAreCounted' /\ Cardinality(Busy') = Cardinality(Delivered')
      /\ destroyed' => ~held'
  BY <1>1, <1>2, GoingOnKeepsInv
<1>4. TypeOK'
  <2>1. /\ obits' \in [Recipients -> 0 .. MaxEntries]
        /\ report' \in [Threads -> [Recipients -> 0 .. MaxEntries]]
    BY <1>1, BpBinderAssumption DEF LinksInv, TypeOK, None
  <2> QED
    BY <1>1, <1>2, <1>3, <2>1 DEF LinksInv, TypeOK
<1>5. WatchedWhileLinked'
  BY <1>1, <1>2 DEF WatchedWhileLinked, None
<1> QED
  BY <1>2, <1>3, <1>4, <1>5 DEF LinksInv

LEMMA ReportOneDeathKeepsInv ==
  ASSUME LinksInv, NEW t \in Threads, NEW r \in Recipients, ReportOneDeath(t, r)
  PROVE  LinksInv'
<1> USE DEF LinksInv
<1>1. /\ report[t][r] > 0
      /\ report' = [report EXCEPT ![t] = [report[t] EXCEPT ![r] = report[t][r] - 1]]
      /\ told' = [told EXCEPT ![r] = told[r] + 1]
      /\ UNCHANGED <<obits, hasObits, obitsSent, alive, held, deathRefs, destroyed,
                     dead, current, record, pc>>
  BY DEF ReportOneDeath, listVars, lifeVars, driverVars
<1>2. TypeOK'
  <2>1. report[t] \in [Recipients -> 0 .. MaxEntries]
    BY DEF TypeOK
  <2>2. [report[t] EXCEPT ![r] = report[t][r] - 1] \in [Recipients -> 0 .. MaxEntries]
    BY <1>1, <2>1, BpBinderAssumption
  <2>3. report' \in [Threads -> [Recipients -> 0 .. MaxEntries]] /\ told' \in [Recipients -> Nat]
    BY <1>1, <2>2 DEF TypeOK
  <2> QED
    BY <1>1, <2>3 DEF TypeOK
<1>3. /\ PendingRecords' = PendingRecords /\ Delivered' = Delivered
      /\ Clearing' = Clearing /\ Busy' = Busy
  BY <1>1 DEF PendingRecords, Delivered, Clearing, Busy
<1> QED
  BY <1>1, <1>2, <1>3 DEF WatchedWhileLinked, CookiesAreCounted

LEMMA AllReportedKeepsInv ==
  ASSUME LinksInv, NEW t \in Threads, AllReported(t)
  PROVE  LinksInv'
<1>1. /\ pc[t] = "reporting" /\ pc' = [pc EXCEPT ![t] = "done"]
      /\ UNCHANGED <<obits, hasObits, obitsSent, alive, held, deathRefs, destroyed,
                     dead, current, record, report, told>>
  BY DEF AllReported, listVars, lifeVars, driverVars
<1>2. PendingRecords' = PendingRecords /\ Delivered' = Delivered
      /\ record' \in [Records -> RecordStates]
  BY <1>1 DEF PendingRecords, Delivered, LinksInv, TypeOK
<1>3. /\ pc' \in [Threads -> ThreadStates]
      /\ CookiesAreCounted' /\ Cardinality(Busy') = Cardinality(Delivered')
      /\ destroyed' => ~held'
  BY <1>1, <1>2, GoingOnKeepsInv
<1>4. TypeOK'
  BY <1>1, <1>3 DEF LinksInv, TypeOK
<1>5. WatchedWhileLinked'
  BY <1>1 DEF LinksInv, WatchedWhileLinked
<1> QED
  BY <1>1, <1>3, <1>4, <1>5 DEF LinksInv

LEMMA SayDoneKeepsInv ==
  ASSUME LinksInv, NEW t \in Threads, SayDone(t)
  PROVE  LinksInv'
<1> USE DEF LinksInv
<1>1. /\ pc[t] = "done" /\ pc' = [pc EXCEPT ![t] = "idle"]
      /\ UNCHANGED <<obits, hasObits, obitsSent, alive, held, deathRefs, destroyed,
                     dead, current, report, told>>
  BY DEF SayDone, listVars, lifeVars
<1>2. PICK d \in Records :
        /\ record[d] \in {"delivered", "deliveredClear"}
        /\ record' = [record EXCEPT ![d] = IF record[d] = "delivered" THEN "spent" ELSE "clear"]
  BY DEF SayDone, DeadBinderDone
<1>3. /\ record' \in [Records -> RecordStates]
      /\ record'[d] = (IF record[d] = "delivered" THEN "spent" ELSE "clear")
      /\ \A e \in Records \ {d} : record'[e] = record[e]
  BY <1>2 DEF TypeOK, RecordStates
<1>4. PendingRecords' = PendingRecords /\ Delivered' = Delivered \ {d} /\ d \in Delivered
  BY <1>2, <1>3 DEF PendingRecords, Delivered
<1>5. /\ pc' \in [Threads -> ThreadStates]
      /\ Clearing' = Clearing /\ Busy' = Busy \ {t} /\ t \in Busy
  BY <1>1, ThreadMoves DEF ThreadStates, BusyStates
<1>6. Cardinality(Busy') = Cardinality(Delivered')
  <2>1. Cardinality(Busy') = Cardinality(Busy) - 1
    BY <1>5, SetsAreFinite, FS_RemoveElement
  <2>2. Cardinality(Delivered') = Cardinality(Delivered) - 1
    BY <1>4, SetsAreFinite, FS_RemoveElement
  <2> QED
    BY <2>1, <2>2
<1>7. ~destroyed
  BY <1>1 DEF CookiesAreCounted
<1>8. TypeOK'
  BY <1>1, <1>3, <1>5 DEF TypeOK
<1>9. WatchedWhileLinked'
  BY <1>1 DEF WatchedWhileLinked
<1>10. CookiesAreCounted'
  BY <1>1, <1>4, <1>5, <1>7 DEF CookiesAreCounted
<1>11. current' # NoRecord => record'[current'] \in {"armed", "queued", "delivered", "spent"}
  BY <1>1, <1>2, <1>3 DEF TypeOK
<1> QED
  BY <1>1, <1>6, <1>7, <1>8, <1>9, <1>10, <1>11

LEMMA ClearDoneKeepsInv ==
  ASSUME LinksInv, NEW t \in Threads, ClearDone(t)
  PROVE  LinksInv'
<1> USE DEF LinksInv
<1> DEFINE gone == ~held /\ deathRefs = 1
<1>1. /\ pc[t] = "clearing" /\ pc' = [pc EXCEPT ![t] = "idle"]
      /\ deathRefs' = deathRefs - 1 /\ DeleteWhen(gone)
      /\ UNCHANGED <<obitsSent, alive, held, dead, report, told>>
  BY DEF ClearDone
<1>2. /\ pc' \in [Threads -> ThreadStates]
      /\ Clearing' = Clearing \ {t} /\ t \in Clearing /\ Busy' = Busy
  BY <1>1, ThreadMoves DEF ThreadStates, BusyStates
<1>3. Cardinality(Clearing') = Cardinality(Clearing) - 1 /\ Cardinality(Clearing) # 0
  BY <1>2, SetsAreFinite, FS_RemoveElement, FS_EmptySet
<1>4. deathRefs = 1 => PendingRecords = {} /\ Cardinality(Clearing') = 0
  <2> SUFFICES ASSUME deathRefs = 1
               PROVE  PendingRecords = {} /\ Cardinality(Clearing') = 0
    OBVIOUS
  <2>1. Cardinality(PendingRecords) = 0 /\ Cardinality(Clearing') = 0
    BY <1>3, SetsAreFinite DEF CookiesAreCounted
  <2> QED
    BY <2>1, SetsAreFinite, FS_EmptySet
<1>5. gone \in BOOLEAN /\ (gone => PendingRecords = {})
  BY <1>4
<1> HIDE DEF gone
<1>6. destroyed' = gone /\ UNCHANGED <<hasObits, obits, current, record>>
  BY <1>1, <1>5, DeletingWhenDone
<1>7. PendingRecords' = PendingRecords /\ Delivered' = Delivered
  BY <1>6 DEF PendingRecords, Delivered
<1>8. deathRefs' = Cardinality(PendingRecords') + Cardinality(Clearing') /\ deathRefs' \in Nat
  BY <1>1, <1>3, <1>7, SetsAreFinite DEF CookiesAreCounted
<1>9. gone => deathRefs' = 0 /\ \A u \in Threads : pc'[u] = "idle"
  <2> SUFFICES ASSUME gone PROVE deathRefs' = 0 /\ \A u \in Threads : pc'[u] = "idle"
    OBVIOUS
  <2>1. deathRefs = 1
    BY DEF gone
  <2>2. Clearing' = {}
    <3>1. IsFiniteSet(Clearing')
      BY <1>2, SetsAreFinite, FS_RemoveElement
    <3> QED
      BY <1>4, <2>1, <3>1, FS_EmptySet
  <2>3. Delivered = {}
    BY <1>4, <2>1 DEF PendingRecords, Delivered
  <2>4. Busy = {}
    BY <2>3, SetsAreFinite, FS_EmptySet
  <2> QED
    BY <1>1, <1>2, <2>1, <2>2, <2>4 DEF Clearing, Busy, BusyStates, ThreadStates
<1>10. TypeOK'
  BY <1>1, <1>2, <1>5, <1>6, <1>8 DEF TypeOK
<1>11. WatchedWhileLinked'
  BY <1>1, <1>6 DEF WatchedWhileLinked
<1>12. CookiesAreCounted'
  BY <1>6, <1>8, <1>9 DEF CookiesAreCounted
<1>13. destroyed' => ~held'
  BY <1>1, <1>6 DEF gone
<1> QED
  BY <1>2, <1>6, <1>7, <1>10, <1>11, <1>12, <1>13

LEMMA LinksKeepInv ==
  ASSUME LinksInv, [Next]_vars
  PROVE  LinksInv'
<1>1. CASE RemoteDies
  <2> USE DEF LinksInv
  <2>1. /\ dead' = TRUE
        /\ record' = [d \in Records |-> IF record[d] = "armed" THEN "queued" ELSE record[d]]
        /\ UNCHANGED <<obits, hasObits, obitsSent, alive, held, deathRefs, destroyed,
                       current, pc, report, told>>
    BY <1>1 DEF RemoteDies, listVars, lifeVars, threadVars
  <2>2. record' \in [Records -> RecordStates]
    BY <2>1 DEF TypeOK, RecordStates
  <2>3. /\ PendingRecords' = PendingRecords /\ Delivered' = Delivered
        /\ Clearing' = Clearing /\ Busy' = Busy
    BY <2>1 DEF PendingRecords, Delivered, Clearing, Busy
  <2>4. TypeOK'
    BY <2>1, <2>2 DEF TypeOK
  <2>5. current' # NoRecord => record'[current'] \in {"armed", "queued", "delivered", "spent"}
    BY <2>1 DEF TypeOK
  <2> QED
    BY <2>1, <2>3, <2>4, <2>5 DEF WatchedWhileLinked, CookiesAreCounted
<1>2. ASSUME NEW r \in Recipients, LinkToDeath(r) PROVE LinksInv'
  BY <1>2, LinkKeepsInv
<1>3. ASSUME NEW r \in Recipients, UnlinkToDeath(r) PROVE LinksInv'
  BY <1>3, UnlinkKeepsInv
<1>4. CASE TransactGetsDeadObject
  BY <1>4 DEF TransactGetsDeadObject, LinksInv, TypeOK, WatchedWhileLinked, CookiesAreCounted,
     PendingRecords, Delivered, Clearing, Busy, listVars, lifeVars, driverVars, threadVars
<1>5. CASE DropProxy
  BY <1>5, DropProxyKeepsInv
<1>6. CASE GetProxy
  BY <1>6 DEF GetProxy, LinksInv, TypeOK, WatchedWhileLinked, CookiesAreCounted,
     PendingRecords, Delivered, Clearing, Busy, listVars, driverVars, threadVars
<1>7. ASSUME NEW t \in Threads, Handle(t) PROVE LinksInv'
  BY <1>7, ReadKeepsInv, SendObituaryKeepsInv, LockObituariesKeepsInv, ReportOneDeathKeepsInv,
     AllReportedKeepsInv, SayDoneKeepsInv, ClearDoneKeepsInv DEF Handle
<1>8. CASE UNCHANGED vars
  BY <1>8 DEF vars, LinksInv, TypeOK, WatchedWhileLinked, CookiesAreCounted,
     PendingRecords, Delivered, Clearing, Busy, listVars, lifeVars, driverVars, threadVars
<1> QED
  BY <1>1, <1>2, <1>3, <1>4, <1>5, <1>6, <1>7, <1>8 DEF Next, UserCall

(* Whatever the users of a proxy and the handlers of its pool threads do,  *)
(* the driver watches exactly while somebody is linked, and every cookie   *)
(* it or a handler has is covered by a weak reference (BpBinder::          *)
(* linkToDeath, unlinkToDeath, sendObituary, ~BpBinder).                   *)
THEOREM LinksAreSoundAlways == BinderSpec => []LinksAreSound
<1> DEFINE all == <<vars, registryVars, poolVars, serviceVars, permissionVars, appVars, used>>
<1>1. BinderInit => LinksInv
  BY LinksBegin DEF BinderInit
<1>2. LinksInv /\ [BinderNext]_all => LinksInv'
  <2> SUFFICES ASSUME LinksInv, [BinderNext]_all PROVE LinksInv'
    OBVIOUS
  <2>1. [Next]_vars
    BY DEF BinderNext, OfProxy, OfRegistry, OfPool, OfPermission, OfApps
  <2> QED
    BY <2>1, LinksKeepInv
<1>3. LinksInv => LinksAreSound
  BY DEF LinksInv, LinksAreSound
<1> QED
  BY <1>1, <1>2, <1>3, PTL DEF BinderSpec

-----------------------------------------------------------------------------
(* A check of a permission (PermissionCheck)                               *)
(*                                                                         *)
(* A thread that has been refused and sees its proxy alive was answered:   *)
(* the service manager hands out a living proxy again only for a binder    *)
(* that no thread holds one of.                                            *)

Answered(q, answer) == \E i \in 1 .. started : answer = (q \in policy[i])

PermissionTypeOK ==
  /\ started \in Nat /\ registered \in 0 .. started
  /\ gPermissionController \in 0 .. started
  /\ mAlive \in [1 .. MaxIncarnations -> BOOLEAN] /\ started <= MaxIncarnations
  /\ mCache \in [Queries -> SUBSET BOOLEAN]
  /\ at \in [Threads -> {"idle", "begin", "find", "ask", "refused", "forget",
                         "install", "cache"}]
  /\ query \in [Threads -> Queries \cup {Idle}]
  /\ granted \in [Threads -> BOOLEAN]
  /\ pcOf \in [Threads -> 0 .. started]

PermissionInv ==
  /\ PermissionTypeOK
  /\ \A t \in Threads :
       /\ at[t] # "idle" => query[t] \in Queries
       /\ at[t] \in {"ask", "refused", "install"} => pcOf[t] # 0
       /\ at[t] = "refused" /\ mAlive[pcOf[t]] => Answered(query[t], granted[t])
       /\ at[t] = "cache" => Answered(query[t], granted[t])
  /\ \A q \in Queries : \A answer \in mCache[q] : Answered(q, answer)

(* The other parts leave the cache empty and the threads idle.             *)
ChecksInv ==
  IF used = "permission" THEN PermissionInv
  ELSE mCache = [q \in Queries |-> {}] /\ at = [t \in Threads |-> "idle"]

LEMMA IncarnationsAreCounted ==
  MaxIncarnations \in Nat \ {0} /\ Permission!Incarnations = 1 .. MaxIncarnations
  BY BinderPartsAssumption DEF Permission!RestartingServiceAssumption, Permission!Incarnations
(* What was answered stays so.                                             *)
LEMMA AnswersStay ==
  ASSUME started \in Nat, started' \in Nat, started' >= started, policy' = policy,
         NEW q, NEW answer, Answered(q, answer)
  PROVE  (\E i \in 1 .. started : answer = (q \in policy[i]))'
<1>1. PICK i \in 1 .. started : answer = (q \in policy[i])
  BY DEF Answered
<1>2. i \in 1 .. started'
  BY <1>1
<1> QED
  BY <1>1, <1>2

(* A step of the service alone.                                            *)
LEMMA ServiceKeepsChecks ==
  ASSUME PermissionInv, Permission!ServiceNext, UNCHANGED permissionVars
  PROVE  PermissionInv'
<1> USE DEF PermissionInv, PermissionTypeOK
<1>1. UNCHANGED <<policy, gPermissionController, mCache, query, at, pcOf, granted>>
  BY DEF permissionVars
<1>2. /\ started' \in Nat /\ started' >= started /\ started' <= MaxIncarnations
      /\ registered' \in 0 .. started' /\ mAlive' = mAlive
  BY IncarnationsAreCounted DEF Permission!ServiceNext, Permission!Start, Permission!Die,
     Permission!Forget, Permission!NULL
<1>3. PermissionTypeOK'
  <2>1. \A t \in Threads : pcOf[t] \in 0 .. started'
    BY <1>2
  <2> QED
    BY <1>1, <1>2, <2>1
<1>4. \A q, answer : Answered(q, answer) => (\E i \in 1 .. started : answer = (q \in policy[i]))'
  BY <1>1, <1>2, AnswersStay
<1>5. \A t \in Threads :
        /\ at'[t] = "refused" /\ mAlive'[pcOf'[t]] => Answered(query[t], granted[t])'
        /\ at'[t] = "cache" => Answered(query[t], granted[t])'
  BY <1>1, <1>2, <1>4 DEF Answered
<1>6. \A q \in Queries : \A answer \in mCache'[q] : (\E i \in 1 .. started : answer = (q \in policy[i]))'
  BY <1>1, <1>4
<1> QED
  BY <1>1, <1>3, <1>5, <1>6 DEF Answered

(* A step of a thread that neither answers nor asks anything.              *)
LEMMA StepKeepsChecks ==
  ASSUME PermissionInv, PermissionTypeOK', NEW t \in Threads,
         UNCHANGED <<policy, mCache, granted, started>>,
         \A u \in Threads \ {t} : /\ query'[u] = query[u] /\ at'[u] = at[u]
                                  /\ pcOf'[u] = pcOf[u]
                                  /\ pcOf[u] # 0 /\ mAlive'[pcOf[u]] => mAlive[pcOf[u]],
         at'[t] # "idle" => query'[t] \in Queries,
         at'[t] \in {"ask", "install"} => pcOf'[t] # 0,
         at'[t] # "refused",
         at'[t] = "cache" => Answered(query'[t], granted[t])
  PROVE  PermissionInv'
<1> USE DEF PermissionInv
<1>1. \A q, answer : Answered(q, answer) <=> (\E i \in 1 .. started : answer = (q \in policy[i]))'
  BY DEF Answered
<1>2. ASSUME NEW u \in Threads
      PROVE  /\ at'[u] # "idle" => query'[u] \in Queries
             /\ at'[u] \in {"ask", "refused", "install"} => pcOf'[u] # 0
             /\ at'[u] = "refused" /\ mAlive'[pcOf'[u]] => Answered(query'[u], granted[u])
             /\ at'[u] = "cache" => Answered(query'[u], granted[u])
  <2>1. CASE u = t
    BY <2>1
  <2>2. CASE u # t
    BY <2>2
  <2> QED
    BY <2>1, <2>2
<1>3. \A u \in Threads :
        /\ at'[u] = "refused" /\ mAlive'[pcOf'[u]] => Answered(query[u], granted[u])'
        /\ at'[u] = "cache" => Answered(query[u], granted[u])'
  BY <1>2 DEF Answered
<1>4. \A q \in Queries : \A answer \in mCache'[q] : (\E i \in 1 .. started : answer = (q \in policy[i]))'
  BY <1>1
<1> QED
  BY <1>2, <1>3, <1>4 DEF Answered

LEMMA FindKeepsChecks ==
  ASSUME PermissionInv, NEW t \in Threads, Permission!Find(t)
  PROVE  PermissionInv'
<1> USE DEF PermissionInv, PermissionTypeOK
<1>1. /\ at[t] = "find" /\ registered # 0
      /\ pcOf' = [pcOf EXCEPT ![t] = registered]
      /\ at' = [at EXCEPT ![t] = "install"]
      /\ mAlive' = IF registered \in Permission!Held \cup {0} THEN mAlive
                   ELSE [mAlive EXCEPT ![registered] = TRUE]
      /\ UNCHANGED <<policy, gPermissionController, mCache, query, granted,
                     started, running, registered>>
  BY DEF Permission!Find, Permission!Found, Permission!Holds, Permission!GoesTo, Permission!NULL
<1>2. PermissionTypeOK'
  <2>1. mAlive' \in [1 .. MaxIncarnations -> BOOLEAN]
    BY <1>1
  <2> QED
    BY <1>1, <2>1
<1>3. ASSUME NEW u \in Threads \ {t}
      PROVE  /\ query'[u] = query[u] /\ at'[u] = at[u] /\ pcOf'[u] = pcOf[u]
             /\ pcOf[u] # 0 /\ mAlive'[pcOf[u]] => mAlive[pcOf[u]]
  <2>1. pcOf[u] \in Permission!Held
    BY DEF Permission!Held
  <2>2. pcOf[u] # registered \/ mAlive' = mAlive
    BY <1>1, <2>1
  <2> QED
    BY <1>1, <2>2
<1>4. at'[t] = "install" /\ pcOf'[t] # 0 /\ query'[t] \in Queries
  BY <1>1
<1> HIDE DEF PermissionInv, PermissionTypeOK
<1> QED
  BY <1>1, <1>2, <1>3, <1>4, StepKeepsChecks

LEMMA AskKeepsChecks ==
  ASSUME PermissionInv, NEW t \in Threads, Permission!Ask(t)
  PROVE  PermissionInv'
<1> USE DEF PermissionInv, PermissionTypeOK
<1>0. PICK i \in 1 .. started : i = pcOf[t]
  BY DEF Permission!Ask
<1> DEFINE yes == Permission!Answers(i) /\ query[t] \in policy[i]
<1>1. /\ at[t] = "ask" /\ query[t] \in Queries
      /\ mAlive' = [mAlive EXCEPT ![i] = mAlive[i] /\ Permission!Answers(i)]
      /\ granted' = [granted EXCEPT ![t] = yes]
      /\ at' = [at EXCEPT ![t] = IF granted'[t] THEN "cache" ELSE "refused"]
      /\ UNCHANGED <<policy, gPermissionController, mCache, query, pcOf,
                     started, running, registered>>
  BY <1>0 DEF Permission!Ask, Permission!Transact, Permission!GoesTo
<1>2. granted'[t] = yes /\ \A u \in Threads \ {t} : granted'[u] = granted[u] /\ at'[u] = at[u]
  BY <1>1
<1>3. i \in 1 .. MaxIncarnations
  BY IncarnationsAreCounted
<1>4. mAlive' \in [1 .. MaxIncarnations -> BOOLEAN]
      /\ \A j \in 1 .. MaxIncarnations : mAlive'[j] => mAlive[j] /\ (j = i => Permission!Answers(i))
  <2>1. (mAlive[i] /\ Permission!Answers(i)) \in BOOLEAN
    OBVIOUS
  <2> HIDE DEF PermissionInv
  <2> QED
    BY <1>1, <1>3, <2>1 DEF PermissionInv
<1>5. PermissionTypeOK'
  <2>1. granted' \in [Threads -> BOOLEAN]
    BY <1>1
  <2>2. at' \in [Threads -> {"idle", "begin", "find", "ask", "refused", "forget",
                            "install", "cache"}]
    BY <1>1
  <2> QED
    BY <1>1, <1>4, <2>1, <2>2
<1>6. \A q, answer : Answered(q, answer) <=> (\E j \in 1 .. started : answer = (q \in policy[j]))'
  BY <1>1 DEF Answered
<1>7. at'[t] = "cache" \/ mAlive'[i] => Answered(query[t], granted'[t])
  <2>1. CASE yes
    <3>1. granted'[t] = (query[t] \in policy[i])
      BY <1>2, <2>1
    <3> QED
      BY <3>1 DEF Answered
  <2>2. CASE ~yes
    <3>1. at'[t] = "refused" /\ granted'[t] = FALSE
      BY <1>1, <1>2, <2>2
    <3>2. mAlive'[i] => (query[t] \in policy[i]) = FALSE
      BY <1>3, <1>4, <2>2
    <3>3. mAlive'[i] => granted'[t] = (query[t] \in policy[i])
      BY <3>1, <3>2
    <3> QED
      BY <3>1, <3>3 DEF Answered
  <2> QED
    BY <2>1, <2>2
<1>8. ASSUME NEW u \in Threads
      PROVE  /\ at'[u] # "idle" => query[u] \in Queries
             /\ at'[u] \in {"ask", "refused", "install"} => pcOf[u] # 0
             /\ at'[u] = "refused" /\ mAlive'[pcOf[u]] => Answered(query[u], granted'[u])
             /\ at'[u] = "cache" => Answered(query[u], granted'[u])
  <2>1. CASE u = t
    BY <1>0, <1>1, <1>7, <2>1
  <2>2. CASE u # t
    <3>1. at'[u] = at[u] /\ granted'[u] = granted[u]
      BY <1>2, <2>2
    <3>2. at[u] = "refused" /\ mAlive'[pcOf[u]] => mAlive[pcOf[u]]
      <4>1. at[u] = "refused" => pcOf[u] \in 1 .. MaxIncarnations
        BY IncarnationsAreCounted
      <4> QED
        BY <1>4, <4>1
    <3> QED
      BY <3>1, <3>2
  <2> QED
    BY <2>1, <2>2
<1>9. \A u \in Threads :
        /\ at'[u] = "refused" /\ mAlive'[pcOf'[u]] => Answered(query[u], granted[u])'
        /\ at'[u] = "cache" => Answered(query[u], granted[u])'
  BY <1>1, <1>8 DEF Answered
<1>10. \A q \in Queries : \A answer \in mCache'[q] : (\E j \in 1 .. started : answer = (q \in policy[j]))'
  BY <1>1, <1>6
<1> QED
  BY <1>1, <1>5, <1>8, <1>9, <1>10 DEF Answered

LEMMA CacheKeepsChecks ==
  ASSUME PermissionInv, NEW t \in Threads, Permission!Cache(t)
  PROVE  PermissionInv'
<1> USE DEF PermissionInv, PermissionTypeOK
<1>0. PICK q \in Queries : q = query[t]
  BY DEF Permission!Cache
<1>1. /\ at[t] = "cache" /\ Answered(q, granted[t])
      /\ mCache' = [mCache EXCEPT ![q] = IF mCache[q] = {} THEN {granted[t]} ELSE mCache[q]]
      /\ query' = [query EXCEPT ![t] = Idle]
      /\ granted' = [granted EXCEPT ![t] = FALSE]
      /\ pcOf' = [pcOf EXCEPT ![t] = 0]
      /\ at' = [at EXCEPT ![t] = "idle"]
      /\ UNCHANGED <<policy, gPermissionController, started, running, registered, mAlive>>
  BY <1>0 DEF Permission!Cache, Permission!Holds, Permission!GoesTo, Permission!NULL, serviceVars,
     Permission!serviceVars
<1>2. PermissionTypeOK'
  <2>1. granted[t] \in BOOLEAN
    OBVIOUS
  <2>2. mCache' \in [Queries -> SUBSET BOOLEAN] /\ granted' \in [Threads -> BOOLEAN]
    BY <1>1, <2>1
  <2> QED
    BY <1>1, <2>2
<1>3. \A p, answer : Answered(p, answer) <=> (\E j \in 1 .. started : answer = (p \in policy[j]))'
  BY <1>1 DEF Answered
<1>4. ASSUME NEW u \in Threads
      PROVE  /\ at'[u] # "idle" => query'[u] \in Queries
             /\ at'[u] \in {"ask", "refused", "install"} => pcOf'[u] # 0
             /\ at'[u] = "refused" /\ mAlive'[pcOf'[u]] => Answered(query'[u], granted'[u])
             /\ at'[u] = "cache" => Answered(query'[u], granted'[u])
  <2>1. CASE u = t
    BY <1>1, <2>1
  <2>2. CASE u # t
    BY <1>1, <2>2
  <2> QED
    BY <2>1, <2>2
<1>5. \A u \in Threads :
        /\ at'[u] = "refused" /\ mAlive'[pcOf'[u]] => Answered(query[u], granted[u])'
        /\ at'[u] = "cache" => Answered(query[u], granted[u])'
  BY <1>1, <1>4 DEF Answered
<1>6. ASSUME NEW p \in Queries, NEW answer \in mCache'[p]
      PROVE  Answered(p, answer)
  <2>1. CASE answer \in mCache[p]
    BY <2>1
  <2>2. CASE answer \notin mCache[p]
    <3>1. p = q /\ answer = granted[t]
      BY <1>1, <2>2
    <3> QED
      BY <1>1, <3>1
  <2> QED
    BY <2>1, <2>2
<1>7. \A p \in Queries : \A answer \in mCache'[p] : (\E j \in 1 .. started : answer = (p \in policy[j]))'
  BY <1>3, <1>6
<1> QED
  BY <1>1, <1>2, <1>4, <1>5, <1>7 DEF Answered

LEMMA ChecksKeepInv ==
  ASSUME PermissionInv, Permission!Next
  PROVE  PermissionInv'
<1> USE DEF PermissionTypeOK, Permission!GoesTo, Permission!Holds, Permission!NULL, serviceVars,
            Permission!serviceVars
<1>0. PermissionTypeOK
  BY DEF PermissionInv
<1>1. ASSUME NEW t \in Threads, NEW q \in Queries, Permission!Check(t, q) PROVE PermissionInv'
  <2>1. /\ query' = [query EXCEPT ![t] = q] /\ at' = [at EXCEPT ![t] = "begin"]
        /\ UNCHANGED <<policy, gPermissionController, mCache, pcOf, granted,
                       started, running, registered, mAlive>>
    BY <1>1 DEF Permission!Check
  <2>2. PermissionTypeOK'
    BY <1>0, <2>1
  <2>3. at'[t] = "begin" /\ query'[t] = q
    BY <1>0, <2>1
  <2> HIDE DEF PermissionTypeOK
  <2> QED
    BY <1>0, <2>1, <2>2, <2>3, StepKeepsChecks DEF PermissionTypeOK
<1>2. ASSUME NEW t \in Threads, Permission!Begin(t) PROVE PermissionInv'
  <2>1. /\ at[t] = "begin" /\ pcOf' = [pcOf EXCEPT ![t] = gPermissionController]
        /\ at' = [at EXCEPT ![t] = IF gPermissionController = 0 THEN "find" ELSE "ask"]
        /\ UNCHANGED <<policy, gPermissionController, mCache, query, granted,
                       started, running, registered, mAlive>>
    BY <1>2 DEF Permission!Begin
  <2>2. PermissionTypeOK'
    BY <1>0, <2>1
  <2>3. /\ at'[t] \in {"find", "ask"} /\ (at'[t] = "ask" => pcOf'[t] # 0)
        /\ query'[t] \in Queries
    BY <1>0, <2>1 DEF PermissionInv
  <2> HIDE DEF PermissionTypeOK
  <2> QED
    BY <1>0, <2>1, <2>2, <2>3, StepKeepsChecks DEF PermissionTypeOK
<1>3. ASSUME NEW t \in Threads, Permission!Ask(t) PROVE PermissionInv'
  BY <1>3, AskKeepsChecks
<1>4. ASSUME NEW t \in Threads, Permission!Refused(t) PROVE PermissionInv'
  <2>1. /\ at[t] = "refused"
        /\ at' = [at EXCEPT ![t] = IF mAlive[pcOf[t]] THEN "cache" ELSE "forget"]
        /\ UNCHANGED <<policy, gPermissionController, mCache, query, pcOf, granted,
                       started, running, registered, mAlive>>
    BY <1>4 DEF Permission!Refused
  <2>2. PermissionTypeOK'
    BY <1>0, <2>1
  <2>3. /\ at'[t] \in {"cache", "forget"} /\ query'[t] \in Queries
        /\ at'[t] = "cache" => Answered(query'[t], granted[t])
    BY <1>0, <2>1 DEF PermissionInv
  <2> HIDE DEF PermissionTypeOK
  <2> QED
    BY <1>0, <2>1, <2>2, <2>3, StepKeepsChecks DEF PermissionTypeOK
<1>5. ASSUME NEW t \in Threads, Permission!ForgetController(t) PROVE PermissionInv'
  <2>1. /\ at[t] = "forget" /\ at' = [at EXCEPT ![t] = "find"]
        /\ gPermissionController' \in {gPermissionController, 0}
        /\ UNCHANGED <<policy, mCache, query, pcOf, granted,
                       started, running, registered, mAlive>>
    BY <1>5 DEF Permission!ForgetController
  <2>2. PermissionTypeOK'
    BY <1>0, <2>1
  <2>3. at'[t] = "find" /\ query'[t] \in Queries
    BY <1>0, <2>1 DEF PermissionInv
  <2> HIDE DEF PermissionTypeOK
  <2> QED
    BY <1>0, <2>1, <2>2, <2>3, StepKeepsChecks DEF PermissionTypeOK
<1>6. ASSUME NEW t \in Threads, Permission!Find(t) PROVE PermissionInv'
  BY <1>6, FindKeepsChecks
<1>7. ASSUME NEW t \in Threads, Permission!Install(t) PROVE PermissionInv'
  <2>1. /\ at[t] = "install" /\ at' = [at EXCEPT ![t] = "ask"]
        /\ gPermissionController' = pcOf[t]
        /\ UNCHANGED <<policy, mCache, query, pcOf, granted,
                       started, running, registered, mAlive>>
    BY <1>7 DEF Permission!Install
  <2>2. PermissionTypeOK'
    BY <1>0, <2>1
  <2>3. at'[t] = "ask" /\ query'[t] \in Queries /\ pcOf'[t] # 0
    BY <1>0, <2>1 DEF PermissionInv
  <2> HIDE DEF PermissionTypeOK
  <2> QED
    BY <1>0, <2>1, <2>2, <2>3, StepKeepsChecks DEF PermissionTypeOK
<1>8. ASSUME NEW t \in Threads, Permission!Cache(t) PROVE PermissionInv'
  BY <1>8, CacheKeepsChecks
<1>9. ASSUME Permission!Purge PROVE PermissionInv'
  <2>1. /\ mCache' = [q \in Queries |-> {}]
        /\ UNCHANGED <<policy, gPermissionController, query, at, pcOf, granted,
                       started, running, registered, mAlive>>
    BY <1>9 DEF Permission!Purge
  <2> QED
    BY <2>1 DEF PermissionInv, Answered
<1>10. ASSUME Permission!ServiceNext, UNCHANGED permissionVars PROVE PermissionInv'
  BY <1>10, ServiceKeepsChecks
<1> QED
  BY <1>1, <1>2, <1>3, <1>4, <1>5, <1>6, <1>7, <1>8, <1>9, <1>10
  DEF Permission!Next, Permission!Proceed, permissionVars, Permission!permissionVars

(* What is returned and cached was answered by a controller that was       *)
(* alive: none's death is taken for its refusal (checkPermission() of      *)
(* IServiceManager.cpp, PermissionCache::checkPermission).                 *)
THEOREM AnswersAreGivenAlways == BinderSpec => []AnswersAreGiven
<1> DEFINE all == <<vars, registryVars, poolVars, serviceVars, permissionVars, appVars, used>>
<1>1. BinderInit => ChecksInv
  BY IncarnationsAreCounted
  DEF BinderInit, Permission!Init, Permission!ServiceInit, Permission!NULL, ChecksInv,
      PermissionInv, PermissionTypeOK, Answered
<1>2. ChecksInv /\ [BinderNext]_all => ChecksInv'
  <2> SUFFICES ASSUME ChecksInv, [BinderNext]_all PROVE ChecksInv'
    OBVIOUS
  <2>1. CASE used = "permission" /\ OfPermission(Permission!Next)
    <3>1. PermissionInv'
      BY <2>1, ChecksKeepInv DEF ChecksInv, OfPermission
    <3> QED
      BY <2>1, <3>1 DEF OfPermission, ChecksInv
  <2>2. CASE used # "permission" /\ UNCHANGED <<mCache, at, used>>
    BY <2>2 DEF ChecksInv
  <2>3. CASE used = "permission" /\ UNCHANGED <<serviceVars, permissionVars, used>>
    BY <2>3 DEF ChecksInv, PermissionInv, PermissionTypeOK, Answered, serviceVars, permissionVars
  <2> QED
    BY <2>1, <2>2, <2>3
    DEF BinderNext, OfProxy, OfRegistry, OfPool, OfPermission, OfApps, permissionVars
<1>3. ChecksInv => AnswersAreGiven
  <2>1. ASSUME PermissionInv PROVE Permission!AnswersAreGiven
    <3> SUFFICES ASSUME NEW q \in Queries,
                        NEW answer \in mCache[q] \cup
                          {granted[t] : t \in {u \in Threads : at[u] = "cache" /\ query[u] = q}}
                 PROVE  Answered(q, answer)
      BY DEF Permission!AnswersAreGiven, Answered
    <3>1. CASE answer \in mCache[q]
      BY <2>1, <3>1 DEF PermissionInv
    <3>2. CASE answer \notin mCache[q]
      <4>1. PICK t \in Threads : at[t] = "cache" /\ query[t] = q /\ answer = granted[t]
        BY <3>2
      <4> QED
        BY <2>1, <4>1 DEF PermissionInv
    <3> QED
      BY <3>1, <3>2
  <2>2. ASSUME mCache = [q \in Queries |-> {}], at = [t \in Threads |-> "idle"]
        PROVE  Permission!AnswersAreGiven
    BY <2>2 DEF Permission!AnswersAreGiven
  <2> QED
    BY <2>1, <2>2 DEF ChecksInv, AnswersAreGiven
<1> QED
  BY <1>1, <1>2, <1>3, PTL DEF BinderSpec

-----------------------------------------------------------------------------
(* The growth of the thread pool (ThreadPool)                              *)
(*                                                                         *)
(* The driver asks for a thread once at a time: what it asked for is one   *)
(* command that has been read and not executed, or one thread that has not *)
(* registered, or lost.  So those that have registered and the one asked   *)
(* for are at most as many as the driver was told of.                      *)

PoolStates == {"none", "spawned", "ready", "woken", "spawning", "executing", "waiting"}
Transaction == <<"BR_TRANSACTION">>
SpawnFirst == <<"BR_SPAWN_LOOPER", "BR_TRANSACTION">>

Executing == {t \in Pool : state[t] \in {"executing", "waiting", "spawning"}}
Asked ==
  {t \in Pool : \/ state[t] = "spawned" /\ t \notin isMain
                \/ state[t] = "spawning"
                \/ state[t] = "woken" /\ mIn[t] = SpawnFirst}
Joined == {t \in Pool : t \notin isMain /\ state[t] \notin {"none", "spawned"}}

PoolInv ==
  /\ state \in [Pool -> PoolStates] /\ isMain \subseteq Pool
  /\ mMaxThreads \in Nat /\ requested \in BOOLEAN
  /\ mIn \in [Pool -> {<< >>, Transaction, SpawnFirst}]
  /\ \A t \in Pool : state[t] = "spawning" => mIn[t] = Transaction
  /\ \A t \in isMain : state[t] # "none"
  /\ mExecutingThreadsCount = Cardinality(Executing)
  /\ poolRegistered = Cardinality(Joined)
  /\ poolRegistered + (IF requested THEN 1 ELSE 0) <= mMaxThreads
  /\ \A t, u \in Asked : t = u
  /\ Asked # {} => requested

LEMMA PoolSetsAreFinite ==
  /\ IsFiniteSet(Executing) /\ Cardinality(Executing) \in Nat
  /\ IsFiniteSet(Joined) /\ Cardinality(Joined) \in Nat
<1>1. IsFiniteSet(Pool)
  BY BinderPartsAssumption DEF Grow!ThreadPoolAssumption, Grow!IsFiniteSet, IsFiniteSet
<1>2. Executing \subseteq Pool /\ Joined \subseteq Pool
  BY DEF Executing, Joined
<1> QED
  BY <1>1, <1>2, NoMore

LEMMA Commands ==
  /\ << >> \o Transaction = Transaction /\ <<"BR_SPAWN_LOOPER">> \o Transaction = SpawnFirst
  /\ Transaction # << >> /\ SpawnFirst # << >> /\ Transaction # SpawnFirst
  /\ Head(Transaction) = "BR_TRANSACTION" /\ Tail(Transaction) = << >>
  /\ Head(SpawnFirst) = "BR_SPAWN_LOOPER" /\ Tail(SpawnFirst) = Transaction
<1>1. Len(Transaction) = 1 /\ Len(SpawnFirst) = 2 /\ Len(<< >>) = 0
  BY DEF Transaction, SpawnFirst
<1>2. Transaction # << >> /\ SpawnFirst # << >> /\ Transaction # SpawnFirst
  BY <1>1
<1>3. Head(Transaction) = "BR_TRANSACTION"
  BY DEF Transaction
<1>4. Head(SpawnFirst) = "BR_SPAWN_LOOPER"
  BY DEF SpawnFirst
<1>5. << >> \o Transaction = Transaction
  BY DEF Transaction
<1>6. <<"BR_SPAWN_LOOPER">> \o Transaction = SpawnFirst
  <2> DEFINE ask == <<"BR_SPAWN_LOOPER">>
             names == {"BR_SPAWN_LOOPER", "BR_TRANSACTION"}
  <2>1. /\ ask \in Seq(names) /\ Len(ask) = 1 /\ ask[1] = "BR_SPAWN_LOOPER"
        /\ Transaction \in Seq(names) /\ Transaction[1] = "BR_TRANSACTION"
        /\ SpawnFirst \in Seq(names)
        /\ SpawnFirst[1] = "BR_SPAWN_LOOPER" /\ SpawnFirst[2] = "BR_TRANSACTION"
    <3>1. ask \in Seq(names) /\ Len(ask) = 1 /\ ask[1] = "BR_SPAWN_LOOPER"
      OBVIOUS
    <3>2. Transaction \in Seq(names) /\ Transaction[1] = "BR_TRANSACTION"
      BY DEF Transaction
    <3>3. SpawnFirst \in Seq(names)
      BY DEF SpawnFirst
    <3>4. SpawnFirst[1] = "BR_SPAWN_LOOPER" /\ SpawnFirst[2] = "BR_TRANSACTION"
      BY DEF SpawnFirst
    <3> QED
      BY <3>1, <3>2, <3>3, <3>4
  <2> HIDE DEF ask, names
  <2>2. /\ ask \o Transaction \in Seq(names) /\ Len(ask \o Transaction) = 2
        /\ (ask \o Transaction)[1] = ask[1] /\ (ask \o Transaction)[2] = Transaction[1]
    <3>1. ask \in Seq(names) /\ Transaction \in Seq(names) /\ Len(ask) = 1 /\ Len(Transaction) = 1
      BY <1>1, <2>1
    <3> QED
      BY <3>1, ConcatProperties
  <2>3. ask \o Transaction = SpawnFirst
    BY <1>1, <2>1, <2>2, SeqEqual
  <2> QED
    BY <2>3 DEF ask
<1>7. Tail(Transaction) = << >>
  BY DEF Transaction
<1>8. Tail(SpawnFirst) = Transaction
  BY DEF Transaction, SpawnFirst
<1> QED
  BY <1>2, <1>3, <1>4, <1>5, <1>6, <1>7, <1>8

LEMMA FreshIsNew ==
  Grow!Fresh # Nobody => Grow!Fresh \in Pool /\ state[Grow!Fresh] = "none"
<1>1. Grow!In("none") # {} => (CHOOSE t \in Grow!In("none") : TRUE) \in Grow!In("none")
  OBVIOUS
<1> QED
  BY <1>1 DEF Grow!Fresh, Grow!In

LEMMA PoolBegins ==
  ASSUME BinderInit
  PROVE  PoolInv
<1>1. /\ mExecutingThreadsCount = 0 /\ state = [t \in Pool |-> "none"] /\ isMain = {}
      /\ mMaxThreads \in 1 .. Cardinality(Pool) - 2
      /\ mIn = [t \in Pool |-> << >>] /\ requested = FALSE /\ poolRegistered = 0
  BY DEF BinderInit, Grow!Init, Grow!Cardinality, Cardinality
<1>2. mMaxThreads \in Nat
  BY <1>1
<1>3. Executing = {} /\ Joined = {} /\ Asked = {}
  BY <1>1 DEF Executing, Joined, Asked
<1>4. Cardinality({}) = 0
  BY FS_EmptySet
<1>5. state \in [Pool -> PoolStates] /\ \A t \in Pool : state[t] # "spawning"
  BY <1>1 DEF PoolStates
<1>6. mIn \in [Pool -> {<< >>, Transaction, SpawnFirst}]
  BY <1>1
<1>7. poolRegistered + (IF requested THEN 1 ELSE 0) <= mMaxThreads
  BY <1>1, <1>2
<1> QED
  BY <1>1, <1>2, <1>3, <1>4, <1>5, <1>6, <1>7 DEF PoolInv

(* A thread starts, as a main one.                                         *)
LEMMA StartsKeepPool ==
  ASSUME PoolInv, NEW f, f = Grow!Fresh, f # Nobody, Grow!Spawned(f),
         isMain' = isMain \cup {f},
         UNCHANGED <<mExecutingThreadsCount, mMaxThreads, mIn, requested, poolRegistered>>
  PROVE  PoolInv'
<1> USE DEF PoolInv
<1>1. f \in Pool /\ state[f] = "none" /\ state' = [state EXCEPT ![f] = "spawned"]
  BY FreshIsNew DEF Grow!Spawned
<1>2. /\ state' \in [Pool -> PoolStates] /\ state'[f] = "spawned"
      /\ \A t \in Pool \ {f} : state'[t] = state[t]
  BY <1>1 DEF PoolStates
<1>3. Executing' = Executing /\ Joined' = Joined /\ Asked' = Asked
  BY <1>1, <1>2 DEF Executing, Joined, Asked
<1> QED
  BY <1>1, <1>2, <1>3

LEMMA EnterLooperKeepsPool ==
  ASSUME PoolInv, NEW t \in Pool, Grow!EnterLooper(t)
  PROVE  PoolInv'
<1> USE DEF PoolInv
<1>1. /\ state[t] = "spawned" /\ state' = [state EXCEPT ![t] = "ready"]
      /\ requested' = (requested /\ t \in isMain)
      /\ poolRegistered' = IF t \in isMain THEN poolRegistered ELSE poolRegistered + 1
      /\ UNCHANGED <<mExecutingThreadsCount, mMaxThreads, isMain, mIn>>
  BY DEF Grow!EnterLooper
<1>2. /\ state' \in [Pool -> PoolStates] /\ state'[t] = "ready"
      /\ \A u \in Pool \ {t} : state'[u] = state[u]
  BY <1>1 DEF PoolStates
<1>3. Executing' = Executing
  BY <1>1, <1>2 DEF Executing
<1>4. CASE t \in isMain
  <2>1. Joined' = Joined /\ Asked' = Asked
    BY <1>1, <1>2, <1>4 DEF Joined, Asked
  <2>2. requested' = requested /\ poolRegistered' = poolRegistered
    BY <1>1, <1>4
  <2> QED
    BY <1>1, <1>2, <1>3, <2>1, <2>2
<1>5. CASE t \notin isMain
  <2>1. t \in Asked /\ requested
    BY <1>1, <1>5 DEF Asked
  <2>2. Asked' = {}
    BY <1>1, <1>2, <2>1 DEF Asked
  <2>3. Joined' = Joined \cup {t} /\ t \notin Joined
    BY <1>1, <1>2, <1>5 DEF Joined
  <2>4. Cardinality(Joined') = Cardinality(Joined) + 1
    BY <2>3, PoolSetsAreFinite, FS_AddElement
  <2>5. poolRegistered' = poolRegistered + 1 /\ requested' = FALSE /\ poolRegistered \in Nat
    BY <1>1, <1>5, PoolSetsAreFinite
  <2>6. poolRegistered' <= mMaxThreads
    BY <2>1, <2>5
  <2> QED
    BY <1>1, <1>2, <1>3, <2>2, <2>4, <2>5, <2>6
<1> QED
  BY <1>4, <1>5

LEMMA TalkKeepsPool ==
  ASSUME PoolInv, NEW t \in Pool, Grow!TalkWithDriver(t)
  PROVE  PoolInv'
<1> USE DEF PoolInv
<1>1. /\ state[t] = "ready" /\ state' = [state EXCEPT ![t] = "woken"]
      /\ mIn' = [mIn EXCEPT ![t] = IF Grow!Asks(t) THEN SpawnFirst ELSE Transaction]
      /\ requested' = (requested \/ Grow!Asks(t))
      /\ UNCHANGED <<mExecutingThreadsCount, mMaxThreads, isMain, poolRegistered>>
  BY Commands DEF Grow!TalkWithDriver, Transaction
<1>2. /\ state' \in [Pool -> PoolStates] /\ state'[t] = "woken"
      /\ mIn' \in [Pool -> {<< >>, Transaction, SpawnFirst}]
      /\ mIn'[t] = (IF Grow!Asks(t) THEN SpawnFirst ELSE Transaction)
      /\ \A u \in Pool \ {t} : state'[u] = state[u] /\ mIn'[u] = mIn[u]
  BY <1>1 DEF PoolStates
<1>3. Executing' = Executing /\ Joined' = Joined
  BY <1>1, <1>2 DEF Executing, Joined
<1>4. CASE Grow!Asks(t)
  <2>1. ~requested /\ poolRegistered < mMaxThreads /\ requested' = TRUE
    BY <1>1, <1>4 DEF Grow!Asks
  <2>2. Asked' \subseteq {t}
    BY <1>1, <1>2, <2>1 DEF Asked
  <2>3. poolRegistered + 1 <= mMaxThreads
    BY <2>1, PoolSetsAreFinite
  <2> QED
    BY <1>1, <1>2, <1>3, <2>1, <2>2, <2>3
<1>5. CASE ~Grow!Asks(t)
  <2>1. requested' = requested
    BY <1>1, <1>5
  <2>2. Asked' = Asked
    BY <1>1, <1>2, <1>5, Commands DEF Asked
  <2> QED
    BY <1>1, <1>2, <1>3, <2>1, <2>2
<1> QED
  BY <1>4, <1>5

LEMMA ExecuteKeepsPool ==
  ASSUME PoolInv, NEW t \in Pool, Grow!Execute(t)
  PROVE  PoolInv'
<1> USE DEF PoolInv
<1>1. /\ state[t] = "woken" /\ mIn[t] \in {Transaction, SpawnFirst}
      /\ mExecutingThreadsCount' = mExecutingThreadsCount + 1
      /\ mIn' = [mIn EXCEPT ![t] = Tail(mIn[t])]
      /\ UNCHANGED <<mMaxThreads, isMain, requested, poolRegistered>>
  BY DEF Grow!Execute
<1>2. PICK s \in {"spawning", "executing", "waiting"} :
        /\ state' = [state EXCEPT ![t] = s]
        /\ s = "spawning" <=> mIn[t] = SpawnFirst
  BY <1>1, Commands DEF Grow!Execute
<1>3. /\ state' \in [Pool -> PoolStates] /\ state'[t] = s
      /\ mIn' \in [Pool -> {<< >>, Transaction, SpawnFirst}]
      /\ mIn'[t] = (IF s = "spawning" THEN Transaction ELSE << >>)
      /\ \A u \in Pool \ {t} : state'[u] = state[u] /\ mIn'[u] = mIn[u]
  BY <1>1, <1>2, Commands DEF PoolStates
<1>4. Executing' = Executing \cup {t} /\ t \notin Executing
  BY <1>1, <1>3 DEF Executing
<1>5. Joined' = Joined /\ Asked' = Asked
  BY <1>1, <1>2, <1>3, Commands DEF Joined, Asked
<1>6. Cardinality(Executing') = Cardinality(Executing) + 1
  BY <1>4, PoolSetsAreFinite, FS_AddElement
<1> QED
  BY <1>1, <1>3, <1>5, <1>6

LEMMA SpawnKeepsPool ==
  ASSUME PoolInv, NEW t \in Pool, Grow!SpawnPooledThread(t)
  PROVE  PoolInv'
<1> USE DEF PoolInv
<1> DEFINE f == Grow!Fresh
<1>1. /\ state[t] = "spawning"
      /\ state' = [u \in Pool |-> IF u = t THEN "woken"
                                  ELSE IF u = f /\ mThreadPoolStarted THEN "spawned"
                                  ELSE state[u]]
      /\ mExecutingThreadsCount' = mExecutingThreadsCount - 1
      /\ UNCHANGED <<mMaxThreads, isMain, mIn, requested, poolRegistered>>
  BY DEF Grow!SpawnPooledThread, Grow!Executed
<1>2. f \in Pool => state[f] = "none" /\ f \notin isMain
  BY FreshIsNew, BinderPartsAssumption DEF Grow!ThreadPoolAssumption
<1> HIDE DEF f
<1>3. /\ state' \in [Pool -> PoolStates] /\ state'[t] = "woken"
      /\ \A u \in Pool \ {t} : \/ state'[u] = state[u]
                               \/ u = f /\ state'[u] = "spawned"
  BY <1>1 DEF PoolStates
<1>4. Executing' = Executing \ {t} /\ t \in Executing
  BY <1>1, <1>2, <1>3 DEF Executing
<1>5. Joined' = Joined
  BY <1>1, <1>2, <1>3 DEF Joined
<1>6. t \in Asked /\ requested /\ Asked' \subseteq {f}
  <2>1. t \in Asked /\ mIn[t] = Transaction
    BY <1>1 DEF Asked
  <2>2. \A u \in Pool \ {t} : u \notin Asked
    BY <2>1
  <2> QED
    BY <1>1, <1>3, <2>1, <2>2, Commands DEF Asked
<1>7. Cardinality(Executing') = Cardinality(Executing) - 1
  BY <1>4, PoolSetsAreFinite, FS_RemoveElement
<1>8. \A u \in isMain : state'[u] # "none"
  BY <1>3
<1>9. \A u \in Pool : state'[u] = "spawning" => mIn'[u] = Transaction
  BY <1>1, <1>3
<1> QED
  BY <1>1, <1>3, <1>5, <1>6, <1>7, <1>8, <1>9

LEMMA EndOfCallKeepsPool ==
  ASSUME PoolInv, NEW t \in Pool, Grow!EndOfCall(t)
  PROVE  PoolInv'
<1> USE DEF PoolInv
<1>1. /\ state[t] = "executing"
      /\ state' = [u \in Pool |-> IF u = t THEN "ready"
                                  ELSE IF state[u] = "waiting" THEN "executing" ELSE state[u]]
      /\ mExecutingThreadsCount' = mExecutingThreadsCount - 1
      /\ UNCHANGED <<mMaxThreads, isMain, mIn, requested, poolRegistered>>
  BY DEF Grow!EndOfCall, Grow!Executed
<1>2. /\ state' \in [Pool -> PoolStates] /\ state'[t] = "ready"
      /\ \A u \in Pool \ {t} : \/ state'[u] = state[u]
                               \/ state[u] = "waiting" /\ state'[u] = "executing"
  BY <1>1 DEF PoolStates
<1>3. Executing' = Executing \ {t} /\ t \in Executing
  BY <1>1, <1>2 DEF Executing
<1>4. Joined' = Joined /\ Asked' = Asked
  BY <1>1, <1>2 DEF Joined, Asked
<1>5. Cardinality(Executing') = Cardinality(Executing) - 1
  BY <1>3, PoolSetsAreFinite, FS_RemoveElement
<1>6. \A u \in isMain : state'[u] # "none"
  BY <1>2
<1>7. \A u \in Pool : state'[u] = "spawning" => mIn'[u] = Transaction
  BY <1>1, <1>2
<1> QED
  BY <1>1, <1>2, <1>4, <1>5, <1>6, <1>7

LEMMA PoolKeepsInv ==
  ASSUME PoolInv, [Grow!Next]_poolVars
  PROVE  PoolInv'
<1>1. CASE Grow!StartThreadPool
  BY <1>1, StartsKeepPool DEF Grow!StartThreadPool
<1>2. CASE Grow!JoinThreadPool
  BY <1>2, StartsKeepPool DEF Grow!JoinThreadPool
<1>3. CASE Grow!Arrive \/ Grow!BlockUntilThreadAvailable \/ Grow!Unblock \/ UNCHANGED poolVars
  <2>1. UNCHANGED <<mExecutingThreadsCount, mMaxThreads, state, isMain, mIn, requested,
                    poolRegistered>>
    BY <1>3 DEF Grow!Arrive, Grow!BlockUntilThreadAvailable, Grow!Unblock, poolVars
  <2>2. Executing' = Executing /\ Joined' = Joined /\ Asked' = Asked
    BY <2>1 DEF Executing, Joined, Asked
  <2> QED
    BY <2>1, <2>2 DEF PoolInv
<1>4. ASSUME NEW t \in Pool, Grow!Proceed(t) PROVE PoolInv'
  BY <1>4, EnterLooperKeepsPool, TalkKeepsPool, ExecuteKeepsPool, SpawnKeepsPool,
     EndOfCallKeepsPool DEF Grow!Proceed
<1> QED
  BY <1>1, <1>2, <1>3, <1>4 DEF Grow!Next

(* The threads that execute are counted, which blockUntilThreadAvailable() *)
(* relies on, and the driver is given no more threads than it was told of  *)
(* (ProcessState::spawnPooledThread, IPCThreadState::joinThreadPool and    *)
(* getAndExecuteCommand).                                                  *)
THEOREM ThreadsAreCountedAlways == BinderSpec => []ThreadsAreCounted
<1> DEFINE all == <<vars, registryVars, poolVars, serviceVars, permissionVars, appVars, used>>
<1>1. BinderInit => PoolInv
  BY PoolBegins
<1>2. PoolInv /\ [BinderNext]_all => PoolInv'
  <2> SUFFICES ASSUME PoolInv, [BinderNext]_all PROVE PoolInv'
    OBVIOUS
  <2>1. [Grow!Next]_poolVars
    BY DEF BinderNext, OfProxy, OfRegistry, OfPool, OfPermission, OfApps
  <2> QED
    BY <2>1, PoolKeepsInv
<1>3. PoolInv => ThreadsAreCounted
  <2> SUFFICES ASSUME PoolInv PROVE ThreadsAreCounted
    OBVIOUS
  <2> USE DEF PoolInv
  <2>1. Executing = Grow!In("executing") \cup Grow!In("waiting") \cup Grow!In("spawning")
    BY DEF Executing, Grow!In
  <2>2. Pool \ (Grow!In("none") \cup isMain) \subseteq Joined \cup Asked
    BY DEF Grow!In, Joined, Asked, PoolStates
  <2> DEFINE driven == Pool \ (Grow!In("none") \cup isMain)
  <2>3. IsFiniteSet(driven) /\ Cardinality(driven) <= mMaxThreads
    <3>1. CASE Asked = {}
      <4>1. driven \subseteq Joined
        BY <2>2, <3>1
      <4> HIDE DEF driven
      <4> QED
        BY <4>1, NoMore, PoolSetsAreFinite
    <3>2. CASE Asked # {}
      <4>1. PICK t \in Pool : Asked \subseteq {t}
        BY <3>2 DEF Asked
      <4>2. driven \subseteq Joined \cup {t}
        BY <2>2, <4>1
      <4> HIDE DEF driven
      <4>3. IsFiniteSet(driven) /\ Cardinality(driven) \in Nat
            /\ Cardinality(driven) <= Cardinality(Joined) + 1
        BY <4>2, OneMore, PoolSetsAreFinite
      <4> QED
        BY <3>2, <4>3, PoolSetsAreFinite
    <3> QED
      BY <3>1, <3>2
  <2> QED
    BY <2>1, <2>3 DEF ThreadsAreCounted, Grow!ThreadsAreCounted, Grow!Cardinality, Cardinality
<1> QED
  BY <1>1, <1>2, <1>3, PTL DEF BinderSpec

-----------------------------------------------------------------------------
(* The registry of services (ServiceManager)                               *)
(*                                                                         *)
(* Each name that has a handle counts once in the strong references of the *)
(* driver's reference behind it, so a reference is there exactly as long   *)
(* as some name has its handle: no handle is given to another service      *)
(* while a name still has it.  Without a second name for a service, the    *)
(* one name is the cookie of its death notification.                       *)

References == [node : Services \cup {Nothing}, strong : Nat,
               cookie : Names \cup {Nothing}, notice : Registry!Notices]

(* A reference is for a node, and watched, as long as it is held at all.   *)
Whole(r, gone) ==
  /\ r.notice # "none" <=> r.cookie # Nothing
  /\ r.cookie # Nothing <=> r.node # Nothing
  /\ r.strong = 0 => r = Registry!NoRef
  /\ r.node = Nothing => r.strong = 0
  /\ r.notice \in {"queued", "delivered"} => r.node \in gone

RefsTyped ==
  /\ ref \in [Registry!Handles -> References]
  /\ svc \in [Names -> Registry!Handles \cup {0}]
  /\ owner \in [Names -> Services \cup {Nothing}]
  /\ unread \subseteq deadServices /\ deadServices \subseteq Services
  /\ aliased \in BOOLEAN

RefsInv ==
  /\ RefsTyped
  /\ \A h \in Registry!Handles : Whole(ref[h], deadServices) /\ ref[h].strong = Cardinality(Having(Names, svc, h))
  /\ \A n \in Names : svc[n] # 0 => ref[svc[n]].node = owner[n]
  /\ \A g, h \in Registry!Handles : ref[g].node = ref[h].node => g = h \/ ref[g].node = Nothing

SoleInv ==
  ~aliased =>
    /\ \A h \in Registry!Handles :
         ref[h] # Registry!NoRef => ref[h].strong = 1 /\ svc[ref[h].cookie] = h
    /\ \A n \in Names : owner[n] \notin deadServices \cup {Nothing} => svc[n] # 0

ListInv ==
  /\ svclist \in Seq(Names) /\ Len(svclist) = Cardinality(Registry!Listed)
  /\ lister \in [at : Nat, missing : SUBSET Names, on : BOOLEAN]
  /\ lister.at <= Len(svclist)
  /\ IF lister.on THEN \A n \in lister.missing : \E i \in lister.at + 1 .. Len(svclist) : svclist[i] = n
     ELSE lister.missing = {}
  /\ \A n \in Names : svc[n] # 0 \/ owner[n] # Nothing => n \in Registry!Listed

(* The handle of a service is its own, or a free one if it has none.       *)
LEMMA HandleOf ==
  ASSUME RefsTyped, NEW s \in Services, NEW h, h = Registry!HandleFor(s),
         \E g \in Registry!Handles : ref[g] = Registry!NoRef \/ ref[g].node = s
  PROVE  /\ h \in Registry!Handles
         /\ \/ ref[h].node = s
            \/ ref[h] = Registry!NoRef /\ \A g \in Registry!Handles : ref[g].node # s
<1>1. CASE \E g \in Registry!Handles : ref[g].node = s
  BY <1>1 DEF Registry!HandleFor
<1>2. CASE \A g \in Registry!Handles : ref[g].node # s
  <2> DEFINE free == {g \in Registry!Handles : ref[g] = Registry!NoRef}
  <2>1. free \subseteq Nat /\ free # {}
    BY <1>2 DEF Registry!Handles
  <2>2. \E x \in free : \A y \in free : x <= y
    <3> HIDE DEF free
    <3> QED
      BY <2>1, Least
  <2>3. \E x \in Registry!Handles :
          ref[x] = Registry!NoRef /\ \A g \in Registry!Handles : ref[g] = Registry!NoRef => x <= g
    BY <2>2
  <2>4. h = CHOOSE x \in Registry!Handles :
          ref[x] = Registry!NoRef /\ \A g \in Registry!Handles : ref[g] = Registry!NoRef => x <= g
    BY <1>2 DEF Registry!HandleFor
  <2> QED
    BY <1>2, <2>3, <2>4
<1> QED
  BY <1>1, <1>2

(* What a name's losing a handle does to the reference behind it.          *)
Less(r) == IF r.strong = 1 THEN Registry!NoRef ELSE [r EXCEPT !.strong = r.strong - 1]
More(r, s, name, strong) ==
  [node   |-> s,
   strong |-> strong,
   cookie |-> IF r.cookie = Nothing THEN name ELSE r.cookie,
   notice |-> IF r.cookie # Nothing THEN r.notice
              ELSE IF s \in deadServices THEN "queued" ELSE "armed"]

LEMMA ReferencesAdded ==
  ASSUME RefsTyped, NEW s \in Services, NEW name \in Names, NEW h \in Registry!Handles,
         ref' = Registry!Linked(Registry!Overridden(name, h), h, s, name)
  PROVE  /\ ref' = [k \in Registry!Handles |-> ref'[k]]
         /\ ref'[h] = More(ref[h], s, name,
                           IF svc[name] = h THEN ref[h].strong ELSE ref[h].strong + 1)
         /\ \A k \in Registry!Handles \ {h} :
              ref'[k] = IF k = svc[name] THEN Less(ref[k]) ELSE ref[k]
<1> DEFINE r == Registry!Overridden(name, h)
<1> USE DEF RefsTyped
<1>0. 0 \notin Registry!Handles
  BY DEF Registry!Handles
<1>1. /\ r = [k \in Registry!Handles |-> r[k]]
      /\ r[h] = (IF svc[name] = h THEN [ref[h] EXCEPT !.strong = ref[h].strong - 1] ELSE ref[h])
      /\ \A k \in Registry!Handles \ {h} : r[k] = IF k = svc[name] THEN Less(ref[k]) ELSE ref[k]
  <2>1. CASE svc[name] = 0
    BY <1>0, <2>1 DEF Registry!Overridden
  <2>2. CASE svc[name] = h
    BY <1>0, <2>2 DEF Registry!Overridden, Registry!Released
  <2>3. CASE svc[name] \in Registry!Handles \ {h}
    <3>1. r = IF ref[svc[name]].strong = 1
              THEN [ref EXCEPT ![svc[name]] = Registry!NoRef]
              ELSE [ref EXCEPT ![svc[name]] = [ref[svc[name]] EXCEPT !.strong = ref[svc[name]].strong - 1]]
      BY <1>0, <2>3 DEF Registry!Overridden, Registry!Released
    <3> QED
      BY <2>3, <3>1 DEF Less
  <2> QED
    BY <2>1, <2>2, <2>3
<1>2. /\ ref' = [k \in Registry!Handles |-> ref'[k]]
      /\ ref'[h] = More(r[h], s, name, r[h].strong + 1)
      /\ \A k \in Registry!Handles \ {h} : ref'[k] = r[k]
  <2>1. ref' = Registry!Linked(r, h, s, name)
    OBVIOUS
  <2> HIDE DEF r
  <2>2. ref' = [r EXCEPT ![h] = More(r[h], s, name, r[h].strong + 1)]
    BY <2>1 DEF Registry!Linked, More
  <2> QED
    BY <1>1, <2>2
<1> HIDE DEF r
<1>3. ref[h] \in References
  OBVIOUS
<1>4. /\ r[h].cookie = ref[h].cookie /\ r[h].notice = ref[h].notice
      /\ r[h].strong + 1 = IF svc[name] = h THEN ref[h].strong ELSE ref[h].strong + 1
  BY <1>1, <1>3 DEF References
<1>5. ref'[h] = More(ref[h], s, name, IF svc[name] = h THEN ref[h].strong ELSE ref[h].strong + 1)
  BY <1>2, <1>4 DEF More
<1> QED
  BY <1>1, <1>2, <1>5

LEMMA NamesAreFinite == IsFiniteSet(Names) /\ Nothing \notin Names \cup Services /\ MaxHandle \in Nat
  BY BinderPartsAssumption DEF Registry!ServiceManagerAssumption, Registry!IsFiniteSet, IsFiniteSet

(* A name gets a handle, or none: what is counted behind each.             *)
LEMMA NamesCounted ==
  ASSUME RefsTyped, NEW name \in Names, NEW h \in Registry!Handles \cup {0},
         svc' = [svc EXCEPT ![name] = h]
  PROVE  \A k \in Registry!Handles :
           Recounted(Cardinality(Having(Names, svc', k)), Cardinality(Having(Names, svc, k)),
                     k, svc[name], h)
<1> SUFFICES ASSUME NEW k \in Registry!Handles
             PROVE  Recounted(Cardinality(Having(Names, svc', k)), Cardinality(Having(Names, svc, k)),
                              k, svc[name], h)
  OBVIOUS
<1>1. svc'[name] = h /\ \A n \in Names \ {name} : svc'[n] = svc[n]
  BY DEF RefsTyped
<1>2. Recounted(Cardinality(Having(Names, svc', k)), Cardinality(Having(Names, svc, k)),
                k, svc[name], svc'[name])
  BY <1>1, NamesAreFinite, HavingChanges
<1> QED
  BY <1>1, <1>2

(* A handle that two names have is counted twice.                          *)
LEMMA NotTheLast ==
  ASSUME RefsInv, NEW n \in Names, NEW m \in Names, n # m, svc[n] = svc[m], svc[n] # 0
  PROVE  ref[svc[n]].strong > 1
<1> DEFINE k == svc[n]
           rest == {i \in Names \ {m} : svc[i] = k}
<1>1. k \in Registry!Handles
  BY DEF RefsInv, RefsTyped
<1>2. IsFiniteSet(rest) /\ Cardinality(rest) \in Nat /\ n \in rest /\ m \notin rest
  BY NamesAreFinite, NoMore
<1>3. Cardinality(rest) # 0
  BY <1>2, FS_EmptySet
<1>4. Having(Names, svc, k) = rest \cup {m}
  BY DEF Having
<1>5. ref[k].strong = Cardinality(Having(Names, svc, k))
  BY <1>1 DEF RefsInv
<1> HIDE DEF rest, k
<1>6. Cardinality(rest \cup {m}) = Cardinality(rest) + 1
  BY <1>2, FS_AddElement
<1>7. ref[k].strong > 1
  BY <1>2, <1>3, <1>4, <1>5, <1>6
<1> QED
  BY <1>7 DEF k

LEMMA HeldHandles ==
  ASSUME RefsInv, NEW n \in Names, svc[n] # 0
  PROVE  svc[n] \in Registry!Handles /\ ref[svc[n]].strong > 0 /\ ref[svc[n]] # Registry!NoRef
<1>1. svc[n] \in Registry!Handles
  BY DEF RefsInv, RefsTyped
<1>2. Cardinality(Having(Names, svc, svc[n])) > 0
  BY NamesAreFinite, HavingIsFinite
<1> QED
  BY <1>1, <1>2 DEF RefsInv, Registry!NoRef

LEMMA AddKeepsRefs ==
  ASSUME RefsInv, NEW s \in Services, NEW name \in Names, Registry!AddService(s, name)
  PROVE  RefsInv'
<1> DEFINE h == Registry!HandleFor(s)
<1>1. /\ h \in Registry!Handles
      /\ \/ ref[h].node = s
         \/ ref[h] = Registry!NoRef /\ \A g \in Registry!Handles : ref[g].node # s
  BY HandleOf DEF RefsInv, Registry!AddService
<1>2. /\ ref' = [k \in Registry!Handles |-> ref'[k]]
      /\ ref'[h] = More(ref[h], s, name,
                        IF svc[name] = h THEN ref[h].strong ELSE ref[h].strong + 1)
      /\ \A k \in Registry!Handles \ {h} :
           ref'[k] = IF k = svc[name] THEN Less(ref[k]) ELSE ref[k]
  BY <1>1, ReferencesAdded DEF RefsInv, Registry!AddService
<1>3. /\ svc' = [svc EXCEPT ![name] = h] /\ owner' = [owner EXCEPT ![name] = s]
      /\ deadServices' = deadServices /\ unread' = unread \ {s}
      /\ aliased' \in BOOLEAN
  BY DEF Registry!AddService, RefsInv, RefsTyped
<1>4. \A k \in Registry!Handles :
        Recounted(Cardinality(Having(Names, svc', k)), Cardinality(Having(Names, svc, k)),
                  k, svc[name], h)
  BY <1>1, <1>3, NamesCounted DEF RefsInv
<1> HIDE DEF h
<1>5. \A k \in Registry!Handles : ref[k] \in References
  BY DEF RefsInv, RefsTyped
<1>6. svc[name] = h => ref[h].strong > 0
  BY <1>1, HeldHandles DEF Registry!Handles
<1>7. /\ ref'[h] \in References /\ ref'[h].node = s /\ Whole(ref'[h], deadServices')
      /\ ref'[h].strong = Cardinality(Having(Names, svc', h))
  <2>1. ref'[h].strong = (IF svc[name] = h THEN ref[h].strong ELSE ref[h].strong + 1)
        /\ ref'[h].strong \in Nat /\ ref'[h].strong # 0 /\ ref'[h].node = s
    BY <1>1, <1>2, <1>5, <1>6 DEF More, References
  <2>2. ref'[h] \in References
    BY <1>1, <1>2, <1>5, <2>1 DEF More, References, Registry!Notices
  <2>3. Whole(ref[h], deadServices)
    BY <1>1 DEF RefsInv
  <2>4. Whole(ref'[h], deadServices')
    <3>1. CASE ref[h].cookie = Nothing
      BY <1>1, <1>2, <1>3, <2>1, <3>1, NamesAreFinite DEF Whole, More
    <3>2. CASE ref[h].cookie # Nothing
      <4>1. ref[h].node = s
        BY <1>1, <3>2 DEF Registry!NoRef
      <4> QED
        BY <1>1, <1>2, <1>3, <2>1, <2>3, <3>2, <4>1, NamesAreFinite DEF Whole, More
    <3> QED
      BY <3>1, <3>2
  <2>5. ref[h].strong = Cardinality(Having(Names, svc, h)) /\ ref[h].strong \in Nat
    BY <1>1, <1>5 DEF RefsInv, References
  <2>6. ref'[h].strong = Cardinality(Having(Names, svc', h))
    BY <1>1, <1>4, <2>1, <2>5 DEF Recounted
  <2> QED
    BY <2>1, <2>2, <2>4, <2>6
<1>8. ASSUME NEW k \in Registry!Handles \ {h}
      PROVE  /\ ref'[k] \in References /\ ref'[k].node \in {ref[k].node, Nothing} /\ Whole(ref'[k], deadServices')
             /\ ref'[k].strong = Cardinality(Having(Names, svc', k))
  <2>1. /\ ref[k] \in References /\ Whole(ref[k], deadServices)
        /\ ref[k].strong = Cardinality(Having(Names, svc, k)) /\ ref[k].strong \in Nat
    BY <1>5 DEF RefsInv, References
  <2>2. CASE k # svc[name]
    <3>1. ref'[k] = ref[k]
      BY <1>2, <2>2
    <3>2. Cardinality(Having(Names, svc', k)) = Cardinality(Having(Names, svc, k))
      BY <1>4, <2>1, <2>2 DEF Recounted
    <3> QED
      BY <1>3, <2>1, <3>1, <3>2 DEF Whole
  <2>3. CASE k = svc[name]
    <3>1. ref'[k] = Less(ref[k])
      BY <1>2, <2>3
    <3>2. Cardinality(Having(Names, svc', k)) = Cardinality(Having(Names, svc, k)) - 1
      BY <1>4, <2>1, <2>3 DEF Recounted
    <3>3. ref[k].strong > 0
      BY <2>3, HeldHandles DEF Registry!Handles
    <3>4. CASE ref[k].strong = 1
      BY <1>3, <2>1, <3>1, <3>2, <3>4, NamesAreFinite
         DEF Less, Whole, References, Registry!NoRef, Registry!Notices
    <3>5. CASE ref[k].strong # 1
      <4>1. ref'[k] = [ref[k] EXCEPT !.strong = ref[k].strong - 1]
        BY <3>1, <3>5 DEF Less
      <4>2. ref'[k] \in References /\ ref'[k].strong = ref[k].strong - 1 /\ ref'[k].strong # 0
            /\ ref'[k].node = ref[k].node /\ ref'[k].cookie = ref[k].cookie
            /\ ref'[k].notice = ref[k].notice
        BY <2>1, <3>3, <3>5, <4>1 DEF References
      <4> QED
        BY <1>3, <2>1, <3>2, <3>3, <4>2 DEF Whole
    <3> QED
      BY <3>4, <3>5
  <2> QED
    BY <2>2, <2>3
<1>9. RefsTyped'
  <2>1. ref' \in [Registry!Handles -> References]
    BY <1>2, <1>7, <1>8
  <2> QED
    BY <1>1, <1>3, <2>1 DEF RefsInv, RefsTyped
<1>10. \A k \in Registry!Handles : Whole(ref'[k], deadServices') /\ ref'[k].strong = Cardinality(Having(Names, svc', k))
  BY <1>7, <1>8
<1>11. ASSUME NEW n \in Names, svc'[n] # 0 PROVE ref'[svc'[n]].node = owner'[n]
  <2>1. CASE n = name
    BY <1>3, <1>7, <2>1 DEF RefsInv, RefsTyped
  <2>2. CASE n # name
    <3>1. svc'[n] = svc[n] /\ owner'[n] = owner[n] /\ svc[n] # 0
      BY <1>3, <1>11, <2>2 DEF RefsInv, RefsTyped
    <3>2. ref[svc[n]].node = owner[n] /\ svc[n] \in Registry!Handles /\ ref[svc[n]] # Registry!NoRef
      BY <3>1, HeldHandles DEF RefsInv
    <3>3. CASE svc[n] = h
      BY <1>1, <1>7, <3>1, <3>2, <3>3
    <3>4. CASE svc[n] # h
      <4>1. CASE svc[n] # svc[name]
        BY <1>2, <3>1, <3>2, <3>4, <4>1
      <4>2. CASE svc[n] = svc[name]
        <5>1. ref[svc[n]].strong # 1
          BY <2>2, <3>1, <3>2, <4>2, NotTheLast, <1>5 DEF References
        <5> QED
          BY <1>2, <1>5, <3>1, <3>2, <3>4, <4>2, <5>1 DEF Less, References
      <4> QED
        BY <4>1, <4>2
    <3> QED
      BY <3>3, <3>4
  <2> QED
    BY <2>1, <2>2
<1>12. \A g, k \in Registry!Handles : ref'[g].node = ref'[k].node => g = k \/ ref'[g].node = Nothing
  <2>1. \A k \in Registry!Handles \ {h} : ref'[k].node # s
    <3>1. \A k \in Registry!Handles \ {h} : ref[k].node # s
      BY <1>1, NamesAreFinite DEF RefsInv
    <3> QED
      BY <1>8, <3>1, NamesAreFinite
  <2>2. \A k \in Registry!Handles \ {h} : ref'[k].node \in {ref[k].node, Nothing}
    BY <1>8
  <2>3. \A g, k \in Registry!Handles : ref[g].node = ref[k].node => g = k \/ ref[g].node = Nothing
    BY DEF RefsInv
  <2> QED
    BY <1>7, <2>1, <2>2, <2>3
<1> QED
  BY <1>9, <1>10, <1>11, <1>12 DEF RefsInv

LEMMA HasCookie ==
  ASSUME RefsInv, NEW k \in Registry!Handles, ref[k] # Registry!NoRef
  PROVE  ref[k].cookie \in Names
<1>1. ref[k] \in References /\ Whole(ref[k], deadServices)
  BY DEF RefsInv, RefsTyped
<1>2. ref[k].cookie # Nothing
  BY <1>1 DEF Whole
<1> QED
  BY <1>1, <1>2 DEF References

LEMMA AddKeepsSole ==
  ASSUME RefsInv, SoleInv, NEW s \in Services, NEW name \in Names, Registry!AddService(s, name)
  PROVE  SoleInv'
<1> DEFINE h == Registry!HandleFor(s)
<1>1. /\ h \in Registry!Handles
      /\ \/ ref[h].node = s
         \/ ref[h] = Registry!NoRef /\ \A g \in Registry!Handles : ref[g].node # s
  BY HandleOf DEF RefsInv, Registry!AddService
<1>2. /\ ref'[h] = More(ref[h], s, name,
                        IF svc[name] = h THEN ref[h].strong ELSE ref[h].strong + 1)
      /\ \A k \in Registry!Handles \ {h} :
           ref'[k] = IF k = svc[name] THEN Less(ref[k]) ELSE ref[k]
  BY <1>1, ReferencesAdded DEF RefsInv, Registry!AddService
<1>3. /\ svc' = [svc EXCEPT ![name] = h] /\ owner' = [owner EXCEPT ![name] = s]
      /\ deadServices' = deadServices
      /\ aliased' = (aliased \/ {n \in Names \ {name} : svc[n] = h} # {})
  BY DEF Registry!AddService
<1> HIDE DEF h
<1> SUFFICES ASSUME ~aliased'
             PROVE  /\ \A k \in Registry!Handles :
                         ref'[k] # Registry!NoRef => ref'[k].strong = 1 /\ svc'[ref'[k].cookie] = k
                    /\ \A n \in Names : owner'[n] \notin deadServices' \cup {Nothing} => svc'[n] # 0
  BY DEF SoleInv
<1>4. aliased = FALSE /\ \A n \in Names \ {name} : svc[n] # h
  BY <1>3 DEF RefsInv, RefsTyped
<1>5. /\ \A k \in Registry!Handles :
           ref[k] # Registry!NoRef => ref[k].strong = 1 /\ svc[ref[k].cookie] = k
      /\ \A n \in Names : owner[n] \notin deadServices \cup {Nothing} => svc[n] # 0
  BY <1>4 DEF SoleInv
<1>6. /\ svc'[name] = h /\ owner'[name] = s /\ h # 0
      /\ \A n \in Names \ {name} : svc'[n] = svc[n] /\ owner'[n] = owner[n]
  BY <1>1, <1>3 DEF RefsInv, RefsTyped, Registry!Handles
<1>7. ASSUME NEW k \in Registry!Handles
      PROVE  ref[k] # Registry!NoRef => ref[k].cookie \in Names
  BY HasCookie
<1>8. ref'[h].strong = 1 /\ svc'[ref'[h].cookie] = h
  <2>1. CASE ref[h] = Registry!NoRef
    <3>1. svc[name] # h
      BY <2>1, <1>6, HeldHandles
    <3> QED
      BY <1>2, <1>6, <2>1, <3>1 DEF More, Registry!NoRef
  <2>2. CASE ref[h] # Registry!NoRef
    <3>1. ref[h].strong = 1 /\ svc[ref[h].cookie] = h /\ ref[h].cookie \in Names
      BY <1>1, <1>5, <1>7, <2>2
    <3>2. ref[h].cookie = name /\ svc[name] = h
      BY <1>4, <3>1
    <3> QED
      BY <1>2, <1>6, <3>1, <3>2, NamesAreFinite DEF More
  <2> QED
    BY <2>1, <2>2
<1>9. ASSUME NEW k \in Registry!Handles \ {h}, ref'[k] # Registry!NoRef
      PROVE  ref'[k].strong = 1 /\ svc'[ref'[k].cookie] = k
  <2>1. CASE k = svc[name]
    <3>1. ref[k] # Registry!NoRef /\ ref[k].strong = 1
      BY <1>5, <1>6, <2>1, HeldHandles DEF Registry!Handles
    <3> QED
      BY <1>2, <1>9, <2>1, <3>1 DEF Less
  <2>2. CASE k # svc[name]
    <3>1. ref'[k] = ref[k]
      BY <1>2, <2>2
    <3>2. ref[k].strong = 1 /\ svc[ref[k].cookie] = k /\ ref[k].cookie \in Names
      BY <1>5, <1>7, <1>9, <3>1
    <3> QED
      BY <1>6, <2>2, <3>1, <3>2
  <2> QED
    BY <2>1, <2>2
<1> QED
  BY <1>3, <1>5, <1>6, <1>8, <1>9

LEMMA DieKeepsRefs ==
  ASSUME RefsInv, SoleInv, NEW s \in Services, Registry!Die(s)
  PROVE  RefsInv' /\ SoleInv'
<1>1. /\ deadServices' = deadServices \cup {s} /\ unread' \subseteq deadServices'
      /\ ref' = [k \in Registry!Handles |->
                   IF ref[k].node = s /\ ref[k].notice = "armed"
                   THEN [ref[k] EXCEPT !.notice = "queued"] ELSE ref[k]]
      /\ svc' = svc /\ owner' = owner /\ aliased' = aliased
  BY DEF Registry!Die, RefsInv, RefsTyped
<1>2. ASSUME NEW k \in Registry!Handles
      PROVE  /\ ref'[k] \in References /\ Whole(ref'[k], deadServices')
             /\ ref'[k].node = ref[k].node /\ ref'[k].strong = ref[k].strong
             /\ ref'[k].cookie = ref[k].cookie
             /\ ref[k] = Registry!NoRef => ref'[k] = Registry!NoRef
  <2>1. ref[k] \in References /\ Whole(ref[k], deadServices)
    BY DEF RefsInv, RefsTyped
  <2>2. CASE ref[k].node = s /\ ref[k].notice = "armed"
    <3>1. ref'[k] = [ref[k] EXCEPT !.notice = "queued"]
      BY <1>1, <2>2
    <3>2. /\ ref'[k] \in References /\ ref'[k].notice = "queued"
          /\ ref'[k].node = ref[k].node /\ ref'[k].strong = ref[k].strong
          /\ ref'[k].cookie = ref[k].cookie
      BY <2>1, <3>1 DEF References, Registry!Notices
    <3>3. ref[k] # Registry!NoRef
      BY <2>2 DEF Registry!NoRef
    <3> QED
      BY <1>1, <2>1, <2>2, <3>2, <3>3 DEF Whole
  <2>3. CASE ~(ref[k].node = s /\ ref[k].notice = "armed")
    <3>1. ref'[k] = ref[k]
      BY <1>1, <2>3
    <3> QED
      BY <1>1, <2>1, <3>1 DEF Whole
  <2> QED
    BY <2>2, <2>3
<1>3. RefsTyped'
  <2>1. ref' \in [Registry!Handles -> References]
    BY <1>1, <1>2
  <2> QED
    BY <1>1, <2>1 DEF RefsInv, RefsTyped
<1>4. /\ \A k \in Registry!Handles :
           Whole(ref'[k], deadServices') /\ ref'[k].strong = Cardinality(Having(Names, svc', k))
      /\ \A n \in Names : svc'[n] # 0 => ref'[svc'[n]].node = owner'[n]
      /\ \A g, k \in Registry!Handles : ref'[g].node = ref'[k].node => g = k \/ ref'[g].node = Nothing
  <2>1. \A k \in Registry!Handles :
           Whole(ref'[k], deadServices') /\ ref'[k].strong = Cardinality(Having(Names, svc', k))
    BY <1>1, <1>2 DEF RefsInv
  <2>2. \A n \in Names : svc'[n] # 0 => ref'[svc'[n]].node = owner'[n]
    BY <1>1, <1>2 DEF RefsInv, RefsTyped
  <2>3. \A g, k \in Registry!Handles : ref'[g].node = ref'[k].node => g = k \/ ref'[g].node = Nothing
    BY <1>2 DEF RefsInv
  <2> QED
    BY <2>1, <2>2, <2>3
<1>5. SoleInv'
  BY <1>1, <1>2 DEF SoleInv
<1> QED
  BY <1>3, <1>4, <1>5 DEF RefsInv

Noticed(k, h) == IF k = h THEN [ref[k] EXCEPT !.notice = "delivered"] ELSE ref[k]

LEMMA NoticeKeepsRefs ==
  ASSUME RefsInv, SoleInv, NEW h \in Registry!Handles, Registry!DeathNotice(h)
  PROVE  RefsInv' /\ SoleInv'
<1> DEFINE name == ref[h].cookie
           old == svc[name]
<1>1. /\ ref[h] \in References /\ Whole(ref[h], deadServices) /\ ref[h].notice = "queued"
      /\ deadServices' = deadServices /\ unread' = unread /\ owner' = owner
      /\ aliased' = aliased /\ svc' = [svc EXCEPT ![name] = 0]
  BY DEF RefsInv, RefsTyped, Registry!DeathNotice
<1>2. /\ name \in Names /\ ref[h].node \in deadServices /\ ref[h] # Registry!NoRef
      /\ old \in Registry!Handles \cup {0}
  BY <1>1, NamesAreFinite DEF References, Whole, Registry!NoRef, RefsInv, RefsTyped
<1>3. /\ ref' = [k \in Registry!Handles |-> ref'[k]]
      /\ \A k \in Registry!Handles : ref'[k] = IF k = old THEN Less(Noticed(k, h)) ELSE Noticed(k, h)
  <2> DEFINE read == [ref EXCEPT ![h].notice = "delivered"]
  <2>1. ref' = IF old = 0 THEN read ELSE Registry!Released(read, old, 0)
    BY DEF Registry!DeathNotice
  <2>2. read = [k \in Registry!Handles |-> Noticed(k, h)]
    BY DEF Noticed, RefsInv, RefsTyped
  <2> HIDE DEF read, old
  <2>3. 0 \notin Registry!Handles
    BY DEF Registry!Handles
  <2>4. CASE old = 0
    BY <2>1, <2>2, <2>3, <2>4
  <2>5. CASE old \in Registry!Handles
    <3>1. ref' = IF read[old].strong = 1 THEN [read EXCEPT ![old] = Registry!NoRef]
                 ELSE [read EXCEPT ![old] = [read[old] EXCEPT !.strong = read[old].strong - 1]]
      BY <2>1, <2>3, <2>5 DEF Registry!Released
    <3> QED
      BY <2>2, <2>5, <3>1 DEF Less
  <2> QED
    BY <1>2, <2>4, <2>5
<1>4. \A k \in Registry!Handles :
        Recounted(Cardinality(Having(Names, svc', k)), Cardinality(Having(Names, svc, k)),
                  k, old, 0)
  BY <1>1, <1>2, NamesCounted DEF RefsInv
<1>5. /\ svc'[name] = 0 /\ \A n \in Names \ {name} : svc'[n] = svc[n]
      /\ svc' \in [Names -> Registry!Handles \cup {0}]
  BY <1>1, <1>2 DEF RefsInv, RefsTyped
<1>6. old # 0 => old \in Registry!Handles /\ ref[old].strong > 0
  BY <1>2, HeldHandles
<1>7. ~aliased => old = h
  BY <1>2 DEF SoleInv
<1>8. \A n \in Names \ {name} : svc[n] = old /\ old # 0 => ref[old].strong > 1
  BY <1>2, NotTheLast
<1>9. \A n \in Names \ {name} : svc[n] # 0 => svc[n] \in Registry!Handles
  BY DEF RefsInv, RefsTyped
<1> HIDE DEF name, old
<1>10. ASSUME NEW k \in Registry!Handles
       PROVE  /\ Noticed(k, h) \in References /\ Whole(Noticed(k, h), deadServices)
              /\ Noticed(k, h).strong = ref[k].strong /\ Noticed(k, h).node = ref[k].node
              /\ Noticed(k, h).cookie = ref[k].cookie
              /\ ref[k] = Registry!NoRef => Noticed(k, h) = Registry!NoRef
  <2>1. ref[k] \in References /\ Whole(ref[k], deadServices)
    BY DEF RefsInv, RefsTyped
  <2>2. CASE k = h
    <3>1. Noticed(k, h) = [ref[k] EXCEPT !.notice = "delivered"]
      BY <2>2 DEF Noticed
    <3>2. /\ Noticed(k, h) \in References /\ Noticed(k, h).notice = "delivered"
          /\ Noticed(k, h).strong = ref[k].strong /\ Noticed(k, h).node = ref[k].node
          /\ Noticed(k, h).cookie = ref[k].cookie
      BY <2>1, <3>1 DEF References, Registry!Notices
    <3> QED
      BY <1>1, <1>2, <2>1, <2>2, <3>2 DEF Whole
  <2>3. CASE k # h
    BY <2>1, <2>3 DEF Noticed
  <2> QED
    BY <2>2, <2>3
<1>11. ASSUME NEW k \in Registry!Handles
       PROVE  /\ ref'[k] \in References /\ Whole(ref'[k], deadServices')
              /\ ref'[k].strong = Cardinality(Having(Names, svc', k))
              /\ ref'[k].node \in {ref[k].node, Nothing}
              /\ k # old => ref'[k].node = ref[k].node
              /\ k = old /\ ref[k].strong > 1 => ref'[k].node = ref[k].node
  <2>1. /\ Noticed(k, h) \in References /\ Whole(Noticed(k, h), deadServices)
        /\ Noticed(k, h).strong = ref[k].strong /\ Noticed(k, h).node = ref[k].node
        /\ Noticed(k, h).cookie = ref[k].cookie
    BY <1>10
  <2>2. ref[k].strong = Cardinality(Having(Names, svc, k)) /\ ref[k].strong \in Nat
    BY DEF RefsInv, RefsTyped, References
  <2>3. k # 0
    BY DEF Registry!Handles
  <2>4. CASE k # old
    <3>1. ref'[k] = Noticed(k, h)
      BY <1>3, <2>4
    <3>2. Cardinality(Having(Names, svc', k)) = Cardinality(Having(Names, svc, k))
      BY <1>4, <2>2, <2>3, <2>4 DEF Recounted
    <3> QED
      BY <1>1, <2>1, <2>2, <2>4, <3>1, <3>2
  <2>5. CASE k = old
    <3>1. ref'[k] = Less(Noticed(k, h))
      BY <1>3, <2>5
    <3>2. Cardinality(Having(Names, svc', k)) = Cardinality(Having(Names, svc, k)) - 1
      BY <1>4, <2>2, <2>3, <2>5 DEF Recounted
    <3>3. ref[k].strong > 0
      BY <1>6, <2>3, <2>5
    <3>4. CASE ref[k].strong = 1
      <4>1. ref'[k] = Registry!NoRef
        BY <2>1, <3>1, <3>4 DEF Less
      <4>2. Registry!NoRef \in References /\ Whole(Registry!NoRef, deadServices')
            /\ Registry!NoRef.strong = 0 /\ Registry!NoRef.node = Nothing
        BY DEF References, Whole, Registry!NoRef, Registry!Notices
      <4> QED
        BY <2>2, <2>5, <3>2, <3>4, <4>1, <4>2
    <3>5. CASE ref[k].strong # 1
      <4>1. ref'[k] = [Noticed(k, h) EXCEPT !.strong = ref[k].strong - 1]
        BY <2>1, <3>1, <3>5 DEF Less
      <4>2. ref'[k] \in References /\ ref'[k].strong = ref[k].strong - 1 /\ ref'[k].strong # 0
            /\ ref'[k].node = ref[k].node /\ ref'[k].cookie = Noticed(k, h).cookie
            /\ ref'[k].notice = Noticed(k, h).notice
        BY <2>1, <2>2, <3>3, <3>5, <4>1 DEF References
      <4> QED
        BY <1>1, <2>1, <2>2, <3>2, <3>3, <4>2 DEF Whole
    <3> QED
      BY <3>4, <3>5
  <2> QED
    BY <2>4, <2>5
<1>12. RefsTyped'
  <2>1. ref' \in [Registry!Handles -> References]
    BY <1>3, <1>11
  <2> QED
    BY <1>1, <1>5, <2>1 DEF RefsInv, RefsTyped
<1>13. ASSUME NEW n \in Names, svc'[n] # 0 PROVE ref'[svc'[n]].node = owner'[n]
  <2>1. n # name /\ svc'[n] = svc[n]
    BY <1>5, <1>13
  <2>2. ref[svc[n]].node = owner[n] /\ svc[n] \in Registry!Handles /\ svc[n] # 0
    BY <1>9, <1>13, <2>1 DEF RefsInv
  <2>3. svc[n] = old => ref[svc[n]].strong > 1
    BY <1>8, <2>1, <2>2
  <2>4. ref'[svc[n]].node = ref[svc[n]].node
    BY <1>11, <2>2, <2>3
  <2> QED
    BY <1>1, <2>1, <2>2, <2>4
<1>14. \A g, k \in Registry!Handles : ref'[g].node = ref'[k].node => g = k \/ ref'[g].node = Nothing
  <2>1. \A k \in Registry!Handles : ref'[k].node \in {ref[k].node, Nothing}
    BY <1>11
  <2>2. \A g, k \in Registry!Handles : ref[g].node = ref[k].node => g = k \/ ref[g].node = Nothing
    BY DEF RefsInv
  <2> QED
    BY <2>1, <2>2
<1>15. SoleInv'
  <2> SUFFICES ASSUME ~aliased
               PROVE  /\ \A k \in Registry!Handles :
                           ref'[k] # Registry!NoRef => ref'[k].strong = 1 /\ svc'[ref'[k].cookie] = k
                      /\ \A n \in Names : owner'[n] \notin deadServices' \cup {Nothing} => svc'[n] # 0
    BY <1>1 DEF SoleInv
  <2>1. /\ \A k \in Registry!Handles :
             ref[k] # Registry!NoRef => ref[k].strong = 1 /\ svc[ref[k].cookie] = k
        /\ \A n \in Names : owner[n] \notin deadServices \cup {Nothing} => svc[n] # 0
        /\ old = h
    BY <1>7 DEF SoleInv
  <2>2. ref'[h] = Registry!NoRef
    BY <1>2, <1>3, <1>10, <2>1 DEF Less
  <2>3. ASSUME NEW k \in Registry!Handles, ref'[k] # Registry!NoRef
        PROVE  ref'[k].strong = 1 /\ svc'[ref'[k].cookie] = k
    <3>1. k # h /\ ref'[k] = ref[k]
      BY <1>3, <2>1, <2>2, <2>3 DEF Noticed
    <3>2. ref[k].strong = 1 /\ svc[ref[k].cookie] = k /\ ref[k].cookie \in Names
      <4>1. ref[k].cookie \in Names
        BY <2>3, <3>1, HasCookie
      <4> QED
        BY <2>1, <2>3, <3>1, <4>1
    <3>3. ref[k].cookie # name
      BY <2>1, <3>1, <3>2 DEF old
    <3> QED
      BY <1>5, <3>1, <3>2, <3>3
  <2>4. owner[name] \in deadServices
    <3>1. svc[name] = h /\ h # 0
      BY <2>1 DEF old, Registry!Handles
    <3> QED
      BY <1>2, <3>1 DEF RefsInv
  <2> QED
    BY <1>1, <1>2, <1>5, <2>1, <2>3, <2>4
<1> QED
  BY <1>11, <1>12, <1>13, <1>14, <1>15 DEF RefsInv

LEMMA Contained ==
  ASSUME NEW n
  PROVE  Registry!Contains(svclist, n) <=> n \in Registry!Listed
  BY DEF Registry!Contains, Registry!Listed

LEMMA ListedNames ==
  ASSUME ListInv
  PROVE  /\ Registry!Listed \subseteq Names /\ IsFiniteSet(Registry!Listed)
         /\ Len(svclist) \in Nat /\ Len(svclist) <= Cardinality(Names)
<1>0. svclist \in Seq(Names)
  BY DEF ListInv
<1>1. Registry!Listed \subseteq Names
  <2>1. \A i \in 1 .. Len(svclist) : svclist[i] \in Names
    BY <1>0, ElementOfSeq
  <2> QED
    BY <2>1 DEF Registry!Listed
<1> QED
  BY <1>1, NamesAreFinite, NoMore DEF ListInv

LEMMA AddKeepsList ==
  ASSUME ListInv, RefsInv, NEW s \in Services, NEW name \in Names, Registry!AddService(s, name)
  PROVE  ListInv'
<1>1. /\ svclist' = Registry!Inserted(svclist, name) /\ lister' = lister
      /\ \A n \in Names \ {name} : svc'[n] = svc[n] /\ owner'[n] = owner[n]
  BY DEF Registry!AddService, RefsInv, RefsTyped
<1>2. \A n \in Names : svc'[n] # 0 \/ owner'[n] # Nothing => n \in Registry!Listed \cup {name}
  BY <1>1 DEF ListInv
<1>3. CASE name \in Registry!Listed
  <2>1. svclist' = svclist
    BY <1>1, <1>3, Contained DEF Registry!Inserted
  <2>2. Registry!Listed' = Registry!Listed
    BY <2>1 DEF Registry!Listed
  <2> QED
    BY <1>1, <1>2, <1>3, <2>1, <2>2 DEF ListInv
<1>4. CASE name \notin Registry!Listed
  <2> DEFINE first == <<name>>
  <2>1. svclist' = first \o svclist
    BY <1>1, <1>4, Contained DEF Registry!Inserted
  <2>2. svclist \in Seq(Names) /\ Len(svclist) \in Nat
    BY LenProperties DEF ListInv
  <2>3. first \in Seq(Names) /\ Len(first) = 1 /\ first[1] = name
    OBVIOUS
  <2> HIDE DEF first
  <2>4. /\ svclist' \in Seq(Names) /\ Len(svclist') = Len(svclist) + 1
        /\ \A i \in 1 .. Len(svclist) + 1 :
             svclist'[i] = IF i <= 1 THEN first[i] ELSE svclist[i - 1]
    <3>1. /\ first \o svclist \in Seq(Names)
          /\ Len(first \o svclist) = Len(first) + Len(svclist)
          /\ \A i \in 1 .. Len(first) + Len(svclist) :
               (first \o svclist)[i] = IF i <= Len(first) THEN first[i] ELSE svclist[i - Len(first)]
      BY <2>2, <2>3, ConcatProperties
    <3>2. Len(svclist') = Len(svclist) + 1
      BY <2>1, <2>2, <2>3, <3>1
    <3> QED
      BY <2>1, <2>2, <2>3, <3>1, <3>2
  <2>5. svclist'[1] = name /\ \A i \in 1 .. Len(svclist) : svclist'[i + 1] = svclist[i]
    BY <2>2, <2>3, <2>4
  <2>6. Registry!Listed' = Registry!Listed \cup {name}
    <3>1. Registry!Listed' \subseteq Registry!Listed \cup {name}
      <4> SUFFICES ASSUME NEW i \in 1 .. Len(svclist')
                   PROVE  svclist'[i] \in Registry!Listed \cup {name}
        BY DEF Registry!Listed
      <4>1. CASE i = 1
        BY <2>5, <4>1
      <4>2. CASE i # 1
        <5>1. i - 1 \in 1 .. Len(svclist) /\ svclist'[i] = svclist[i - 1]
          BY <2>2, <2>4, <4>2
        <5> QED
          BY <5>1 DEF Registry!Listed
      <4> QED
        BY <4>1, <4>2
    <3>2. Registry!Listed \cup {name} \subseteq Registry!Listed'
      <4>1. name \in Registry!Listed'
        BY <2>2, <2>4, <2>5 DEF Registry!Listed
      <4>2. ASSUME NEW i \in 1 .. Len(svclist) PROVE svclist[i] \in Registry!Listed'
        <5>1. i + 1 \in 1 .. Len(svclist') /\ svclist'[i + 1] = svclist[i]
          BY <2>2, <2>4, <2>5
        <5> QED
          BY <5>1 DEF Registry!Listed
      <4> QED
        BY <4>1, <4>2 DEF Registry!Listed
    <3> QED
      BY <3>1, <3>2
  <2>7. Len(svclist') = Cardinality(Registry!Listed')
    <3>1. Cardinality(Registry!Listed \cup {name}) = Cardinality(Registry!Listed) + 1
      BY <1>4, ListedNames, FS_AddElement
    <3> QED
      BY <2>4, <2>6, <3>1 DEF ListInv
  <2>8. ASSUME lister.on, NEW n \in lister.missing
        PROVE  \E i \in lister.at + 1 .. Len(svclist') : svclist'[i] = n
    <3>1. PICK i \in lister.at + 1 .. Len(svclist) : svclist[i] = n
      BY <2>8 DEF ListInv
    <3>2. lister.at \in Nat
      BY DEF ListInv
    <3>3. i \in 1 .. Len(svclist) /\ i + 1 \in lister.at + 1 .. Len(svclist')
      BY <2>2, <2>4, <3>2
    <3> QED
      BY <2>5, <3>1, <3>3
  <2>9. lister.at <= Len(svclist')
    BY <2>2, <2>4 DEF ListInv
  <2>10. \A n \in Names : svc'[n] # 0 \/ owner'[n] # Nothing => n \in Registry!Listed'
    BY <1>2, <2>6
  <2> QED
    BY <1>1, <2>4, <2>7, <2>8, <2>9, <2>10 DEF ListInv
<1> QED
  BY <1>3, <1>4

LEMMA ListingKeepsList ==
  ASSUME ListInv, Registry!BeginListing \/ Registry!ListNext
  PROVE  ListInv'
<1>1. UNCHANGED <<svclist, svc, owner>> /\ Registry!Listed' = Registry!Listed
  BY DEF Registry!BeginListing, Registry!ListNext, Registry!Listed
<1>2. Len(svclist) \in Nat /\ Registry!Listed \subseteq Names
  BY ListedNames
<1>3. lister \in [at : Nat, missing : SUBSET Names, on : BOOLEAN] /\ lister.at <= Len(svclist)
  BY DEF ListInv
<1>4. /\ lister' \in [at : Nat, missing : SUBSET Names, on : BOOLEAN]
      /\ lister'.at <= Len(svclist)
      /\ IF lister'.on
         THEN \A n \in lister'.missing : \E i \in lister'.at + 1 .. Len(svclist) : svclist[i] = n
         ELSE lister'.missing = {}
  <2>1. CASE Registry!BeginListing
    <3>1. lister' = [at |-> 0, missing |-> Registry!Listed, on |-> TRUE]
      BY <2>1 DEF Registry!BeginListing
    <3>2. \A n \in Registry!Listed : \E i \in 0 + 1 .. Len(svclist) : svclist[i] = n
      BY DEF Registry!Listed
    <3> QED
      BY <1>2, <3>1, <3>2
  <2>2. CASE Registry!ListNext /\ lister.at < Len(svclist)
    <3>1. /\ lister.on
          /\ lister' = [lister EXCEPT !.at = lister.at + 1,
                                     !.missing = lister.missing \ {svclist[lister.at + 1]}]
      BY <2>2 DEF Registry!ListNext
    <3>2. /\ lister' \in [at : Nat, missing : SUBSET Names, on : BOOLEAN]
          /\ lister'.at = lister.at + 1 /\ lister'.on = TRUE
          /\ lister'.missing = lister.missing \ {svclist[lister.at + 1]}
      <4>1. lister.at + 1 \in Nat
        BY <1>3
      <4>2. lister' = [at |-> lister.at + 1, missing |-> lister.missing \ {svclist[lister.at + 1]},
                       on |-> TRUE]
        BY <1>3, <3>1
      <4>3. lister.missing \ {svclist[lister.at + 1]} \subseteq Names
        BY <1>3
      <4> QED
        BY <4>1, <4>2, <4>3
    <3>3. ASSUME NEW n \in lister'.missing
          PROVE  \E i \in lister'.at + 1 .. Len(svclist) : svclist[i] = n
      <4>1. PICK i \in lister.at + 1 .. Len(svclist) : svclist[i] = n
        BY <3>1, <3>2, <3>3 DEF ListInv
      <4>2. i # lister.at + 1
        BY <3>2, <3>3, <4>1
      <4>3. i \in lister'.at + 1 .. Len(svclist)
        BY <1>2, <1>3, <3>2, <4>2
      <4> QED
        BY <4>1, <4>3
    <3> QED
      BY <1>2, <1>3, <2>2, <3>2, <3>3
  <2>3. CASE Registry!ListNext /\ ~ lister.at < Len(svclist)
    <3>1. lister.on /\ lister' = [lister EXCEPT !.at = 0, !.on = FALSE]
      BY <2>3 DEF Registry!ListNext
    <3>2. lister.missing = {}
      <4>1. lister.at + 1 .. Len(svclist) = {}
        BY <1>2, <1>3, <2>3
      <4> QED
        BY <3>1, <4>1 DEF ListInv
    <3>3. lister' = [at |-> 0, missing |-> {}, on |-> FALSE]
      BY <1>3, <3>1, <3>2
    <3> QED
      BY <1>2, <3>3
  <2> QED
    BY <2>1, <2>2, <2>3
<1> QED
  BY <1>1, <1>4 DEF ListInv

RegistryInv == RefsInv /\ SoleInv /\ ListInv

LEMMA RegistryKeepsInv ==
  ASSUME RegistryInv, [Registry!Next]_registryVars
  PROVE  RegistryInv'
<1> USE DEF RegistryInv
<1>1. ASSUME NEW s \in Services, NEW name \in Names, Registry!AddService(s, name)
      PROVE  RegistryInv'
  BY <1>1, AddKeepsRefs, AddKeepsSole, AddKeepsList
<1>2. CASE Registry!BeginListing \/ Registry!ListNext
  <2>1. UNCHANGED <<svc, ref, deadServices, unread, owner, aliased>>
    BY <1>2 DEF Registry!BeginListing, Registry!ListNext
  <2>2. RefsInv' /\ SoleInv'
    BY <2>1 DEF RefsInv, RefsTyped, SoleInv
  <2> QED
    BY <1>2, <2>2, ListingKeepsList
<1>3. ASSUME NEW s \in Services, Registry!Die(s) PROVE RegistryInv'
  <2>1. ListInv'
    BY <1>3 DEF Registry!Die, ListInv, Registry!Listed
  <2> QED
    BY <1>3, <2>1, DieKeepsRefs
<1>4. ASSUME NEW h \in Registry!Handles, Registry!DeathNotice(h) PROVE RegistryInv'
  <2>1. /\ UNCHANGED <<svclist, owner, lister>>
        /\ svc' = [svc EXCEPT ![ref[h].cookie] = 0]
    BY <1>4 DEF Registry!DeathNotice
  <2>2. \A n \in Names : svc'[n] # 0 => svc[n] # 0
    BY <2>1 DEF RefsInv, RefsTyped
  <2>3. ListInv'
    BY <2>1, <2>2 DEF ListInv, Registry!Listed
  <2> QED
    BY <1>4, <2>3, NoticeKeepsRefs
<1>5. CASE UNCHANGED registryVars
  <2>1. RefsInv' /\ SoleInv'
    BY <1>5 DEF registryVars, RefsInv, RefsTyped, SoleInv
  <2>2. ListInv'
    BY <1>5 DEF registryVars, ListInv, Registry!Listed
  <2> QED
    BY <2>1, <2>2
<1> QED
  BY <1>1, <1>2, <1>3, <1>4, <1>5 DEF Registry!Next

LEMMA RegistryBegins ==
  ASSUME BinderInit
  PROVE  RegistryInv
<1>1. /\ svclist = << >> /\ svc = [n \in Names |-> 0]
      /\ ref = [h \in Registry!Handles |-> Registry!NoRef]
      /\ deadServices = {} /\ unread = {} /\ owner = [n \in Names |-> Nothing]
      /\ aliased = FALSE /\ lister = [at |-> 0, missing |-> {}, on |-> FALSE]
  BY DEF BinderInit, Registry!Init
<1>2. Registry!NoRef \in References /\ Whole(Registry!NoRef, {}) /\ Registry!NoRef.strong = 0
      /\ Registry!NoRef.node = Nothing
  BY DEF References, Whole, Registry!NoRef, Registry!Notices
<1>3. \A h \in Registry!Handles : Having(Names, svc, h) = {}
  BY <1>1 DEF Having, Registry!Handles
<1>4. Cardinality({}) = 0
  BY FS_EmptySet
<1>5. RefsTyped
  BY <1>1, <1>2 DEF RefsTyped
<1>6. RefsInv
  BY <1>1, <1>2, <1>3, <1>4, <1>5 DEF RefsInv
<1>7. SoleInv
  BY <1>1 DEF SoleInv
<1>8. Registry!Listed = {} /\ Len(svclist) = 0
  BY <1>1 DEF Registry!Listed
<1>9. ListInv
  BY <1>1, <1>4, <1>8 DEF ListInv
<1> QED
  BY <1>6, <1>7, <1>9 DEF RegistryInv

LEMMA RegistryStep ==
  ASSUME RegistryInv,
         [BinderNext]_<<vars, registryVars, poolVars, serviceVars, permissionVars, appVars, used>>
  PROVE  RegistryInv'
<1>1. [Registry!Next]_registryVars
  BY DEF BinderNext, OfProxy, OfRegistry, OfPool, OfPermission, OfApps
<1> QED
  BY <1>1, RegistryKeepsInv

(* Each name has a reference of its own to a handle, a handle that is      *)
(* listed is the one of the service that registered it, though the driver  *)
(* gives handles out anew, and a client that lists the names misses none   *)
(* that was there (do_add_service, svcinfo_death and svcmgr_handler of     *)
(* service_manager.c, BpServiceManager::listServices).                     *)
THEOREM NamesAreServedAlways == BinderSpec => []NamesAreServed
<1>1. BinderInit => RegistryInv
  BY RegistryBegins
<1>2. RegistryInv /\ [BinderNext]_<<vars, registryVars, poolVars, serviceVars, permissionVars, appVars, used>>
        => RegistryInv'
  BY RegistryStep
<1>3. RegistryInv => NamesAreServed
  <2> SUFFICES ASSUME RegistryInv PROVE NamesAreServed
    OBVIOUS
  <2>1. Registry!ReferencesMatchNames
    BY DEF RegistryInv, RefsInv, Having, Registry!ReferencesMatchNames, Registry!Cardinality, Cardinality
  <2>2. Registry!HandlesNameTheirService
    BY DEF RegistryInv, RefsInv, Registry!HandlesNameTheirService
  <2>3. Registry!ListingIsComplete
    BY DEF RegistryInv, ListInv, Registry!ListingIsComplete
  <2>4. Registry!Cardinality(Names) = Cardinality(Names) /\ Cardinality(Names) \in Nat
    BY NamesAreFinite, FS_CardinalityType DEF Registry!Cardinality, Cardinality
  <2>5. ASSUME NEW h \in Registry!Handles
        PROVE  ref[h].strong \in 0 .. Cardinality(Names)
    <3>1. Having(Names, svc, h) \subseteq Names
      BY DEF Having
    <3>2. ref[h].strong = Cardinality(Having(Names, svc, h))
      BY DEF RegistryInv, RefsInv
    <3> QED
      BY <2>4, <3>1, <3>2, NamesAreFinite, NoMore
  <2>6. ref \in [Registry!Handles ->
                  [node : Services \cup {Nothing}, strong : 0 .. Cardinality(Names),
                   cookie : Names \cup {Nothing}, notice : Registry!Notices]]
    BY <2>5 DEF RegistryInv, RefsInv, RefsTyped, References
  <2>7. lister \in [at : 0 .. Cardinality(Names), missing : SUBSET Names, on : BOOLEAN]
    <3>1. lister.at \in 0 .. Cardinality(Names)
      BY <2>4, ListedNames DEF RegistryInv, ListInv
    <3> QED
      BY <3>1 DEF RegistryInv, ListInv
  <2>8. Registry!TypeOK
    BY <2>4, <2>6, <2>7 DEF Registry!TypeOK, RegistryInv, RefsInv, RefsTyped, ListInv
  <2> QED
    BY <2>1, <2>2, <2>3, <2>8 DEF NamesAreServed
<1> QED
  BY <1>1, <1>2, <1>3, PTL DEF BinderSpec

(* A name whose service is alive is found, as long as no service has had   *)
(* two names at once: the notice of a death takes no handle from whoever   *)
(* took the name over (find_svc, do_find_service and svcinfo_death).       *)
THEOREM LiveServicesAreFoundAlways == BinderSpec => []LiveServicesAreFound
<1>1. BinderInit => RegistryInv
  BY RegistryBegins
<1>2. RegistryInv /\ [BinderNext]_<<vars, registryVars, poolVars, serviceVars, permissionVars, appVars, used>>
        => RegistryInv'
  BY RegistryStep
<1>3. RegistryInv => LiveServicesAreFound
  BY Contained DEF RegistryInv, SoleInv, ListInv, LiveServicesAreFound,
     Registry!LiveServicesAreFound, Registry!Found, Registry!DoFindService
<1> QED
  BY <1>1, <1>2, <1>3, PTL DEF BinderSpec

=============================================================================
