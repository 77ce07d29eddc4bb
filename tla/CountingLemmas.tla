--------------------------- MODULE CountingLemmas ---------------------------
(***************************************************************************)
(* Lemmas that the proofs about several components share: how the number   *)
(* of elements of a finite set, and the number of times that something is  *)
(* queued by any of several threads, change with a step; the least and the *)
(* greatest of a set of numbers; and how often a sequence has elements of  *)
(* a kind.                                                                 *)
(***************************************************************************)
EXTENDS Integers, Sequences, FiniteSetTheorems, SequenceTheorems, FunctionTheorems, TLAPS

-----------------------------------------------------------------------------
(* Finite sets that grow and shrink *)

LEMMA NoMore ==
  ASSUME NEW S, IsFiniteSet(S), NEW T, T \subseteq S
  PROVE  IsFiniteSet(T) /\ Cardinality(T) \in Nat /\ Cardinality(T) <= Cardinality(S)
  BY FS_Subset, FS_CardinalityType

LEMMA OneMore ==
  ASSUME NEW S, IsFiniteSet(S), NEW x, NEW T, T \subseteq S \cup {x}
  PROVE  IsFiniteSet(T) /\ Cardinality(T) \in Nat /\ Cardinality(T) <= Cardinality(S) + 1
<1>0. Cardinality(S) \in Nat
  BY FS_CardinalityType
<1>1. IsFiniteSet(S \cup {x}) /\ Cardinality(S \cup {x}) <= Cardinality(S) + 1
  <2>1. /\ IsFiniteSet(S \cup {x})
        /\ Cardinality(S \cup {x}) = IF x \in S THEN Cardinality(S) ELSE Cardinality(S) + 1
    BY FS_AddElement
  <2> QED
    BY <1>0, <2>1
<1>2. IsFiniteSet(T) /\ Cardinality(T) \in Nat /\ Cardinality(T) <= Cardinality(S \cup {x})
  BY <1>1, NoMore
<1> QED
  BY <1>1, <1>2, FS_CardinalityType

LEMMA OneLess ==
  ASSUME NEW S, IsFiniteSet(S), NEW x \in S, NEW T, T \subseteq S \ {x}
  PROVE  IsFiniteSet(T) /\ Cardinality(T) \in Nat /\ Cardinality(T) + 1 <= Cardinality(S)
<1>1. IsFiniteSet(S \ {x}) /\ Cardinality(S \ {x}) = Cardinality(S) - 1
  BY FS_RemoveElement
<1>2. IsFiniteSet(T) /\ Cardinality(T) \in Nat /\ Cardinality(T) <= Cardinality(S \ {x})
  BY <1>1, NoMore
<1> QED
  BY <1>1, <1>2, FS_CardinalityType

-----------------------------------------------------------------------------
(* Functions whose values are counted *)

(* Those that have the value x.                                            *)
Having(T, f, x) == {t \in T : f[t] = x}

LEMMA HavingIsFinite ==
  ASSUME NEW T, IsFiniteSet(T), NEW f, NEW x
  PROVE  /\ IsFiniteSet(Having(T, f, x)) /\ Cardinality(Having(T, f, x)) \in Nat
         /\ \A t \in T : f[t] = x => Cardinality(Having(T, f, x)) > 0
<1>1. IsFiniteSet(Having(T, f, x)) /\ Cardinality(Having(T, f, x)) \in Nat
  BY NoMore DEF Having
<1>2. ASSUME NEW t \in T, f[t] = x PROVE Cardinality(Having(T, f, x)) > 0
  <2>1. Having(T, f, x) # {}
    BY <1>2 DEF Having
  <2> QED
    BY <1>1, <2>1, FS_EmptySet
<1> QED
  BY <1>1, <1>2

(* One value changes, from y to z: how many now have x.  The lemmas below  *)
(* name what they say of numbers, for the provers to match it as a whole.  *)
Recounted(new, old, x, y, z) ==
  new = old + (IF z = x THEN 1 ELSE 0) - (IF y = x THEN 1 ELSE 0)
OneMoreThan(new, old) == new = old + 1

LEMMA HavingChanges ==
  ASSUME NEW T, IsFiniteSet(T), NEW f, NEW g, NEW t \in T,
         \A u \in T \ {t} : g[u] = f[u], NEW x
  PROVE  Recounted(Cardinality(Having(T, g, x)), Cardinality(Having(T, f, x)), x, f[t], g[t])
<1> DEFINE others == {u \in T \ {t} : f[u] = x}
<1>1. IsFiniteSet(others) /\ Cardinality(others) \in Nat /\ t \notin others
  BY NoMore
<1>2. ASSUME NEW v
      PROVE  Cardinality(IF v = x THEN others \cup {t} ELSE others) =
               Cardinality(others) + (IF v = x THEN 1 ELSE 0)
  <2>1. Cardinality(others \cup {t}) = Cardinality(others) + 1
    BY <1>1, FS_AddElement
  <2> QED
    BY <1>1, <2>1
<1>3. Having(T, f, x) = IF f[t] = x THEN others \cup {t} ELSE others
  BY DEF Having
<1>4. Having(T, g, x) = IF g[t] = x THEN others \cup {t} ELSE others
  BY DEF Having
<1> HIDE DEF others
<1>5. Cardinality(Having(T, f, x)) = Cardinality(others) + (IF f[t] = x THEN 1 ELSE 0)
  BY <1>2, <1>3
<1>6. Cardinality(Having(T, g, x)) = Cardinality(others) + (IF g[t] = x THEN 1 ELSE 0)
  BY <1>2, <1>4
<1> QED
  BY <1>1, <1>5, <1>6 DEF Recounted

-----------------------------------------------------------------------------
(* Queues, one for each element of a finite set, of at most max elements   *)

(* The places where c is queued.                                           *)
Queued(T, max, q, c) ==
  {x \in T \X (1 .. max) : x[2] <= Len(q[x[1]]) /\ q[x[1]][x[2]] = c}

LEMMA QueuedIsFinite ==
  ASSUME NEW T, IsFiniteSet(T), NEW max \in Nat, NEW q, NEW c
  PROVE  IsFiniteSet(Queued(T, max, q, c)) /\ Cardinality(Queued(T, max, q, c)) \in Nat
<1>1. IsFiniteSet(1 .. max)
  BY FS_Interval
<1>2. IsFiniteSet(T \X (1 .. max))
  BY <1>1, FS_Product
<1>3. Queued(T, max, q, c) \subseteq T \X (1 .. max)
  BY DEF Queued
<1> QED
  BY <1>2, <1>3, NoMore

(* From q to r, queue t alone changes: s is appended, or the head is taken.*)
Appends(T, S, q, r, t, s) ==
  /\ t \in T /\ q[t] \in Seq(S) /\ s \in Seq(S)
  /\ r[t] = q[t] \o s /\ \A u \in T \ {t} : r[u] = q[u]
Takes(T, S, q, r, t) ==
  /\ t \in T /\ q[t] \in Seq(S) /\ q[t] # << >>
  /\ r[t] = Tail(q[t]) /\ \A u \in T \ {t} : r[u] = q[u]

(* What is appended to one queue and is not c leaves c where it is.        *)
LEMMA QueueOthers ==
  ASSUME NEW T, NEW max \in Nat, NEW S, NEW q, NEW r, NEW t, NEW s,
         Appends(T, S, q, r, t, s), NEW c, \A i \in 1 .. Len(s) : s[i] # c
  PROVE  Queued(T, max, r, c) = Queued(T, max, q, c)
<1>0. /\ t \in T /\ q[t] \in Seq(S) /\ s \in Seq(S) /\ r[t] = q[t] \o s
      /\ \A u \in T \ {t} : r[u] = q[u]
  BY DEF Appends
<1>1. /\ Len(q[t]) \in Nat /\ Len(s) \in Nat /\ Len(r[t]) = Len(q[t]) + Len(s)
      /\ \A i \in 1 .. Len(r[t]) : r[t][i] = IF i <= Len(q[t]) THEN q[t][i]
                                             ELSE s[i - Len(q[t])]
  BY <1>0, ConcatProperties, LenProperties
<1>2. \A u \in T \ {t} : r[u] = q[u]
  BY <1>0
<1>3. ASSUME NEW u \in T, NEW i \in 1 .. max
      PROVE  (i <= Len(r[u]) /\ r[u][i] = c) <=> (i <= Len(q[u]) /\ q[u][i] = c)
  <2>1. CASE u # t
    BY <1>2, <2>1
  <2>2. CASE u = t
    <3>1. CASE i <= Len(q[t])
      BY <1>1, <2>2, <3>1
    <3>2. CASE i > Len(q[t]) /\ i <= Len(r[t])
      <4>1. i - Len(q[t]) \in 1 .. Len(s) /\ r[t][i] = s[i - Len(q[t])]
        BY <1>1, <3>2
      <4> QED
        BY <1>1, <2>2, <3>2, <4>1
    <3>3. CASE i > Len(r[t])
      BY <1>1, <2>2, <3>3
    <3> QED
      BY <1>1, <3>1, <3>2, <3>3
  <2> QED
    BY <2>1, <2>2
<1> QED
  BY <1>3 DEF Queued

(* What is appended to one queue and has c once adds a place.              *)
LEMMA QueueOne ==
  ASSUME NEW T, IsFiniteSet(T), NEW max \in Nat, NEW S, NEW q, NEW r, NEW t, NEW s,
         Appends(T, S, q, r, t, s), Len(q[t]) + Len(s) <= max,
         NEW c, NEW k \in 1 .. Len(s), \A i \in 1 .. Len(s) : s[i] = c <=> i = k
  PROVE  OneMoreThan(Cardinality(Queued(T, max, r, c)), Cardinality(Queued(T, max, q, c)))
<1> DEFINE new == <<t, Len(q[t]) + k>>
<1>0. /\ t \in T /\ q[t] \in Seq(S) /\ s \in Seq(S) /\ r[t] = q[t] \o s
      /\ \A u \in T \ {t} : r[u] = q[u]
  BY DEF Appends
<1>1. /\ Len(q[t]) \in Nat /\ Len(s) \in Nat /\ Len(r[t]) = Len(q[t]) + Len(s)
      /\ \A i \in 1 .. Len(r[t]) : r[t][i] = IF i <= Len(q[t]) THEN q[t][i]
                                             ELSE s[i - Len(q[t])]
  BY <1>0, ConcatProperties, LenProperties
<1>2. \A u \in T \ {t} : r[u] = q[u]
  BY <1>0
<1>3. ASSUME NEW u \in T, NEW i \in 1 .. max
      PROVE  (i <= Len(r[u]) /\ r[u][i] = c) <=>
             \/ i <= Len(q[u]) /\ q[u][i] = c
             \/ u = t /\ i = Len(q[t]) + k
  <2>1. CASE u # t
    BY <1>2, <2>1
  <2>2. CASE u = t
    <3>1. CASE i <= Len(q[t])
      BY <1>1, <2>2, <3>1
    <3>2. CASE i > Len(q[t]) /\ i <= Len(r[t])
      <4>1. i - Len(q[t]) \in 1 .. Len(s) /\ r[t][i] = s[i - Len(q[t])]
        BY <1>0, <1>1, <3>2
      <4>2. s[i - Len(q[t])] = c <=> i - Len(q[t]) = k
        BY <4>1
      <4>3. i - Len(q[t]) = k <=> i = Len(q[t]) + k
        BY <1>1
      <4> QED
        BY <1>1, <2>2, <3>2, <4>1, <4>2, <4>3
    <3>3. CASE i > Len(r[t])
      BY <1>1, <2>2, <3>3
    <3> QED
      BY <1>1, <3>1, <3>2, <3>3
  <2> QED
    BY <2>1, <2>2
<1>4. Len(q[t]) + k \in 1 .. max
  BY <1>1
<1>5. Queued(T, max, r, c) = Queued(T, max, q, c) \cup {new}
  <2>1. ASSUME NEW x \in T \X (1 .. max)
        PROVE  x \in Queued(T, max, r, c) <=> x \in Queued(T, max, q, c) \/ x = new
    <3>1. x[1] \in T /\ x[2] \in 1 .. max /\ x = <<x[1], x[2]>>
      OBVIOUS
    <3>2. x = new <=> x[1] = t /\ x[2] = Len(q[t]) + k
      BY <3>1
    <3> QED
      BY <1>3, <3>1, <3>2 DEF Queued
  <2>2. new \in T \X (1 .. max)
    BY <1>0, <1>4
  <2>3. /\ Queued(T, max, r, c) \subseteq T \X (1 .. max)
        /\ Queued(T, max, q, c) \subseteq T \X (1 .. max)
    BY DEF Queued
  <2> HIDE DEF new
  <2> QED
    BY <2>1, <2>2, <2>3
<1>6. new \notin Queued(T, max, q, c)
  BY <1>1 DEF Queued
<1>7. IsFiniteSet(Queued(T, max, q, c))
  BY QueuedIsFinite
<1> QED
  BY <1>5, <1>6, <1>7, FS_AddElement DEF OneMoreThan

(* Taking the head of a queue moves the rest of it.                        *)
LEMMA QueueTail ==
  ASSUME NEW T, IsFiniteSet(T), NEW max \in Nat, NEW S, NEW q, NEW r, NEW t,
         Takes(T, S, q, r, t), Len(q[t]) <= max, NEW c
  PROVE  IF Head(q[t]) = c
         THEN OneMoreThan(Cardinality(Queued(T, max, q, c)), Cardinality(Queued(T, max, r, c)))
         ELSE Cardinality(Queued(T, max, q, c)) = Cardinality(Queued(T, max, r, c))
<1> DEFINE rest == Queued(T, max, q, c) \ {<<t, 1>>}
           f == [x \in rest |-> IF x[1] = t THEN <<t, x[2] - 1>> ELSE x]
<1>0. /\ t \in T /\ q[t] \in Seq(S) /\ q[t] # << >> /\ r[t] = Tail(q[t])
      /\ \A u \in T \ {t} : r[u] = q[u]
  BY DEF Takes
<1>1. /\ Len(q[t]) \in Nat \ {0} /\ Len(r[t]) = Len(q[t]) - 1
      /\ \A i \in 1 .. Len(r[t]) : r[t][i] = q[t][i + 1]
  BY <1>0, HeadTailProperties, EmptySeq
<1>2. \A u \in T \ {t} : r[u] = q[u]
  BY <1>0
<1>3. <<t, 1>> \in Queued(T, max, q, c) <=> Head(q[t]) = c
  BY <1>0, <1>1 DEF Queued
<1>4. IsFiniteSet(rest) /\ Cardinality(Queued(T, max, q, c)) =
        Cardinality(rest) + (IF Head(q[t]) = c THEN 1 ELSE 0)
  <2>1. IsFiniteSet(Queued(T, max, q, c)) /\ Cardinality(Queued(T, max, q, c)) \in Nat
    BY QueuedIsFinite
  <2>2. /\ IsFiniteSet(rest)
        /\ Cardinality(rest) = IF <<t, 1>> \in Queued(T, max, q, c)
                               THEN Cardinality(Queued(T, max, q, c)) - 1
                               ELSE Cardinality(Queued(T, max, q, c))
    BY <2>1, FS_RemoveElement
  <2> QED
    BY <1>3, <2>1, <2>2
<1>5. ASSUME NEW x \in rest
      PROVE  /\ x = <<x[1], x[2]>> /\ x[1] \in T /\ x[2] \in 1 .. max
             /\ f[x] \in Queued(T, max, r, c)
  <2>1. /\ x = <<x[1], x[2]>> /\ x[1] \in T /\ x[2] \in 1 .. max
        /\ x[2] <= Len(q[x[1]]) /\ q[x[1]][x[2]] = c
    BY DEF Queued
  <2>2. CASE x[1] = t
    <3>1. x[2] # 1
      BY <2>1, <2>2
    <3>2. x[2] - 1 \in 1 .. Len(r[t]) /\ r[t][x[2] - 1] = c /\ x[2] - 1 \in 1 .. max
      BY <1>0, <1>1, <2>1, <2>2, <3>1
    <3>3. f[x] = <<t, x[2] - 1>>
      BY <2>2
    <3>4. <<t, x[2] - 1>> \in Queued(T, max, r, c)
      <4> DEFINE i == x[2] - 1
      <4>1. i \in 1 .. max /\ i <= Len(r[t]) /\ r[t][i] = c
        BY <1>1, <3>2
      <4> HIDE DEF i
      <4>2. <<t, i>> \in Queued(T, max, r, c)
        BY <1>0, <4>1 DEF Queued
      <4> QED
        BY <4>2 DEF i
    <3> QED
      BY <2>1, <3>3, <3>4
  <2>3. CASE x[1] # t
    <3>1. f[x] = x
      BY <2>3
    <3>2. x \in Queued(T, max, r, c)
      BY <1>2, <2>1, <2>3 DEF Queued
    <3> QED
      BY <2>1, <3>1, <3>2
  <2> QED
    BY <2>1, <2>2, <2>3
<1>6. f \in [rest -> Queued(T, max, r, c)]
  BY <1>5
<1>7. \A x, y \in rest : f[x] = f[y] => x = y
  <2> SUFFICES ASSUME NEW x \in rest, NEW y \in rest, f[x] = f[y] PROVE x = y
    OBVIOUS
  <2>1. x = <<x[1], x[2]>> /\ y = <<y[1], y[2]>> /\ x[2] \in Int /\ y[2] \in Int
    BY <1>5
  <2>2. f[x] = (IF x[1] = t THEN <<t, x[2] - 1>> ELSE x)
        /\ f[y] = (IF y[1] = t THEN <<t, y[2] - 1>> ELSE y)
    OBVIOUS
  <2>3. x[1] = y[1] /\ x[2] = y[2]
    <3> HIDE DEF f, rest
    <3>1. CASE x[1] = t /\ y[1] = t
      <4>1. <<t, x[2] - 1>> = <<t, y[2] - 1>>
        BY <2>2, <3>1
      <4> QED
        BY <2>1, <3>1, <4>1
    <3>2. CASE x[1] # t \/ y[1] # t
      <4>1. x[1] = t => <<t, x[2] - 1>>[1] = y[1]
        BY <2>2, <3>2
      <4>2. y[1] = t => <<t, y[2] - 1>>[1] = x[1]
        BY <2>2, <3>2
      <4>3. x[1] # t /\ y[1] # t
        BY <3>2, <4>1, <4>2
      <4> QED
        BY <2>2, <4>3
    <3> QED
      BY <3>1, <3>2
  <2> QED
    BY <2>1, <2>3
<1>8. \A y \in Queued(T, max, r, c) : \E x \in rest : f[x] = y
  <2> SUFFICES ASSUME NEW y \in Queued(T, max, r, c) PROVE \E x \in rest : f[x] = y
    OBVIOUS
  <2>1. /\ y = <<y[1], y[2]>> /\ y[1] \in T /\ y[2] \in 1 .. max
        /\ y[2] <= Len(r[y[1]]) /\ r[y[1]][y[2]] = c
    BY DEF Queued
  <2>2. CASE y[1] = t
    <3>0. y[2] \in Nat \ {0} /\ y[2] <= Len(r[t]) /\ r[t][y[2]] = c
      BY <2>1, <2>2
    <3>1. y[2] + 1 <= Len(q[t]) /\ q[t][y[2] + 1] = c /\ y[2] + 1 \in 1 .. max
      <4> DEFINE i == y[2]
      <4>0. i \in Nat \ {0} /\ i <= Len(r[t]) /\ r[t][i] = c
        BY <3>0
      <4> HIDE DEF i, f, rest
      <4>1. Len(q[t]) \in Nat /\ Len(q[t]) <= max /\ Len(r[t]) = Len(q[t]) - 1
        BY <1>1
      <4>2. i + 1 <= Len(q[t]) /\ i + 1 \in 1 .. max /\ i \in 1 .. Len(r[t])
        BY <4>0, <4>1
      <4>3. q[t][i + 1] = c
        BY <1>1, <4>0, <4>2
      <4> QED
        BY <4>2, <4>3 DEF i
    <3>2. <<t, y[2] + 1>> \in rest
      BY <1>0, <2>1, <3>1 DEF Queued
    <3>3. f[<<t, y[2] + 1>>] = y
      BY <2>1, <2>2, <3>2
    <3> QED
      BY <3>2, <3>3
  <2>3. CASE y[1] # t
    <3>1. y \in rest
      BY <1>2, <2>1, <2>3 DEF Queued
    <3> QED
      BY <2>3, <3>1
  <2> QED
    BY <2>2, <2>3
<1>9. Cardinality(Queued(T, max, r, c)) = Cardinality(rest)
  <2> HIDE DEF f, rest
  <2>1. f \in Bijection(rest, Queued(T, max, r, c))
    BY <1>6, <1>7, <1>8, Fun_IsBij
  <2>2. ExistsBijection(rest, Queued(T, max, r, c))
    BY <2>1 DEF ExistsBijection
  <2> QED
    BY <1>4, <2>2, FS_Bijection
<1>10. Cardinality(rest) \in Nat
  BY <1>4, FS_CardinalityType
<1> QED
  BY <1>4, <1>9, <1>10 DEF OneMoreThan

-----------------------------------------------------------------------------
(* The least and the greatest of a set of natural numbers: what stands in  *)
(* for induction over them.                                                *)

LEMMA Least ==
  ASSUME NEW T, T \subseteq Nat, T # {}
  PROVE  \E x \in T : \A y \in T : x <= y
<1>1. PICK x \in T : \A y \in T : <<y, x>> \notin OpToRel(<, Nat)
  BY NatLessThanWellFounded, WFMin
<1>2. \A y \in T : ~ y < x
  BY <1>1 DEF OpToRel
<1> QED
  BY <1>2

LEMMA Greatest ==
  ASSUME NEW T, T \subseteq Nat, T # {}, NEW n \in Nat, \A x \in T : x <= n
  PROVE  \E x \in T : \A y \in T : y <= x
<1> DEFINE D == {n - x : x \in T}
<1>1. D \subseteq Nat /\ D # {}
  <2>1. \A x \in T : n - x \in Nat
    OBVIOUS
  <2>2. PICK x \in T : TRUE
    OBVIOUS
  <2>3. n - x \in D
    OBVIOUS
  <2> QED
    BY <2>1, <2>3
<1>2. \E d \in D : \A e \in D : d <= e
  <2> HIDE DEF D
  <2> QED
    BY <1>1, Least
<1>3. PICK x \in T : \A e \in D : n - x <= e
  BY <1>2
<1>4. ASSUME NEW y \in T
      PROVE  y <= x
  <2>1. n - y \in D
    OBVIOUS
  <2>2. n - x <= n - y
    BY <1>3, <2>1
  <2> QED
    BY <2>2
<1> QED
  BY <1>4

-----------------------------------------------------------------------------
(* Sequences *)

(* Where in a sequence an element of S is, and how often.                  *)
PlacesOf(q, S) == {i \in 1 .. Len(q) : q[i] \in S}
Times(q, S) == Cardinality(PlacesOf(q, S))

LEMMA TimesIsNat ==
  ASSUME NEW T, NEW q \in Seq(T), NEW S
  PROVE  IsFiniteSet(PlacesOf(q, S)) /\ Times(q, S) \in Nat
<1>1. Len(q) \in Nat /\ PlacesOf(q, S) \subseteq 1 .. Len(q)
  BY DEF PlacesOf
<1>2. IsFiniteSet(1 .. Len(q))
  BY <1>1, FS_Interval
<1> QED
  BY <1>1, <1>2, NoMore DEF Times

LEMMA TimesNone ==
  ASSUME NEW T, NEW q \in Seq(T), NEW S
  PROVE  Times(q, S) = 0 <=> \A i \in 1 .. Len(q) : q[i] \notin S
<1>1. Times(q, S) = 0 <=> PlacesOf(q, S) = {}
  BY TimesIsNat, FS_EmptySet DEF Times
<1> QED
  BY <1>1 DEF PlacesOf

LEMMA TimesEmpty ==
  ASSUME NEW S
  PROVE  Times(<< >>, S) = 0
<1>1. PlacesOf(<< >>, S) = {}
  BY DEF PlacesOf
<1> QED
  BY <1>1, FS_EmptySet DEF Times

(* It is in none of the places after m.                                    *)
LEMMA TimesBound ==
  ASSUME NEW T, NEW q \in Seq(T), NEW S, NEW m \in Nat,
         \A i \in 1 .. Len(q) : q[i] \in S => i <= m
  PROVE  Times(q, S) <= m
<1>1. Len(q) \in Nat /\ PlacesOf(q, S) \subseteq 1 .. m
  BY DEF PlacesOf
<1>2. IsFiniteSet(1 .. m) /\ Cardinality(1 .. m) = m
  BY FS_Interval
<1> QED
  BY <1>1, <1>2, NoMore DEF Times

LEMMA TimesAppend ==
  ASSUME NEW T, NEW q \in Seq(T), NEW x \in T, NEW S
  PROVE  Times(Append(q, x), S) = Times(q, S) + (IF x \in S THEN 1 ELSE 0)
<1> DEFINE r == Append(q, x)
           n == Len(q) + 1
<1>1. /\ Len(r) = n /\ n \in Nat /\ r[n] = x /\ Len(q) \in Nat
      /\ \A i \in 1 .. Len(q) : r[i] = q[i]
  BY AppendProperties
<1>2. n \notin PlacesOf(q, S)
  BY <1>1 DEF PlacesOf
<1>3. \A i \in 1 .. n : i = n \/ i \in 1 .. Len(q)
  BY <1>1
<1>4. IsFiniteSet(PlacesOf(q, S)) /\ Times(q, S) \in Nat
  BY TimesIsNat
<1> HIDE DEF r, n
<1>5. CASE x \in S
  <2>1. PlacesOf(r, S) = PlacesOf(q, S) \cup {n}
    <3>1. ASSUME NEW i \in PlacesOf(r, S) PROVE i \in PlacesOf(q, S) \cup {n}
      BY <1>1, <1>3 DEF PlacesOf
    <3>2. ASSUME NEW i \in PlacesOf(q, S) PROVE i \in PlacesOf(r, S)
      BY <1>1 DEF PlacesOf, n
    <3>3. n \in PlacesOf(r, S)
      BY <1>1, <1>5 DEF PlacesOf, n
    <3> QED
      BY <3>1, <3>2, <3>3
  <2> QED
    BY <1>2, <1>4, <1>5, <2>1, FS_AddElement DEF Times, r
<1>6. CASE x \notin S
  <2>1. PlacesOf(r, S) = PlacesOf(q, S)
    <3>1. ASSUME NEW i \in PlacesOf(r, S) PROVE i \in PlacesOf(q, S)
      BY <1>1, <1>3, <1>6 DEF PlacesOf
    <3>2. ASSUME NEW i \in PlacesOf(q, S) PROVE i \in PlacesOf(r, S)
      BY <1>1 DEF PlacesOf, n
    <3> QED
      BY <3>1, <3>2
  <2> QED
    BY <1>4, <1>6, <2>1 DEF Times, r
<1> QED
  BY <1>5, <1>6

LEMMA TimesConcat ==
  ASSUME NEW T, NEW q \in Seq(T), NEW r \in Seq(T), NEW S
  PROVE  Times(q \o r, S) = Times(q, S) + Times(r, S)
<1> DEFINE n == Len(q)
           s == q \o r
           A == PlacesOf(q, S)
           B == PlacesOf(r, S)
           C == {i \in PlacesOf(s, S) : i > n}
           f == [i \in B |-> n + i]
<1>1. /\ s \in Seq(T) /\ Len(s) = n + Len(r) /\ n \in Nat /\ Len(r) \in Nat
      /\ \A i \in 1 .. Len(s) : s[i] = IF i <= n THEN q[i] ELSE r[i - n]
  BY ConcatProperties
<1>2. IsFiniteSet(A) /\ IsFiniteSet(B) /\ IsFiniteSet(PlacesOf(s, S))
  BY <1>1, TimesIsNat
<1>3. IsFiniteSet(C)
  <2>1. C \subseteq PlacesOf(s, S)
    OBVIOUS
  <2> QED
    BY <1>2, <2>1, FS_Subset
<1>4. PlacesOf(s, S) = A \cup C /\ A \cap C = {}
  <2> HIDE DEF s, n
  <2>1. ASSUME NEW i \in PlacesOf(s, S) PROVE i \in A \cup C
    <3>1. CASE i <= n
      BY <1>1, <3>1 DEF PlacesOf, n
    <3>2. CASE i > n
      BY <3>2
    <3> QED
      BY <1>1, <3>1, <3>2 DEF PlacesOf
  <2>2. ASSUME NEW i \in A PROVE i \in PlacesOf(s, S) /\ i \notin C
    BY <1>1 DEF PlacesOf, n
  <2> QED
    BY <2>1, <2>2
<1>5. Cardinality(C) = Cardinality(B)
  <2> HIDE DEF s, n
  <2>1. ASSUME NEW i \in B PROVE n + i \in C /\ f[i] = n + i
    <3>1. i \in 1 .. Len(r) /\ r[i] \in S
      BY DEF PlacesOf
    <3>2. n + i \in 1 .. Len(s) /\ n + i > n /\ (n + i) - n = i
      BY <1>1, <3>1
    <3>3. s[n + i] = r[i]
      BY <1>1, <3>2
    <3> QED
      BY <3>1, <3>2, <3>3 DEF PlacesOf
  <2>2. \A i, j \in B : f[i] = f[j] => i = j
    <3>1. \A i \in B : i \in Nat
      BY DEF PlacesOf
    <3> QED
      BY <1>1, <2>1, <3>1
  <2>3. ASSUME NEW k \in C PROVE \E i \in B : f[i] = k
    <3>1. k \in 1 .. Len(s) /\ s[k] \in S /\ k > n
      BY DEF PlacesOf
    <3>2. k - n \in 1 .. Len(r) /\ r[k - n] \in S /\ n + (k - n) = k
      BY <1>1, <3>1
    <3>3. k - n \in B
      BY <3>2 DEF PlacesOf
    <3> QED
      BY <2>1, <3>2, <3>3
  <2>4. f \in [B -> C]
    BY <2>1
  <2>5. f \in Bijection(B, C)
    <3> HIDE DEF f, B, C
    <3> QED
      BY <2>2, <2>3, <2>4, Fun_IsBij
  <2>6. ExistsBijection(B, C)
    <3> HIDE DEF f, B, C
    <3> QED
      BY <2>5 DEF ExistsBijection
  <2> HIDE DEF B, C
  <2> QED
    BY <1>2, <1>3, <2>6, FS_Bijection
<1>6. Cardinality(A \cup C) = Cardinality(A) + Cardinality(C)
  <2>1. Cardinality({}) = 0 /\ Cardinality(A) \in Nat /\ Cardinality(C) \in Nat
    BY <1>2, <1>3, FS_EmptySet, FS_CardinalityType
  <2> HIDE DEF A, C
  <2> QED
    <3>1. Cardinality(A \cup C) = Cardinality(A) + Cardinality(C) - Cardinality(A \cap C)
      BY <1>2, <1>3, FS_Union
    <3>2. Cardinality(A \cap C) = 0
      BY <1>4, <2>1
    <3> QED
      BY <2>1, <3>1, <3>2
<1> QED
  BY <1>4, <1>5, <1>6 DEF Times

LEMMA TimesTail ==
  ASSUME NEW T, NEW q \in Seq(T), q # << >>, NEW S
  PROVE  Times(q, S) = Times(Tail(q), S) + (IF Head(q) \in S THEN 1 ELSE 0)
<1> DEFINE h == Head(q)
           t == Tail(q)
<1>1. h \in T /\ t \in Seq(T) /\ q = <<h>> \o t
  <2>1. Len(q) \in Nat \ {0}
    BY EmptySeq
  <2>2. SubSeq(q, 1, Len(q)) = <<q[1]>> \o SubSeq(q, 2, Len(q))
    BY <2>1, SubSeqRecursiveFirst
  <2> QED
    BY <2>1, <2>2, SubSeqFull, TailIsSubSeq, HeadTailProperties
<1> HIDE DEF h, t
<1>2. <<h>> = Append(<< >>, h) /\ << >> \in Seq(T) /\ <<h>> \in Seq(T)
  BY <1>1
<1>3. Times(<<h>>, S) = IF h \in S THEN 1 ELSE 0
  <2>1. Times(Append(<< >>, h), S) = Times(<< >>, S) + (IF h \in S THEN 1 ELSE 0)
    BY <1>1, <1>2, TimesAppend
  <2> QED
    BY <1>2, <2>1, TimesEmpty
<1>4. Times(q, S) = Times(<<h>>, S) + Times(t, S)
  BY <1>1, <1>2, TimesConcat
<1>5. Times(t, S) \in Nat
  BY <1>1, TimesIsNat
<1> QED
  BY <1>3, <1>4, <1>5 DEF h, t

(* A sequence is what is before a place and what is after it.              *)
LEMMA TimesSplit ==
  ASSUME NEW T, NEW q \in Seq(T), NEW n \in 0 .. Len(q), NEW S
  PROVE  /\ SubSeq(q, 1, n) \in Seq(T) /\ SubSeq(q, n + 1, Len(q)) \in Seq(T)
         /\ Times(q, S) = Times(SubSeq(q, 1, n), S) + Times(SubSeq(q, n + 1, Len(q)), S)
<1>1. Len(q) \in Nat /\ n \in Nat /\ n <= Len(q)
  OBVIOUS
<1>2. SubSeq(q, 1, n) \in Seq(T) /\ SubSeq(q, n + 1, Len(q)) \in Seq(T)
  <2>1. \A i \in 1 .. n : q[i] \in T
    BY <1>1
  <2>2. \A i \in n + 1 .. Len(q) : q[i] \in T
    BY <1>1
  <2> QED
    BY <1>1, <2>1, <2>2, SubSeqProperties
<1>3. SubSeq(q, 1, n) \o SubSeq(q, n + 1, Len(q)) = q
  <2>1. SubSeq(q, 1, n) \o SubSeq(q, n + 1, Len(q)) = SubSeq(q, 1, Len(q))
    <3>1. 1 \in 1 .. Len(q) + 1 /\ n \in 1 - 1 .. Len(q) /\ Len(q) \in n .. Len(q)
      BY <1>1
    <3> QED
      BY <3>1, ConcatAdjacentSubSeq
  <2> QED
    BY <2>1, SubSeqFull
<1>4. Times(SubSeq(q, 1, n) \o SubSeq(q, n + 1, Len(q)), S)
        = Times(SubSeq(q, 1, n), S) + Times(SubSeq(q, n + 1, Len(q)), S)
  BY <1>2, TimesConcat
<1> QED
  BY <1>2, <1>3, <1>4

=============================================================================
