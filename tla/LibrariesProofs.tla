-------------------------- MODULE LibrariesProofs --------------------------
(***************************************************************************)
(* Proofs about five of the libraries that run on their callers' threads,  *)
(* for any number of clients, objects, controls and paths and any bounds:  *)
(* audio_utils' FIFO, the framebuffer's window, graphic buffers, the echo  *)
(* reference and the mixer's paths.  Each has an inductive invariant of    *)
(* its own, stated before its lemmas; the theorems are at the end.         *)
(***************************************************************************)
EXTENDS MCLibraries, CountingLemmas

-----------------------------------------------------------------------------
(* audio_utils/fifo.c (AudioFifo), for every size of the ring and width of *)
(* its indices, and every number of frames a call asks for.                *)
(*                                                                         *)
(* The argument: an index is a round, a multiple of FrameCountP2, and an   *)
(* offset below FrameCount; adding to it goes to the next round, past the  *)
(* skipped offsets, and after the last round to the first.  So the signed  *)
(* difference of two indices, less what was skipped, is the number of      *)
(* frames between them (DiffIsCount), if the writer is less than a round   *)
(* ahead (Ahead).  Counted from the reader's offset around the ring, the   *)
(* reader's slots come first and the writer's after all that was written.  *)
(* FifoInv says so, and what each call has copied when it is between two   *)
(* of its steps; storing an index is then the abstract queue's step.       *)

(* Powers of two and remainders                                            *)

LEMMA PowersArePositive == \A k \in 0 .. Width : 2 ^ k \in Nat /\ 2 ^ k > 0
<1> DEFINE Wrong == {k \in 0 .. Width : ~ (2 ^ k \in Nat /\ 2 ^ k > 0)}
<1>0. Width \in Nat /\ Width > 0 /\ 2 ^ 0 = 1 /\ \A k \in 0 .. Width - 1 : 2 ^ (k + 1) = 2 * 2 ^ k
  BY AudioFifoAssumption, PowersOfTwo
<1>1. SUFFICES ASSUME Wrong # {} PROVE FALSE
  OBVIOUS
<1>2. Wrong \subseteq Nat
  BY <1>0
<1>3. \E k \in Wrong : \A j \in Wrong : k <= j
  <2> HIDE DEF Wrong
  <2> QED
    BY <1>1, <1>2, Least
<1>4. PICK k \in Wrong : \A j \in Wrong : k <= j
  BY <1>3
<1>5. k \in 0 .. Width /\ k # 0
  <2>1. 2 ^ 0 \in Nat /\ 2 ^ 0 > 0
    BY <1>0
  <2>2. k \in 0 .. Width /\ ~ (2 ^ k \in Nat /\ 2 ^ k > 0)
    BY <1>4
  <2> QED
    BY <2>1, <2>2
<1>6. k - 1 \in 0 .. Width - 1 /\ k - 1 \notin Wrong /\ (k - 1) + 1 = k
  BY <1>0, <1>4, <1>5
<1>7. 2 ^ (k - 1) \in Nat /\ 2 ^ (k - 1) > 0
  BY <1>0, <1>6
<1>8. 2 ^ k = 2 * 2 ^ (k - 1)
  BY <1>0, <1>6
<1> QED
  BY <1>4, <1>7, <1>8

(* From a power on, each is at least as great and a multiple of it.        *)
LEMMA PowersAreMultiples ==
  ASSUME NEW j \in 0 .. Width
  PROVE  \A k \in j .. Width : 2 ^ j <= 2 ^ k /\ \E c \in Nat : 2 ^ k = c * 2 ^ j
<1> DEFINE p == 2 ^ j
           OK(k) == p <= 2 ^ k /\ \E c \in Nat : 2 ^ k = c * p
           Wrong == {k \in j .. Width : ~ OK(k)}
<1>0. /\ Width \in Nat /\ \A k \in 0 .. Width - 1 : 2 ^ (k + 1) = 2 * 2 ^ k
      /\ \A k \in 0 .. Width : 2 ^ k \in Nat /\ 2 ^ k > 0
      /\ p \in Nat
  BY AudioFifoAssumption, PowersOfTwo, PowersArePositive
<1> HIDE DEF p
<1>1. SUFFICES ASSUME Wrong # {} PROVE FALSE
  BY DEF p
<1>2. Wrong \subseteq Nat
  BY <1>0
<1>3. \E k \in Wrong : \A i \in Wrong : k <= i
  <2> HIDE DEF Wrong
  <2> QED
    BY <1>1, <1>2, Least
<1>4. PICK k \in Wrong : \A i \in Wrong : k <= i
  BY <1>3
<1>5. OK(j)
  <2>1. 2 ^ j = 1 * p
    BY <1>0 DEF p
  <2> QED
    BY <1>0, <2>1 DEF p
<1>6. k \in j .. Width /\ k # j /\ j \in Nat
  BY <1>0, <1>4, <1>5
<1>7. k - 1 \in j .. Width /\ k - 1 \in 0 .. Width - 1 /\ k - 1 \notin Wrong /\ (k - 1) + 1 = k
  BY <1>0, <1>4, <1>6
<1>8. OK(k - 1)
  BY <1>7
<1>9. 2 ^ k = 2 * 2 ^ (k - 1) /\ 2 ^ (k - 1) \in Nat
  BY <1>0, <1>7
<1>10. PICK c \in Nat : 2 ^ (k - 1) = c * p
  BY <1>8
<1>11. 2 * c \in Nat /\ 2 ^ k = (2 * c) * p
  BY <1>0, <1>9, <1>10
<1>12. p <= 2 ^ k
  BY <1>0, <1>8, <1>9
<1>13. OK(k)
  BY <1>11, <1>12
<1> QED
  BY <1>4, <1>13

(* The ring, what is rounded up, and the indices.                          *)
LEMMA FifoSizes ==
  /\ FrameCount \in Nat /\ FrameCount > 0 /\ FrameCountP2 \in Nat
  /\ FrameCount <= FrameCountP2 /\ FrameCountP2 < 2 * FrameCount
  /\ Wrap \in Nat /\ 2 * FrameCountP2 <= Wrap /\ 2 * (Wrap \div 2) = Wrap
  /\ FudgeFactor = FrameCountP2 - FrameCount
  /\ \E c \in Nat : Wrap = c * FrameCountP2
<1>0. /\ FrameCount \in Nat /\ FrameCount > 0 /\ Width \in Nat /\ Width > 0
      /\ FrameCount <= 2 ^ (Width - 1)
      /\ 2 ^ 0 = 1 /\ \A k \in 0 .. Width - 1 : 2 ^ (k + 1) = 2 * 2 ^ k
      /\ \A k \in 0 .. Width : 2 ^ k \in Nat /\ 2 ^ k > 0
  BY AudioFifoAssumption, PowersOfTwo, PowersArePositive
<1> DEFINE Enough == {k \in 0 .. Width - 1 : FrameCount <= 2 ^ k}
<1>1. Enough \subseteq Nat /\ Enough # {}
  <2>1. Width - 1 \in 0 .. Width - 1
    BY <1>0
  <2>2. Width - 1 \in Enough
    BY <1>0, <2>1
  <2>3. \A k \in 0 .. Width - 1 : k \in Nat
    BY <1>0
  <2> QED
    BY <2>2, <2>3
<1>2. \E k \in Enough : \A j \in Enough : k <= j
  <2> HIDE DEF Enough
  <2> QED
    BY <1>1, Least
<1>3. PICK k \in Enough : \A j \in Enough : k <= j
  BY <1>2
<1>4. 2 ^ k >= FrameCount /\ 2 ^ k < 2 * FrameCount /\ k \in 0 .. Width
  <2>1. k \in 0 .. Width - 1 /\ FrameCount <= 2 ^ k /\ 2 ^ k \in Nat
    BY <1>0, <1>3
  <2>2. CASE k = 0
    BY <1>0, <2>1, <2>2
  <2>3. CASE k # 0
    <3>1. k - 1 \in 0 .. Width - 1 /\ k - 1 \notin Enough /\ (k - 1) + 1 = k
      BY <1>0, <1>3, <2>1, <2>3
    <3>2. ~ FrameCount <= 2 ^ (k - 1) /\ 2 ^ (k - 1) \in Nat
      BY <1>0, <3>1
    <3>3. 2 ^ k = 2 * 2 ^ (k - 1)
      BY <1>0, <3>1
    <3> QED
      BY <1>0, <2>1, <3>2, <3>3
  <2> QED
    BY <1>0, <2>1, <2>2, <2>3
<1>5. PICK j \in 0 .. Width :
        FrameCountP2 = 2 ^ j /\ FrameCountP2 >= FrameCount /\ FrameCountP2 < 2 * FrameCount
  <2> DEFINE S == {2 ^ i : i \in 0 .. Width}
  <2>1. \E p \in S : p >= FrameCount /\ p < 2 * FrameCount
    BY <1>4
  <2>2. FrameCountP2 \in S /\ FrameCountP2 >= FrameCount /\ FrameCountP2 < 2 * FrameCount
    BY <2>1 DEF FrameCountP2
  <2> QED
    BY <2>2
<1>6. Width - 1 \in 0 .. Width - 1 /\ (Width - 1) + 1 = Width
  BY <1>0
<1>7. 2 ^ Width = 2 * 2 ^ (Width - 1) /\ 2 ^ (Width - 1) \in Nat /\ 2 ^ Width \in Nat
  BY <1>0, <1>6
<1>8. j # Width
  BY <1>0, <1>5, <1>7
<1>9. Width - 1 \in j .. Width /\ Width \in j .. Width
  BY <1>0, <1>5, <1>8
<1>10. FrameCountP2 <= 2 ^ (Width - 1)
  BY <1>5, <1>9, PowersAreMultiples
<1>11. \E c \in Nat : Wrap = c * FrameCountP2
  BY <1>5, <1>9, PowersAreMultiples DEF Wrap
<1>12. FrameCountP2 \in Nat
  BY <1>0, <1>5
<1>13. Wrap = 2 * 2 ^ (Width - 1) /\ Wrap \in Nat
  BY <1>7 DEF Wrap
<1>14. 2 * (Wrap \div 2) = Wrap
  BY <1>7, <1>13
<1> QED
  BY <1>0, <1>5, <1>7, <1>10, <1>11, <1>12, <1>13, <1>14 DEF FudgeFactor

LEMMA RemainderOf ==
  ASSUME NEW d \in Nat, d > 0, NEW x \in Nat
  PROVE  x % d \in 0 .. d - 1 /\ \E c \in Nat : x = c * d + (x % d)
<1>1. x \div d \in Nat /\ x % d \in 0 .. d - 1
  OBVIOUS
<1>2. x = (x \div d) * d + (x % d)
  OBVIOUS
<1> QED
  BY <1>1, <1>2

LEMMA OnlyRemainder ==
  ASSUME NEW d \in Nat, d > 0, NEW c \in Int, NEW r \in 0 .. d - 1
  PROVE  (c * d + r) % d = r
  OBVIOUS

LEMMA ModuloOf ==
  ASSUME NEW d \in Nat, d > 0, NEW r \in 0 .. d - 1
  PROVE  r % d = r /\ (r + d) % d = r /\ (r - d) % d = r
<1>1. (0 * d + r) % d = r /\ (1 * d + r) % d = r /\ ((-1) * d + r) % d = r
  BY OnlyRemainder
<1>2. 0 * d + r = r /\ 1 * d + r = r + d /\ (-1) * d + r = r - d
  OBVIOUS
<1> QED
  BY <1>1, <1>2

-----------------------------------------------------------------------------
(* Indices: an offset in a round; the round after the last is the first.   *)

Multiple(m) == m \in Nat /\ \E c \in Nat : m = c * FrameCountP2
Following(m) == IF m + FrameCountP2 = Wrap THEN 0 ELSE m + FrameCountP2

LEMMA IndexParts ==
  ASSUME NEW x \in Nat
  PROVE  /\ Offset(x) \in 0 .. FrameCountP2 - 1 /\ Round(x) \in Nat /\ Multiple(Round(x))
         /\ x = Round(x) + Offset(x)
<1>0. FrameCountP2 \in Nat /\ FrameCountP2 > 0
  BY FifoSizes
<1>1. x % FrameCountP2 \in 0 .. FrameCountP2 - 1
      /\ \E c \in Nat : x = c * FrameCountP2 + (x % FrameCountP2)
  BY <1>0, RemainderOf
<1>2. PICK c \in Nat : x = c * FrameCountP2 + (x % FrameCountP2)
  BY <1>1
<1>3. c * FrameCountP2 \in Nat
  BY <1>0
<1>4. Round(x) = c * FrameCountP2 /\ Offset(x) \in 0 .. FrameCountP2 - 1
  BY <1>0, <1>1, <1>2, <1>3 DEF Round, Offset
<1> QED
  BY <1>0, <1>3, <1>4 DEF Round, Multiple

LEMMA IndexOf ==
  ASSUME NEW m, Multiple(m), NEW o \in 0 .. FrameCountP2 - 1
  PROVE  Offset(m + o) = o /\ Round(m + o) = m
<1>0. FrameCountP2 \in Nat /\ FrameCountP2 > 0 /\ m \in Nat
  BY FifoSizes DEF Multiple
<1>1. PICK c \in Nat : m = c * FrameCountP2
  BY DEF Multiple
<1>2. (c * FrameCountP2 + o) % FrameCountP2 = o
  BY <1>0, OnlyRemainder
<1>3. Offset(m + o) = o
  BY <1>1, <1>2 DEF Offset
<1> QED
  BY <1>0, <1>3 DEF Round

LEMMA RoundAfter ==
  ASSUME NEW m, Multiple(m), m < Wrap
  PROVE  /\ m + FrameCountP2 <= Wrap
         /\ Multiple(Following(m)) /\ Following(m) < Wrap /\ Following(m) # m
<1>0. /\ FrameCountP2 \in Nat /\ FrameCountP2 > 0 /\ m \in Nat
      /\ Wrap \in Nat /\ 2 * FrameCountP2 <= Wrap
  BY FifoSizes DEF Multiple
<1>1. PICK c \in Nat : m = c * FrameCountP2
  BY DEF Multiple
<1>2. PICK d \in Nat : Wrap = d * FrameCountP2
  BY FifoSizes
<1>3. c + 1 <= d
  <2>1. SUFFICES ASSUME d <= c PROVE FALSE
    OBVIOUS
  <2>2. d * FrameCountP2 <= c * FrameCountP2
    BY <1>0, <2>1
  <2> QED
    BY <1>0, <1>1, <1>2, <2>2
<1>4. (c + 1) * FrameCountP2 <= d * FrameCountP2
  BY <1>0, <1>3
<1>5. (c + 1) * FrameCountP2 = m + FrameCountP2
  BY <1>0, <1>1
<1>6. m + FrameCountP2 <= Wrap
  BY <1>2, <1>4, <1>5
<1>7. CASE m + FrameCountP2 = Wrap
  <2>1. 0 = 0 * FrameCountP2
    BY <1>0
  <2> QED
    BY <1>0, <1>6, <1>7, <2>1 DEF Following, Multiple
<1>8. CASE m + FrameCountP2 # Wrap
  <2>1. c + 1 \in Nat
    OBVIOUS
  <2> QED
    BY <1>0, <1>5, <1>6, <1>8, <2>1 DEF Following, Multiple
<1> QED
  BY <1>6, <1>7, <1>8

InRing(x) == x \in Indices /\ Offset(x) < FrameCount

LEMMA RingIndex ==
  ASSUME NEW x, InRing(x)
  PROVE  /\ x \in Nat /\ x < Wrap /\ Offset(x) \in 0 .. FrameCount - 1 /\ Multiple(Round(x))
         /\ Round(x) \in Nat /\ Round(x) + FrameCountP2 <= Wrap /\ x = Round(x) + Offset(x)
         /\ Multiple(Following(Round(x))) /\ Following(Round(x)) < Wrap
         /\ Following(Round(x)) # Round(x)
<1>0. Wrap \in Nat /\ FrameCount \in Nat
  BY FifoSizes
<1>1. x \in Nat /\ x < Wrap
  BY <1>0 DEF InRing, Indices
<1>2. /\ Offset(x) \in Nat /\ Round(x) \in Nat /\ Multiple(Round(x))
      /\ x = Round(x) + Offset(x)
  BY <1>1, FifoSizes, IndexParts
<1>3. Round(x) < Wrap
  BY <1>0, <1>1, <1>2
<1>4. Offset(x) \in 0 .. FrameCount - 1
  BY <1>0, <1>2 DEF InRing
<1> QED
  BY <1>1, <1>2, <1>3, <1>4, RoundAfter

(* audio_utils_fifo_sum(): what it asserts of its result.                  *)
LEMMA SumStaysInRing ==
  ASSUME NEW x, InRing(x), NEW n \in 0 .. FrameCount
  PROVE  /\ InRing(Sum(x, n))
         /\ Offset(x) + n < FrameCount =>
              Round(Sum(x, n)) = Round(x) /\ Offset(Sum(x, n)) = Offset(x) + n
         /\ Offset(x) + n >= FrameCount =>
              /\ Round(Sum(x, n)) = Following(Round(x))
              /\ Offset(Sum(x, n)) = Offset(x) + n - FrameCount
<1> DEFINE o == Offset(x)
           m == Round(x)
<1>0. /\ FrameCount \in Nat /\ FrameCount > 0 /\ FrameCountP2 \in Nat
      /\ FrameCount <= FrameCountP2 /\ Wrap \in Nat /\ 2 * FrameCountP2 <= Wrap
      /\ FudgeFactor = FrameCountP2 - FrameCount
  BY FifoSizes
<1>1. /\ x \in Nat /\ o \in 0 .. FrameCount - 1 /\ Multiple(m) /\ m \in Nat
      /\ m + FrameCountP2 <= Wrap /\ x = m + o
      /\ Multiple(Following(m)) /\ Following(m) < Wrap
  BY RingIndex
<1> HIDE DEF o, m
<1>2. Sum(x, n) = (x + n + IF o + n >= FrameCount THEN FudgeFactor ELSE 0) % Wrap
  BY DEF Sum, o
<1>3. CASE o + n < FrameCount
  <2> DEFINE p == o + n
  <2>1. p \in 0 .. FrameCount - 1 /\ p \in 0 .. FrameCountP2 - 1
    BY <1>0, <1>1, <1>3
  <2>2. m + p \in 0 .. Wrap - 1
    BY <1>0, <1>1, <2>1
  <2>3. Sum(x, n) = (m + p) % Wrap
    BY <1>0, <1>1, <1>2, <1>3
  <2> HIDE DEF p
  <2>4. Sum(x, n) = m + p
    BY <1>0, <2>2, <2>3, ModuloOf
  <2>5. Offset(m + p) = p /\ Round(m + p) = m
    BY <1>1, <2>1, IndexOf
  <2> QED
    BY <1>0, <1>1, <1>3, <2>1, <2>2, <2>4, <2>5 DEF InRing, Indices, o, m, p
<1>4. CASE o + n >= FrameCount
  <2> DEFINE p == o + n - FrameCount
             q == Following(m)
  <2>1. p \in 0 .. FrameCount - 1 /\ p \in 0 .. FrameCountP2 - 1
    BY <1>0, <1>1, <1>4
  <2>2. Sum(x, n) = (m + FrameCountP2 + p) % Wrap
    <3>1. x + n + FudgeFactor = m + FrameCountP2 + p
      BY <1>0, <1>1
    <3> QED
      BY <1>2, <1>4, <3>1
  <2> HIDE DEF p
  <2>3. q \in Nat /\ q + p \in 0 .. Wrap - 1
    <3>1. Multiple(q) /\ q < Wrap
      BY <1>1
    <3>2. q + FrameCountP2 <= Wrap /\ q \in Nat
      BY <3>1, RoundAfter DEF Multiple
    <3> QED
      BY <1>0, <2>1, <3>2
  <2>4. Sum(x, n) = q + p
    <3>1. CASE m + FrameCountP2 = Wrap
      <4>1. q = 0 /\ p \in 0 .. Wrap - 1
        <5>1. q = 0
          BY <3>1 DEF Following
        <5> HIDE DEF q
        <5>2. p \in 0 .. Wrap - 1
          BY <1>0, <2>1, <2>3, <5>1
        <5> QED
          BY <5>1, <5>2
      <4>2. (p + Wrap) % Wrap = p
        BY <1>0, <4>1, ModuloOf
      <4>3. m + FrameCountP2 + p = p + Wrap
        BY <1>0, <1>1, <2>1, <3>1
      <4> QED
        BY <1>0, <2>1, <2>2, <4>1, <4>2, <4>3
    <3>2. CASE m + FrameCountP2 # Wrap
      <4>1. q = m + FrameCountP2
        BY <3>2 DEF Following
      <4>2. (q + p) % Wrap = q + p
        BY <1>0, <2>3, ModuloOf
      <4> QED
        BY <2>2, <4>1, <4>2
    <3> QED
      BY <3>1, <3>2
  <2>5. Offset(q + p) = p /\ Round(q + p) = q
    BY <1>1, <2>1, IndexOf
  <2> QED
    BY <1>0, <1>1, <1>4, <2>1, <2>3, <2>4, <2>5 DEF InRing, Indices, o, m, p
<1> QED
  BY <1>0, <1>1, <1>3, <1>4

-----------------------------------------------------------------------------
(* The writer is at most a round ahead of the reader, by so many frames.   *)

Ahead(r, f) ==
  /\ InRing(r) /\ InRing(f)
  /\ \/ Round(r) = Round(f) /\ Offset(r) >= Offset(f)
     \/ Round(r) = Following(Round(f)) /\ Offset(r) <= Offset(f)

Count(r, f) ==
  IF Round(r) = Round(f) THEN Offset(r) - Offset(f) ELSE FrameCount + Offset(r) - Offset(f)

LEMMA CountIsBounded ==
  ASSUME NEW r, NEW f, Ahead(r, f)
  PROVE  Count(r, f) \in 0 .. FrameCount
<1>1. Offset(r) \in 0 .. FrameCount - 1 /\ Offset(f) \in 0 .. FrameCount - 1 /\ FrameCount \in Nat
  BY FifoSizes, RingIndex DEF Ahead
<1> QED
  BY <1>1, RingIndex DEF Ahead, Count

LEMMA SignedOf ==
  ASSUME NEW y \in 0 .. Wrap - 1, NEW x \in {y, y - Wrap}
  PROVE  Signed(x) = IF 2 * y >= Wrap THEN y - Wrap ELSE y
<1>0. Wrap \in Nat /\ Wrap > 0 /\ 2 * (Wrap \div 2) = Wrap /\ Wrap \div 2 \in Nat
  BY FifoSizes
<1>1. x % Wrap = y
  BY <1>0, ModuloOf
<1> QED
  BY <1>0, <1>1 DEF Signed

(* audio_utils_fifo_diff(), if FrameCount is not half of what an index     *)
(* counts: a full FIFO of that many frames has a negative difference.      *)
LEMMA DiffIsCount ==
  ASSUME FrameCount # Wrap \div 2, NEW r, NEW f, Ahead(r, f)
  PROVE  Diff(r, f) = Count(r, f)
<1> DEFINE o == Offset(r)
           u == Offset(f)
           m == Round(r)
           k == Round(f)
<1>0. /\ FrameCount \in Nat /\ FrameCount > 0 /\ FrameCountP2 \in Nat
      /\ FrameCount <= FrameCountP2 /\ Wrap \in Nat /\ 2 * FrameCountP2 <= Wrap
      /\ FudgeFactor = FrameCountP2 - FrameCount
      /\ 2 * (Wrap \div 2) = Wrap /\ Wrap \div 2 \in Nat /\ FrameCount # Wrap \div 2
  BY FifoSizes
<1>1. /\ o \in 0 .. FrameCount - 1 /\ u \in 0 .. FrameCount - 1 /\ m \in Nat /\ k \in Nat
      /\ r = m + o /\ f = k + u /\ k + FrameCountP2 <= Wrap
      /\ \/ m = k /\ o >= u
         \/ m = Following(k) /\ o <= u
      /\ Following(k) # k
  BY RingIndex DEF Ahead
<1>2. /\ Diff(r, f) = Signed(Signed(r - f) - IF m # k THEN FudgeFactor ELSE 0)
      /\ Count(r, f) = IF m = k THEN o - u ELSE FrameCount + o - u
  BY DEF Diff, Count
<1> HIDE DEF o, u, m, k
<1>3. CASE m = k
  <2>1. r - f = o - u /\ o - u \in 0 .. Wrap - 1 /\ 2 * (o - u) < Wrap
    BY <1>0, <1>1, <1>3
  <2>2. Signed(o - u) = o - u
    BY <1>0, <1>1, <2>1, SignedOf
  <2>3. (o - u) - 0 = o - u
    BY <1>1
  <2> QED
    BY <1>2, <1>3, <2>1, <2>2, <2>3
<1>4. CASE m # k
  <2> DEFINE y == FrameCountP2 + o - u
             d == FrameCount + o - u
  <2>1. /\ y \in 0 .. Wrap - 1 /\ 2 * y <= Wrap /\ y - FudgeFactor = d
        /\ d \in 0 .. Wrap - 1 /\ 2 * d < Wrap
    BY <1>0, <1>1, <1>4
  <2>2. r - f \in {y, y - Wrap}
    <3>1. m = Following(k)
      BY <1>1, <1>4
    <3>2. CASE k + FrameCountP2 = Wrap
      <4>1. m = 0
        BY <3>1, <3>2 DEF Following
      <4>2. r - f = y - Wrap
        BY <1>0, <1>1, <3>2, <4>1
      <4> QED
        BY <4>2
    <3>3. CASE k + FrameCountP2 # Wrap
      <4>1. m = k + FrameCountP2
        BY <3>1, <3>3 DEF Following
      <4>2. r - f = y
        BY <1>0, <1>1, <4>1
      <4> QED
        BY <4>2
    <3> QED
      BY <3>2, <3>3
  <2> HIDE DEF y, d
  <2>3. Signed(r - f) = IF 2 * y >= Wrap THEN y - Wrap ELSE y
    BY <2>1, <2>2, SignedOf
  <2>4. Signed(r - f) - FudgeFactor \in {d, d - Wrap}
    BY <1>0, <2>1, <2>3
  <2>5. Signed(Signed(r - f) - FudgeFactor) = d
    BY <1>0, <2>1, <2>4, SignedOf
  <2> QED
    BY <1>2, <1>4, <2>5 DEF d
<1> QED
  BY <1>3, <1>4

LEMMA WriterAdvances ==
  ASSUME NEW r, NEW f, Ahead(r, f), NEW n \in 0 .. FrameCount, n + Count(r, f) <= FrameCount
  PROVE  Ahead(Sum(r, n), f) /\ Count(Sum(r, n), f) = Count(r, f) + n
<1>0. FrameCount \in Nat
  BY FifoSizes
<1>1. /\ Offset(r) \in 0 .. FrameCount - 1 /\ Offset(f) \in 0 .. FrameCount - 1
      /\ Following(Round(f)) # Round(f)
  BY RingIndex DEF Ahead
<1>2. /\ InRing(Sum(r, n))
      /\ Offset(r) + n < FrameCount =>
           Round(Sum(r, n)) = Round(r) /\ Offset(Sum(r, n)) = Offset(r) + n
      /\ Offset(r) + n >= FrameCount =>
           /\ Round(Sum(r, n)) = Following(Round(r))
           /\ Offset(Sum(r, n)) = Offset(r) + n - FrameCount
  BY SumStaysInRing DEF Ahead
<1> DEFINE s == Sum(r, n)
<1> HIDE DEF s
<1>3. CASE Round(r) = Round(f)
  <2>1. Offset(r) >= Offset(f) /\ Count(r, f) = Offset(r) - Offset(f)
    BY <1>1, <1>3 DEF Ahead, Count
  <2>2. CASE Offset(r) + n < FrameCount
    BY <1>0, <1>1, <1>2, <1>3, <2>1, <2>2 DEF Ahead, Count
  <2>3. CASE Offset(r) + n >= FrameCount
    BY <1>0, <1>1, <1>2, <1>3, <2>1, <2>3 DEF Ahead, Count
  <2> QED
    BY <1>0, <1>1, <2>2, <2>3
<1>4. CASE Round(r) # Round(f)
  <2>1. /\ Round(r) = Following(Round(f)) /\ Offset(r) <= Offset(f)
        /\ Count(r, f) = FrameCount + Offset(r) - Offset(f)
    BY <1>4 DEF Ahead, Count
  <2>2. Offset(r) + n < FrameCount /\ Offset(r) + n <= Offset(f)
    BY <1>0, <1>1, <2>1
  <2> QED
    BY <1>0, <1>1, <1>2, <1>4, <2>1, <2>2 DEF Ahead, Count
<1> QED
  BY <1>3, <1>4

LEMMA ReaderAdvances ==
  ASSUME NEW r, NEW f, Ahead(r, f), NEW n \in 0 .. FrameCount, n <= Count(r, f)
  PROVE  Ahead(r, Sum(f, n)) /\ Count(r, Sum(f, n)) = Count(r, f) - n
<1>0. FrameCount \in Nat
  BY FifoSizes
<1>1. /\ Offset(r) \in 0 .. FrameCount - 1 /\ Offset(f) \in 0 .. FrameCount - 1
      /\ Following(Round(f)) # Round(f)
  BY RingIndex DEF Ahead
<1>2. /\ InRing(Sum(f, n))
      /\ Offset(f) + n < FrameCount =>
           Round(Sum(f, n)) = Round(f) /\ Offset(Sum(f, n)) = Offset(f) + n
      /\ Offset(f) + n >= FrameCount =>
           /\ Round(Sum(f, n)) = Following(Round(f))
           /\ Offset(Sum(f, n)) = Offset(f) + n - FrameCount
  BY SumStaysInRing DEF Ahead
<1>3. CASE Round(r) = Round(f)
  <2>1. Offset(r) >= Offset(f) /\ Count(r, f) = Offset(r) - Offset(f)
    BY <1>1, <1>3 DEF Ahead, Count
  <2>2. Offset(f) + n < FrameCount /\ Offset(f) + n <= Offset(r)
    BY <1>0, <1>1, <2>1
  <2> QED
    BY <1>0, <1>1, <1>2, <1>3, <2>1, <2>2 DEF Ahead, Count
<1>4. CASE Round(r) # Round(f)
  <2>1. /\ Round(r) = Following(Round(f)) /\ Offset(r) <= Offset(f)
        /\ Count(r, f) = FrameCount + Offset(r) - Offset(f)
    BY <1>4 DEF Ahead, Count
  <2>2. CASE Offset(f) + n < FrameCount
    BY <1>0, <1>1, <1>2, <1>4, <2>1, <2>2 DEF Ahead, Count
  <2>3. CASE Offset(f) + n >= FrameCount
    BY <1>0, <1>1, <1>2, <1>4, <2>1, <2>3 DEF Ahead, Count
  <2> QED
    BY <1>0, <1>1, <2>2, <2>3
<1> QED
  BY <1>3, <1>4

-----------------------------------------------------------------------------
(* Slots, counted from an offset around the ring.                          *)

SlotAt(o, i) == IF o + i < FrameCount THEN o + i ELSE o + i - FrameCount

LEMMA SlotIs ==
  ASSUME NEW o \in Slots, NEW i \in 0 .. FrameCount
  PROVE  (o + i) % FrameCount = SlotAt(o, i) /\ SlotAt(o, i) \in Slots
<1>0. FrameCount \in Nat /\ FrameCount > 0
  BY FifoSizes
<1>1. SlotAt(o, i) \in 0 .. FrameCount - 1
  BY <1>0 DEF Slots, SlotAt
<1>2. /\ SlotAt(o, i) % FrameCount = SlotAt(o, i)
      /\ (SlotAt(o, i) + FrameCount) % FrameCount = SlotAt(o, i)
  BY <1>0, <1>1, ModuloOf
<1>3. o + i = SlotAt(o, i) \/ o + i = SlotAt(o, i) + FrameCount
  BY <1>0 DEF Slots, SlotAt
<1> QED
  BY <1>1, <1>2, <1>3 DEF Slots

LEMMA SlotsDiffer ==
  ASSUME NEW o \in Slots, NEW i \in 0 .. FrameCount - 1, NEW j \in 0 .. FrameCount - 1,
         SlotAt(o, i) = SlotAt(o, j)
  PROVE  i = j
  BY FifoSizes DEF Slots, SlotAt

(* The writer's slots are those that follow the reader's.                  *)
LEMMA WriterSlots ==
  ASSUME NEW r, NEW f, Ahead(r, f), NEW i \in 0 .. FrameCount, i + Count(r, f) <= FrameCount
  PROVE  /\ Offset(r) \in Slots /\ Offset(f) \in Slots
         /\ SlotAt(Offset(r), i) = SlotAt(Offset(f), Count(r, f) + i)
<1>0. FrameCount \in Nat /\ FrameCount > 0
  BY FifoSizes
<1>1. Offset(r) \in Slots /\ Offset(f) \in Slots
  BY RingIndex DEF Ahead, Slots
<1>2. CASE Round(r) = Round(f)
  <2>1. Offset(r) >= Offset(f) /\ Count(r, f) = Offset(r) - Offset(f)
    BY <1>2, RingIndex DEF Ahead, Count
  <2> QED
    BY <1>0, <1>1, <2>1 DEF SlotAt, Slots
<1>3. CASE Round(r) # Round(f)
  <2>1. Offset(r) <= Offset(f) /\ Count(r, f) = FrameCount + Offset(r) - Offset(f)
    BY <1>3 DEF Ahead, Count
  <2>2. Offset(r) + i <= Offset(f)
    BY <1>0, <1>1, <2>1 DEF Slots
  <2>3. Offset(f) + (Count(r, f) + i) = FrameCount + (Offset(r) + i)
    BY <1>0, <1>1, <2>1 DEF Slots
  <2>4. Offset(r) + i < FrameCount
    BY <1>0, <1>1, <2>2 DEF Slots
  <2>5. SlotAt(Offset(r), i) = Offset(r) + i
    BY <2>4 DEF SlotAt
  <2>6. SlotAt(Offset(f), Count(r, f) + i) = Offset(r) + i
    BY <1>0, <1>1, <2>1, <2>2, <2>3 DEF SlotAt, Slots
  <2> QED
    BY <1>1, <2>5, <2>6
<1> QED
  BY <1>2, <1>3

LEMMA LesserIs ==
  ASSUME NEW a \in Int, NEW b \in Int
  PROVE  Min({a, b}) = IF a <= b THEN a ELSE b
<1> DEFINE m == IF a <= b THEN a ELSE b
<1>1. m \in {a, b} /\ \A y \in {a, b} : m <= y
  OBVIOUS
<1>2. \A x \in {a, b} : (\A y \in {a, b} : x <= y) => x = m
  OBVIOUS
<1> QED
  BY <1>1, <1>2 DEF Min

LEMMA PartIs ==
  ASSUME NEW x, InRing(x), NEW n \in 0 .. FrameCount
  PROVE  Part1(x, n) = IF Offset(x) + n <= FrameCount THEN n ELSE FrameCount - Offset(x)
<1>1. Offset(x) \in 0 .. FrameCount - 1 /\ FrameCount \in Nat
  BY FifoSizes, RingIndex
<1>2. n \in Int /\ FrameCount - Offset(x) \in Int
  BY <1>1
<1>3. Part1(x, n) = IF n <= FrameCount - Offset(x) THEN n ELSE FrameCount - Offset(x)
  BY <1>2, LesserIs DEF Part1
<1> QED
  BY <1>1, <1>3

-----------------------------------------------------------------------------
(* How many frames a call that is at pc has copied, of n from offset o.    *)

Done(pc, n, o) ==
  IF pc = "store" THEN n ELSE IF pc = "part2" THEN FrameCount - o ELSE 0

Calls == {"idle", "part1", "part2", "store"}

CallOK(pc, n, o) ==
  /\ pc \in Calls /\ n \in 0 .. FrameCount
  /\ pc = "idle" <=> n = 0
  /\ pc = "part2" => o + n > FrameCount

(* The inductive invariant: the writer is ahead of the reader by the frames*)
(* in the ring; what the writer is to write, it has room for, and what the *)
(* reader is to read, is there; and what either has copied so far is what  *)
(* the ring has, or was to get, at those slots.                            *)
FifoInv ==
  /\ Ahead(rear, front)
  /\ buffer \in [Slots -> Frames] /\ written \in Frames /\ delivered \in Seq(Frames)
  /\ writer = [pc |-> writer.pc, n |-> writer.n] /\ CallOK(writer.pc, writer.n, Offset(rear))
  /\ writer.n + Count(rear, front) <= FrameCount
  /\ \A i \in 0 .. Done(writer.pc, writer.n, Offset(rear)) - 1 :
       buffer[SlotAt(Offset(rear), i)] = (written + i) % NumFrames
  /\ reader = [pc |-> reader.pc, n |-> reader.n, got |-> reader.got]
  /\ CallOK(reader.pc, reader.n, Offset(front))
  /\ reader.n <= Count(rear, front)
  /\ reader.got \in Seq(Frames)
  /\ Len(reader.got) = Done(reader.pc, reader.n, Offset(front))
  /\ \A i \in 1 .. Len(reader.got) : reader.got[i] = buffer[SlotAt(Offset(front), i - 1)]

(* What a part of a write does, and what it leaves alone: it is to n slots *)
(* from s, the writer's slots for its frames from the first on.            *)
LEMMA FilledIs ==
  ASSUME FifoInv, NEW s \in Nat, NEW first \in Nat, NEW n \in Nat,
         s + n <= FrameCount, first + n <= writer.n,
         \A i \in first .. first + n - 1 : SlotAt(Offset(rear), i) = s + (i - first)
  PROVE  /\ Filled(s, first, n) \in [Slots -> Frames]
         /\ \A i \in first .. first + n - 1 :
              Filled(s, first, n)[SlotAt(Offset(rear), i)] = (written + i) % NumFrames
         /\ \A i \in 0 .. first - 1 :
              Filled(s, first, n)[SlotAt(Offset(rear), i)] = buffer[SlotAt(Offset(rear), i)]
         /\ \A i \in 0 .. Count(rear, front) - 1 :
              Filled(s, first, n)[SlotAt(Offset(front), i)] = buffer[SlotAt(Offset(front), i)]
<1> DEFINE o == Offset(rear)
           u == Offset(front)
           c == Count(rear, front)
           B == Filled(s, first, n)
<1>0. /\ FrameCount \in Nat /\ FrameCount > 0 /\ NumFrames \in Nat /\ NumFrames > 0
      /\ written \in Nat /\ writer.n \in 0 .. FrameCount /\ buffer \in [Slots -> Frames]
      /\ writer.n + c <= FrameCount /\ c \in 0 .. FrameCount
      /\ Ahead(rear, front)
  <2>1. /\ Ahead(rear, front) /\ written \in 0 .. NumFrames - 1 /\ writer.n \in 0 .. FrameCount
        /\ buffer \in [Slots -> Frames] /\ writer.n + c <= FrameCount
    BY DEF FifoInv, CallOK, Frames
  <2>2. c \in 0 .. FrameCount
    BY <2>1, CountIsBounded
  <2>3. FrameCount \in Nat /\ FrameCount > 0 /\ NumFrames \in Nat /\ NumFrames > 0
    BY FifoSizes, AudioFifoAssumption
  <2> QED
    BY <2>1, <2>2, <2>3
<1>1. o \in Slots /\ u \in Slots
  BY RingIndex DEF FifoInv, Ahead, Slots
<1>2. \A x \in Slots : x \in s .. s + n - 1 =>
        /\ first + (x - s) \in first .. first + n - 1
        /\ SlotAt(o, first + (x - s)) = x
  <2>1. SUFFICES ASSUME NEW x \in Slots, x \in s .. s + n - 1
                 PROVE  /\ first + (x - s) \in first .. first + n - 1
                        /\ SlotAt(o, first + (x - s)) = x
    OBVIOUS
  <2>2. first + (x - s) \in first .. first + n - 1 /\ s + ((first + (x - s)) - first) = x
    BY <2>1
  <2>3. SlotAt(o, first + (x - s)) = s + ((first + (x - s)) - first)
    BY <2>2
  <2> QED
    BY <2>2, <2>3
<1>3. \A i \in 0 .. writer.n - 1 : i \in 0 .. FrameCount - 1
  BY <1>0
<1>4. \A i \in 0 .. writer.n - 1 : SlotAt(o, i) \in Slots
  BY <1>0, <1>1, SlotIs
<1>5. \A i \in 0 .. c - 1 : SlotAt(u, i) \in Slots /\ i \in 0 .. FrameCount - 1
  BY <1>0, <1>1, SlotIs
<1>6. \A i \in 0 .. writer.n - 1 : SlotAt(o, i) = SlotAt(u, c + i)
  BY <1>0, WriterSlots
<1> HIDE DEF o, u, c
<1>7. B \in [Slots -> Frames]
  <2>1. \A x \in Slots : x \in s .. s + n - 1 =>
          (written + first + x - s) % NumFrames \in 0 .. NumFrames - 1
    <3>1. SUFFICES ASSUME NEW x \in Slots, x \in s .. s + n - 1
                   PROVE  (written + first + x - s) % NumFrames \in 0 .. NumFrames - 1
      OBVIOUS
    <3>2. written + first + x - s \in Nat
      BY <1>0, <3>1
    <3> QED
      BY <1>0, <3>2, RemainderOf
  <2> QED
    BY <1>0, <2>1 DEF Filled, Frames
<1>8. ASSUME NEW i \in first .. first + n - 1
      PROVE  B[SlotAt(o, i)] = (written + i) % NumFrames
  <2>1. SlotAt(o, i) = s + (i - first) /\ SlotAt(o, i) \in s .. s + n - 1
    BY DEF o
  <2>2. SlotAt(o, i) \in Slots
    BY <1>0, <1>4
  <2>3. written + first + SlotAt(o, i) - s = written + i
    BY <1>0, <2>1
  <2> QED
    BY <2>1, <2>2, <2>3 DEF Filled
<1>9. ASSUME NEW i \in 0 .. first - 1
      PROVE  B[SlotAt(o, i)] = buffer[SlotAt(o, i)]
  <2>1. n = 0 \/ i \in 0 .. writer.n - 1
    BY <1>0
  <2>2. SlotAt(o, i) \in Slots
    <3>1. i \in 0 .. FrameCount
      BY <1>0
    <3> QED
      BY <1>1, <3>1, SlotIs
  <2>3. SlotAt(o, i) \notin s .. s + n - 1
    <3>1. SUFFICES ASSUME SlotAt(o, i) \in s .. s + n - 1 PROVE FALSE
      OBVIOUS
    <3> DEFINE j == first + (SlotAt(o, i) - s)
    <3>2. j \in first .. first + n - 1 /\ SlotAt(o, j) = SlotAt(o, i)
      BY <1>2, <2>2, <3>1
    <3>3. j \in 0 .. FrameCount - 1 /\ i \in 0 .. FrameCount - 1
      BY <1>0, <3>2
    <3> QED
      BY <1>1, <3>2, <3>3, SlotsDiffer
  <2> QED
    BY <2>2, <2>3 DEF Filled
<1>10. ASSUME NEW i \in 0 .. c - 1
       PROVE  B[SlotAt(u, i)] = buffer[SlotAt(u, i)]
  <2>1. SlotAt(u, i) \in Slots
    BY <1>5
  <2>2. SlotAt(u, i) \notin s .. s + n - 1
    <3>1. SUFFICES ASSUME SlotAt(u, i) \in s .. s + n - 1 PROVE FALSE
      OBVIOUS
    <3> DEFINE j == first + (SlotAt(u, i) - s)
    <3>2. j \in first .. first + n - 1 /\ SlotAt(o, j) = SlotAt(u, i)
      BY <1>2, <2>1, <3>1
    <3>3. j \in 0 .. writer.n - 1
      BY <1>0, <3>2
    <3>4. SlotAt(u, c + j) = SlotAt(u, i) /\ c + j \in 0 .. FrameCount - 1
      BY <1>0, <1>6, <3>2, <3>3 DEF c
    <3>5. c + j = i
      BY <1>1, <1>5, <3>4, SlotsDiffer
    <3> QED
      BY <1>0, <3>3, <3>5 DEF c
  <2> QED
    BY <2>1, <2>2 DEF Filled
<1> QED
  BY <1>7, <1>8, <1>9, <1>10 DEF o, u, c

-----------------------------------------------------------------------------
(* Each step keeps the invariant.                                          *)

(* What every step uses of it.                                             *)
LEMMA FifoFacts ==
  ASSUME FifoInv
  PROVE  /\ FrameCount \in Nat /\ FrameCount > 0 /\ NumFrames \in Nat /\ NumFrames > 0
         /\ Ahead(rear, front) /\ InRing(rear) /\ InRing(front)
         /\ Offset(rear) \in Slots /\ Offset(front) \in Slots
         /\ Count(rear, front) \in 0 .. FrameCount
         /\ writer.n \in 0 .. FrameCount /\ reader.n \in 0 .. FrameCount
         /\ writer.n + Count(rear, front) <= FrameCount /\ reader.n <= Count(rear, front)
<1>1. /\ Ahead(rear, front) /\ writer.n \in 0 .. FrameCount /\ reader.n \in 0 .. FrameCount
      /\ writer.n + Count(rear, front) <= FrameCount /\ reader.n <= Count(rear, front)
  BY DEF FifoInv, CallOK
<1>2. InRing(rear) /\ InRing(front)
  BY <1>1 DEF Ahead
<1>3. Offset(rear) \in Slots /\ Offset(front) \in Slots
  BY <1>2, RingIndex DEF Slots
<1>4. Count(rear, front) \in 0 .. FrameCount
  BY <1>1, CountIsBounded
<1> QED
  BY <1>1, <1>2, <1>3, <1>4, FifoSizes, AudioFifoAssumption

LEMMA WriteBeginKeeps ==
  ASSUME FrameCount # Wrap \div 2, FifoInv, NEW count \in 1 .. MaxCount, WriteBegin(count)
  PROVE  FifoInv'
<1> DEFINE c == Count(rear, front)
           n == Min({FrameCount - Diff(rear, front), count})
<1>1. FrameCount \in Nat /\ c \in 0 .. FrameCount /\ Diff(rear, front) = c /\ MaxCount \in Nat
  BY FifoFacts, DiffIsCount, AudioFifoAssumption
<1>2. /\ writer.pc = "idle" /\ n > 0 /\ writer' = [pc |-> "part1", n |-> n]
      /\ UNCHANGED <<front, rear, buffer, reader, written, delivered>>
  BY DEF WriteBegin
<1>3. n \in 1 .. FrameCount /\ n + c <= FrameCount
  <2>1. FrameCount - Diff(rear, front) \in Int /\ count \in Int
    BY <1>1
  <2>2. n = IF FrameCount - Diff(rear, front) <= count THEN FrameCount - Diff(rear, front) ELSE count
    BY <2>1, LesserIs
  <2> QED
    BY <1>1, <1>2, <2>2
<1> HIDE DEF n
<1>4. /\ writer' = [pc |-> writer'.pc, n |-> writer'.n] /\ writer'.pc = "part1" /\ writer'.n = n
  BY <1>2
<1>5. CallOK(writer'.pc, writer'.n, Offset(rear'))
  BY <1>1, <1>3, <1>4 DEF CallOK, Calls
<1>6. Done(writer'.pc, writer'.n, Offset(rear')) = 0
  BY <1>4 DEF Done
<1> QED
  BY <1>2, <1>3, <1>4, <1>5, <1>6 DEF FifoInv

(* A part of a write that is of the writer's frames from first up to what  *)
(* it then has done.                                                       *)
LEMMA WritePartKeeps ==
  ASSUME FifoInv, NEW s \in Nat, NEW first \in Nat, NEW n \in Nat, NEW pc,
         s + n <= FrameCount, first + n <= writer.n,
         \A i \in first .. first + n - 1 : SlotAt(Offset(rear), i) = s + (i - first),
         Done(writer.pc, writer.n, Offset(rear)) = first,
         Done(pc, writer.n, Offset(rear)) = first + n,
         CallOK(pc, writer.n, Offset(rear)),
         buffer' = Filled(s, first, n), writer' = [writer EXCEPT !.pc = pc],
         UNCHANGED <<front, rear, reader, written, delivered>>
  PROVE  FifoInv'
<1> DEFINE o == Offset(rear)
           u == Offset(front)
           c == Count(rear, front)
<1>1. /\ c \in 0 .. FrameCount /\ writer.n \in 0 .. FrameCount /\ reader.n \in 0 .. FrameCount
      /\ reader.n <= c /\ FrameCount \in Nat /\ u \in Slots
  BY FifoFacts
<1>2. writer' = [pc |-> pc, n |-> writer.n] /\ writer'.pc = pc /\ writer'.n = writer.n
  BY DEF FifoInv
<1>3. /\ buffer' \in [Slots -> Frames]
      /\ \A i \in first .. first + n - 1 : buffer'[SlotAt(o, i)] = (written + i) % NumFrames
      /\ \A i \in 0 .. first - 1 : buffer'[SlotAt(o, i)] = buffer[SlotAt(o, i)]
      /\ \A i \in 0 .. c - 1 : buffer'[SlotAt(u, i)] = buffer[SlotAt(u, i)]
  BY FilledIs
<1>4. \A i \in 0 .. first - 1 : buffer[SlotAt(o, i)] = (written + i) % NumFrames
  BY DEF FifoInv
<1>5. \A i \in 0 .. first + n - 1 : buffer'[SlotAt(o, i)] = (written + i) % NumFrames
  <2>1. SUFFICES ASSUME NEW i \in 0 .. first + n - 1
                 PROVE  buffer'[SlotAt(o, i)] = (written + i) % NumFrames
    OBVIOUS
  <2>2. i \in 0 .. first - 1 \/ i \in first .. first + n - 1
    OBVIOUS
  <2> QED
    BY <1>3, <1>4, <2>2
<1>6. /\ Len(reader.got) = Done(reader.pc, reader.n, u) /\ reader.got \in Seq(Frames)
      /\ \A i \in 1 .. Len(reader.got) : reader.got[i] = buffer[SlotAt(u, i - 1)]
      /\ CallOK(reader.pc, reader.n, u)
  BY DEF FifoInv
<1>7. Len(reader.got) \in 0 .. c
  <2>1. u \in 0 .. FrameCount - 1
    BY <1>1 DEF Slots
  <2>2. reader.pc = "part2" => u + reader.n > FrameCount
    BY <1>6 DEF CallOK
  <2>3. Done(reader.pc, reader.n, u) \in 0 .. reader.n
    BY <1>1, <2>1, <2>2 DEF Done
  <2> QED
    BY <1>1, <1>6, <2>3
<1>8. \A i \in 1 .. Len(reader.got) : reader.got[i] = buffer'[SlotAt(u, i - 1)]
  <2>1. SUFFICES ASSUME NEW i \in 1 .. Len(reader.got)
                 PROVE  reader.got[i] = buffer'[SlotAt(u, i - 1)]
    OBVIOUS
  <2>2. i - 1 \in 0 .. c - 1
    <3> DEFINE l == Len(reader.got)
    <3>1. l \in 0 .. c /\ c \in Nat /\ i \in 1 .. l
      BY <1>1, <1>7
    <3> HIDE DEF l, c
    <3> QED
      BY <3>1
  <2> QED
    BY <1>3, <1>6, <2>2
<1>9. Done(writer'.pc, writer'.n, Offset(rear')) = first + n
  BY <1>2
<1>10. \A i \in 0 .. Done(writer'.pc, writer'.n, Offset(rear')) - 1 :
         buffer'[SlotAt(Offset(rear'), i)] = (written' + i) % NumFrames
  BY <1>5, <1>9
<1>11. /\ Ahead(rear', front') /\ written' \in Frames /\ delivered' \in Seq(Frames)
       /\ writer' = [pc |-> writer'.pc, n |-> writer'.n]
       /\ CallOK(writer'.pc, writer'.n, Offset(rear'))
       /\ writer'.n + Count(rear', front') <= FrameCount
  BY <1>2 DEF FifoInv
<1>12. /\ reader' = [pc |-> reader'.pc, n |-> reader'.n, got |-> reader'.got]
       /\ CallOK(reader'.pc, reader'.n, Offset(front')) /\ reader'.n <= Count(rear', front')
       /\ reader'.got \in Seq(Frames)
       /\ Len(reader'.got) = Done(reader'.pc, reader'.n, Offset(front'))
       /\ \A i \in 1 .. Len(reader'.got) : reader'.got[i] = buffer'[SlotAt(Offset(front'), i - 1)]
  BY <1>8 DEF FifoInv
<1> QED
  BY <1>3, <1>10, <1>11, <1>12 DEF FifoInv

LEMMA WritePart1Keeps ==
  ASSUME FifoInv, WritePart1
  PROVE  FifoInv'
<1> DEFINE o == Offset(rear)
           k == Part1(rear, writer.n)
           pc == IF writer.n > k THEN "part2" ELSE "store"
<1>1. /\ FrameCount \in Nat /\ o \in Slots /\ writer.n \in 0 .. FrameCount
      /\ k = IF o + writer.n <= FrameCount THEN writer.n ELSE FrameCount - o
  BY FifoFacts, PartIs
<1>2. /\ writer.pc = "part1" /\ buffer' = Filled(o, 0, k) /\ writer' = [writer EXCEPT !.pc = pc]
      /\ UNCHANGED <<front, rear, reader, written, delivered>>
      /\ writer.n # 0
  BY DEF WritePart1, FifoInv, CallOK
<1> HIDE DEF k, o
<1>3. k \in Nat /\ o \in Nat /\ o + k <= FrameCount /\ 0 + k <= writer.n
  BY <1>1 DEF Slots
<1>4. \A i \in 0 .. 0 + k - 1 : SlotAt(o, i) = o + (i - 0)
  BY <1>1, <1>3 DEF SlotAt
<1>5. Done(writer.pc, writer.n, o) = 0
  BY <1>2 DEF Done
<1>6. Done(pc, writer.n, o) = 0 + k /\ CallOK(pc, writer.n, o)
  <2>1. CASE o + writer.n <= FrameCount
    BY <1>1, <1>2, <2>1 DEF Done, CallOK, Calls, Slots
  <2>2. CASE ~ o + writer.n <= FrameCount
    BY <1>1, <1>2, <2>2 DEF Done, CallOK, Calls, Slots
  <2> QED
    BY <2>1, <2>2
<1> HIDE DEF pc
<1> QED
  BY <1>2, <1>3, <1>4, <1>5, <1>6, WritePartKeeps DEF o

LEMMA WritePart2Keeps ==
  ASSUME FifoInv, WritePart2
  PROVE  FifoInv'
<1> DEFINE o == Offset(rear)
           k == Part1(rear, writer.n)
           n == writer.n - k
<1>1. /\ FrameCount \in Nat /\ o \in Slots /\ writer.n \in 0 .. FrameCount
      /\ k = IF o + writer.n <= FrameCount THEN writer.n ELSE FrameCount - o
  BY FifoFacts, PartIs
<1>2. /\ writer.pc = "part2" /\ buffer' = Filled(0, k, n) /\ writer' = [writer EXCEPT !.pc = "store"]
      /\ UNCHANGED <<front, rear, reader, written, delivered>>
      /\ o + writer.n > FrameCount
  BY DEF WritePart2, FifoInv, CallOK
<1> HIDE DEF k, o
<1>3. k = FrameCount - o /\ k \in Nat /\ n \in Nat /\ 0 + n <= FrameCount /\ k + n <= writer.n
  BY <1>1, <1>2 DEF Slots
<1>4. \A i \in k .. k + n - 1 : SlotAt(o, i) = 0 + (i - k)
  BY <1>1, <1>3 DEF SlotAt, Slots
<1>5. Done(writer.pc, writer.n, o) = k
  BY <1>2, <1>3 DEF Done
<1>6. Done("store", writer.n, o) = k + n /\ CallOK("store", writer.n, o)
  BY <1>1, <1>2, <1>3 DEF Done, CallOK, Calls, Slots
<1> HIDE DEF n
<1> QED
  BY <1>2, <1>3, <1>4, <1>5, <1>6, WritePartKeeps DEF o

LEMMA WriteStoreKeeps ==
  ASSUME FifoInv, WriteStore
  PROVE  FifoInv'
<1> DEFINE c == Count(rear, front)
<1>1. /\ Ahead(rear, front) /\ c \in 0 .. FrameCount /\ writer.n \in 0 .. FrameCount
      /\ writer.n + c <= FrameCount /\ reader.n <= c /\ reader.n \in 0 .. FrameCount
      /\ FrameCount \in Nat /\ NumFrames \in Nat /\ NumFrames > 0
  BY FifoFacts
<1>2. /\ rear' = Sum(rear, writer.n) /\ writer' = [pc |-> "idle", n |-> 0]
      /\ written' = (written + writer.n) % NumFrames /\ UNCHANGED <<front, buffer, reader, delivered>>
  BY DEF WriteStore
<1>3. Ahead(rear', front') /\ Count(rear', front') = c + writer.n
  BY <1>1, <1>2, WriterAdvances
<1>4. written' \in Frames
  <2>1. written + writer.n \in Nat
    BY <1>1 DEF FifoInv, Frames
  <2> QED
    BY <1>1, <1>2, <2>1, RemainderOf DEF Frames
<1>5. /\ writer' = [pc |-> writer'.pc, n |-> writer'.n] /\ writer'.pc = "idle" /\ writer'.n = 0
  BY <1>2
<1>6. CallOK(writer'.pc, writer'.n, Offset(rear')) /\ Done(writer'.pc, writer'.n, Offset(rear')) = 0
  BY <1>1, <1>5 DEF CallOK, Calls, Done
<1>7. writer'.n + Count(rear', front') <= FrameCount /\ reader'.n <= Count(rear', front')
  BY <1>1, <1>2, <1>3, <1>5
<1> QED
  BY <1>2, <1>3, <1>4, <1>5, <1>6, <1>7 DEF FifoInv

LEMMA ReadBeginKeeps ==
  ASSUME FrameCount # Wrap \div 2, FifoInv, NEW count \in 1 .. MaxCount, ReadBegin(count)
  PROVE  FifoInv'
<1> DEFINE c == Count(rear, front)
           n == Min({Diff(rear, front), count})
<1>1. FrameCount \in Nat /\ c \in 0 .. FrameCount /\ Diff(rear, front) = c /\ MaxCount \in Nat
  BY FifoFacts, DiffIsCount, AudioFifoAssumption
<1>2. /\ n > 0 /\ reader' = [pc |-> "part1", n |-> n, got |-> <<>>]
      /\ UNCHANGED <<front, rear, buffer, writer, written, delivered>>
  BY DEF ReadBegin
<1>3. n \in 1 .. FrameCount /\ n <= c
  <2>1. c \in Int /\ count \in Int
    BY <1>1
  <2>2. n = IF c <= count THEN c ELSE count
    BY <1>1, <2>1, LesserIs
  <2> QED
    BY <1>1, <1>2, <2>2
<1> HIDE DEF n
<1>4. /\ reader' = [pc |-> reader'.pc, n |-> reader'.n, got |-> reader'.got]
      /\ reader'.pc = "part1" /\ reader'.n = n /\ reader'.got = <<>>
  BY <1>2
<1>5. CallOK(reader'.pc, reader'.n, Offset(front')) /\ Done(reader'.pc, reader'.n, Offset(front')) = 0
  BY <1>1, <1>3, <1>4 DEF CallOK, Calls, Done
<1>6. reader'.got \in Seq(Frames) /\ Len(reader'.got) = 0
  BY <1>4
<1> QED
  BY <1>2, <1>3, <1>4, <1>5, <1>6 DEF FifoInv

LEMMA ReadPartKeeps ==
  ASSUME FifoInv, NEW pc, NEW copied \in Seq(Frames),
         CallOK(pc, reader.n, Offset(front)), Len(copied) = Done(pc, reader.n, Offset(front)),
         \A i \in 1 .. Len(copied) : copied[i] = buffer[SlotAt(Offset(front), i - 1)],
         reader' = [reader EXCEPT !.pc = pc, !.got = copied],
         UNCHANGED <<front, rear, buffer, writer, written, delivered>>
  PROVE  FifoInv'
<1>1. reader' = [pc |-> pc, n |-> reader.n, got |-> copied]
  BY DEF FifoInv
<1>2. /\ reader' = [pc |-> reader'.pc, n |-> reader'.n, got |-> reader'.got]
      /\ reader'.pc = pc /\ reader'.n = reader.n /\ reader'.got = copied
  BY <1>1
<1> QED
  BY <1>2 DEF FifoInv

(* The slots of a sequence of frames copied from the ring.                 *)
LEMMA CopyIs ==
  ASSUME buffer \in [Slots -> Frames], NEW n \in Nat, NEW s \in Nat, s + n <= FrameCount
  PROVE  /\ [i \in 1 .. n |-> buffer[s + i - 1]] \in Seq(Frames)
         /\ Len([i \in 1 .. n |-> buffer[s + i - 1]]) = n
<1>1. FrameCount \in Nat
  BY FifoSizes
<1>2. \A i \in 1 .. n : s + i - 1 \in Slots
  BY <1>1 DEF Slots
<1>3. \A i \in 1 .. n : buffer[s + i - 1] \in Frames
  BY <1>2
<1>4. [i \in 1 .. n |-> buffer[s + i - 1]] \in [1 .. n -> Frames]
  BY <1>3
<1> QED
  BY <1>4

LEMMA ReadPart1Keeps ==
  ASSUME FifoInv, ReadPart1
  PROVE  FifoInv'
<1> DEFINE u == Offset(front)
           k == Part1(front, reader.n)
           pc == IF reader.n > k THEN "part2" ELSE "store"
           copied == [i \in 1 .. k |-> buffer[u + i - 1]]
<1>1. /\ FrameCount \in Nat /\ u \in Slots /\ reader.n \in 0 .. FrameCount
      /\ k = IF u + reader.n <= FrameCount THEN reader.n ELSE FrameCount - u
  BY FifoFacts, PartIs
<1>2. /\ reader.pc = "part1" /\ reader.n # 0 /\ reader' = [reader EXCEPT !.pc = pc, !.got = copied]
      /\ UNCHANGED <<front, rear, buffer, writer, written, delivered>>
      /\ buffer \in [Slots -> Frames]
  BY DEF ReadPart1, FifoInv, CallOK
<1> HIDE DEF k, u
<1>3. k \in Nat /\ u \in Nat /\ u + k <= FrameCount
  BY <1>1 DEF Slots
<1>4. copied \in Seq(Frames) /\ Len(copied) = k
  BY <1>2, <1>3, CopyIs
<1>5. \A i \in 1 .. k : copied[i] = buffer[SlotAt(u, i - 1)]
  <2>1. \A i \in 1 .. k : SlotAt(u, i - 1) = u + i - 1
    BY <1>1, <1>3 DEF SlotAt
  <2> QED
    BY <2>1
<1>6. Done(pc, reader.n, u) = k /\ CallOK(pc, reader.n, u)
  <2>1. CASE u + reader.n <= FrameCount
    BY <1>1, <1>2, <2>1 DEF Done, CallOK, Calls, Slots
  <2>2. CASE ~ u + reader.n <= FrameCount
    BY <1>1, <1>2, <2>2 DEF Done, CallOK, Calls, Slots
  <2> QED
    BY <2>1, <2>2
<1> HIDE DEF pc, copied
<1> QED
  BY <1>2, <1>4, <1>5, <1>6, ReadPartKeeps DEF u

LEMMA ReadPart2Keeps ==
  ASSUME FifoInv, ReadPart2
  PROVE  FifoInv'
<1> DEFINE u == Offset(front)
           k == Part1(front, reader.n)
           rest == [i \in 1 .. reader.n - k |-> buffer[i - 1]]
           copied == reader.got \o rest
<1>1. /\ FrameCount \in Nat /\ u \in Slots /\ reader.n \in 0 .. FrameCount
      /\ k = IF u + reader.n <= FrameCount THEN reader.n ELSE FrameCount - u
  BY FifoFacts, PartIs
<1>2. /\ reader.pc = "part2" /\ u + reader.n > FrameCount /\ reader.n # 0
      /\ reader' = [reader EXCEPT !.pc = "store", !.got = copied]
      /\ UNCHANGED <<front, rear, buffer, writer, written, delivered>>
      /\ buffer \in [Slots -> Frames] /\ reader.got \in Seq(Frames)
      /\ Len(reader.got) = Done(reader.pc, reader.n, u)
      /\ \A i \in 1 .. Len(reader.got) : reader.got[i] = buffer[SlotAt(u, i - 1)]
  BY DEF ReadPart2, FifoInv, CallOK
<1> HIDE DEF k, u
<1>3. k = FrameCount - u /\ k \in Nat /\ reader.n - k \in Nat /\ 0 + (reader.n - k) <= FrameCount
  BY <1>1, <1>2 DEF Slots
<1>4. rest \in Seq(Frames) /\ Len(rest) = reader.n - k
  <2>1. rest = [i \in 1 .. reader.n - k |-> buffer[0 + i - 1]]
    BY <1>3
  <2>2. /\ [i \in 1 .. reader.n - k |-> buffer[0 + i - 1]] \in Seq(Frames)
        /\ Len([i \in 1 .. reader.n - k |-> buffer[0 + i - 1]]) = reader.n - k
    BY <1>2, <1>3, CopyIs
  <2> QED
    BY <2>1, <2>2
<1>5. Len(reader.got) = k
  BY <1>2, <1>3 DEF Done
<1>6. \A i \in 1 .. reader.n - k : rest[i] = buffer[SlotAt(u, (k + i) - 1)]
  <2>1. \A i \in 1 .. reader.n - k : SlotAt(u, (k + i) - 1) = i - 1
    BY <1>1, <1>3 DEF SlotAt, Slots
  <2> QED
    BY <2>1
<1> HIDE DEF rest
<1>7. copied \in Seq(Frames) /\ Len(copied) = reader.n
  <2>1. copied \in Seq(Frames)
    BY <1>2, <1>4
  <2>2. Len(copied) = Len(reader.got) + Len(rest)
    BY <1>2, <1>4, ConcatProperties
  <2>3. k + (reader.n - k) = reader.n
    BY <1>1, <1>3
  <2> HIDE DEF copied
  <2> QED
    BY <1>4, <1>5, <2>1, <2>2, <2>3
<1>8. \A i \in 1 .. Len(copied) : copied[i] = buffer[SlotAt(u, i - 1)]
  <2>1. SUFFICES ASSUME NEW i \in 1 .. reader.n
                 PROVE  copied[i] = buffer[SlotAt(u, i - 1)]
    BY <1>7
  <2>2. CASE i <= k
    BY <1>2, <1>3, <1>4, <1>5, <2>2
  <2>3. CASE ~ i <= k
    <3>1. i - k \in 1 .. reader.n - k /\ k + (i - k) = i
      BY <1>1, <1>3, <2>3
    <3>2. copied[i] = rest[i - k]
      <4>1. i \in 1 .. Len(reader.got) + Len(rest) /\ ~ i <= Len(reader.got)
        BY <1>1, <1>3, <1>4, <1>5, <2>3
      <4>2. copied[i] = rest[i - Len(reader.got)]
        BY <1>2, <1>4, <4>1
      <4> QED
        BY <1>5, <4>2
    <3>3. rest[i - k] = buffer[SlotAt(u, (k + (i - k)) - 1)]
      BY <1>6, <3>1
    <3> QED
      BY <3>1, <3>2, <3>3
  <2> QED
    BY <2>2, <2>3
<1>9. Done("store", reader.n, u) = reader.n /\ CallOK("store", reader.n, u)
  BY <1>1, <1>2 DEF Done, CallOK, Calls
<1>10. reader' = [reader EXCEPT !.pc = "store", !.got = copied]
  BY <1>2
<1> HIDE DEF copied
<1> QED
  BY <1>2, <1>7, <1>8, <1>9, <1>10, ReadPartKeeps DEF u

LEMMA ReadStoreKeeps ==
  ASSUME FifoInv, ReadStore
  PROVE  FifoInv'
<1> DEFINE c == Count(rear, front)
<1>1. /\ Ahead(rear, front) /\ c \in 0 .. FrameCount /\ reader.n \in 0 .. FrameCount
      /\ writer.n \in 0 .. FrameCount /\ writer.n + c <= FrameCount /\ reader.n <= c
      /\ FrameCount \in Nat
  BY FifoFacts
<1>2. /\ front' = Sum(front, reader.n) /\ delivered' = reader.got
      /\ reader' = [pc |-> "idle", n |-> 0, got |-> <<>>]
      /\ UNCHANGED <<rear, buffer, writer, written>>
  BY DEF ReadStore
<1>3. Ahead(rear', front') /\ Count(rear', front') = c - reader.n
  BY <1>1, <1>2, ReaderAdvances
<1>4. /\ reader' = [pc |-> reader'.pc, n |-> reader'.n, got |-> reader'.got]
      /\ reader'.pc = "idle" /\ reader'.n = 0 /\ reader'.got = <<>>
  BY <1>2
<1>5. CallOK(reader'.pc, reader'.n, Offset(front')) /\ Done(reader'.pc, reader'.n, Offset(front')) = 0
  BY <1>1, <1>4 DEF CallOK, Calls, Done
<1>6. reader'.got \in Seq(Frames) /\ Len(reader'.got) = 0
  BY <1>4
<1>7. writer'.n + Count(rear', front') <= FrameCount /\ reader'.n <= Count(rear', front')
  BY <1>1, <1>2, <1>3, <1>4
<1>8. delivered' \in Seq(Frames)
  BY <1>2 DEF FifoInv
<1> QED
  BY <1>2, <1>3, <1>4, <1>5, <1>6, <1>7, <1>8 DEF FifoInv

LEMMA FifoStep ==
  ASSUME FrameCount # Wrap \div 2, FifoInv, [Next]_vars
  PROVE  FifoInv'
<1>1. CASE UNCHANGED vars
  BY <1>1 DEF FifoInv, vars
<1>2. CASE Writing
  BY <1>2, WriteBeginKeeps, WritePart1Keeps, WritePart2Keeps, WriteStoreKeeps DEF Writing
<1>3. CASE Reading
  BY <1>3, ReadBeginKeeps, ReadPart1Keeps, ReadPart2Keeps, ReadStoreKeeps DEF Reading
<1> QED
  BY <1>1, <1>2, <1>3 DEF Next

-----------------------------------------------------------------------------
(* What it begins with, and what it shows.                                 *)

LEMMA FifoBegins == Init => FifoInv
<1>1. SUFFICES ASSUME Init PROVE FifoInv
  OBVIOUS
<1>2. /\ FrameCount \in Nat /\ FrameCount > 0 /\ FrameCountP2 \in Nat /\ FrameCountP2 > 0
      /\ Wrap \in Nat /\ Wrap > 0 /\ NumFrames \in Nat /\ NumFrames > 0
  BY FifoSizes, AudioFifoAssumption
<1>3. Offset(0) = 0 /\ Round(0) = 0
  BY <1>2, ModuloOf DEF Offset, Round
<1>4. Ahead(0, 0) /\ Count(0, 0) = 0
  BY <1>2, <1>3 DEF Ahead, Count, InRing, Indices
<1>5. 0 \in Frames /\ <<>> \in Seq(Frames) /\ buffer \in [Slots -> Frames]
  BY <1>1, <1>2 DEF Init, Frames
<1>6. Done("idle", 0, 0) = 0 /\ CallOK("idle", 0, 0) /\ Len(<<>>) = 0
  BY <1>2 DEF Done, CallOK, Calls
<1> QED
  BY <1>1, <1>2, <1>3, <1>4, <1>5, <1>6 DEF FifoInv, Init

LEMMA FifoTypes == FifoInv => TypeOK
<1>1. SUFFICES ASSUME FifoInv PROVE TypeOK
  OBVIOUS
<1>2. front \in Indices /\ rear \in Indices
  BY <1>1, FifoFacts DEF InRing
<1>3. writer \in [pc : {"idle", "part1", "part2", "store"}, n : 0 .. FrameCount]
  BY <1>1 DEF FifoInv, CallOK, Calls
<1>4. reader \in [pc : {"idle", "part1", "part2", "store"}, n : 0 .. FrameCount, got : Seq(Frames)]
  BY <1>1 DEF FifoInv, CallOK, Calls
<1> QED
  BY <1>1, <1>2, <1>3, <1>4 DEF FifoInv, TypeOK

LEMMA FifoIndices == FrameCount # Wrap \div 2 /\ FifoInv => IndicesAreSane
<1>1. SUFFICES ASSUME FrameCount # Wrap \div 2, FifoInv PROVE IndicesAreSane
  OBVIOUS
<1>2. /\ FrameCountP2 \in Nat /\ Wrap \in Nat /\ 2 * FrameCountP2 <= Wrap /\ FrameCountP2 > 0
      /\ Ahead(rear, front) /\ InRing(rear) /\ InRing(front)
  BY <1>1, FifoSizes, FifoFacts
<1>3. Offset(front) < FrameCount /\ Offset(rear) < FrameCount
  BY <1>2 DEF InRing
<1>4. (Round(rear) - Round(front)) % Wrap \in {0, FrameCountP2}
  <2> DEFINE m == Round(rear)
             k == Round(front)
  <2>1. m \in Nat /\ k \in Nat /\ (m = k \/ m = Following(k))
    BY <1>2, RingIndex DEF Ahead
  <2> HIDE DEF m, k
  <2>2. /\ 0 % Wrap = 0 /\ FrameCountP2 % Wrap = FrameCountP2
        /\ (FrameCountP2 - Wrap) % Wrap = FrameCountP2
    BY <1>2, ModuloOf
  <2>3. m - k = 0 \/ m - k = FrameCountP2 \/ m - k = FrameCountP2 - Wrap
    BY <1>2, <2>1 DEF Following
  <2>4. (m - k) % Wrap \in {0, FrameCountP2}
    BY <2>2, <2>3
  <2> QED
    BY <2>4 DEF m, k
<1>5. Diff(rear, front) \in 0 .. FrameCount
  BY <1>1, FifoFacts, DiffIsCount
<1> QED
  BY <1>3, <1>4, <1>5 DEF IndicesAreSane

LEMMA RingIs ==
  ASSUME NEW x, Offset(x) \in Slots, NEW n \in 0 .. FrameCount
  PROVE  \A y : y \in Ring(x, n) <=> \E i \in 0 .. n - 1 : y = SlotAt(Offset(x), i)
<1>1. FrameCount \in Nat
  BY FifoSizes
<1>2. \A i \in 0 .. n - 1 : (Offset(x) + i) % FrameCount = SlotAt(Offset(x), i)
  BY <1>1, SlotIs
<1> QED
  BY <1>2 DEF Ring

LEMMA FifoSlots == FrameCount # Wrap \div 2 /\ FifoInv => SlotsAreExclusive
<1>1. SUFFICES ASSUME FrameCount # Wrap \div 2, FifoInv PROVE SlotsAreExclusive
  OBVIOUS
<1> DEFINE c == Count(rear, front)
<1>2. /\ FrameCount \in Nat /\ Ahead(rear, front) /\ Offset(rear) \in Slots /\ Offset(front) \in Slots
      /\ c \in 0 .. FrameCount /\ writer.n \in 0 .. FrameCount /\ reader.n \in 0 .. FrameCount
      /\ writer.n + c <= FrameCount /\ reader.n <= c /\ Diff(rear, front) = c
  BY <1>1, FifoFacts, DiffIsCount
<1>3. ASSUME NEW n \in 0 .. c
      PROVE  Ring(rear, writer.n) \intersect Ring(front, n) = {}
  <2>1. SUFFICES ASSUME NEW y, y \in Ring(rear, writer.n), y \in Ring(front, n) PROVE FALSE
    OBVIOUS
  <2>2. n \in 0 .. FrameCount
    BY <1>2
  <2>3. PICK i \in 0 .. writer.n - 1 : y = SlotAt(Offset(rear), i)
    BY <1>2, <2>1, RingIs
  <2>4. PICK j \in 0 .. n - 1 : y = SlotAt(Offset(front), j)
    BY <1>2, <2>1, <2>2, RingIs
  <2>5. i \in 0 .. FrameCount /\ i + c <= FrameCount /\ c + i \in 0 .. FrameCount - 1
        /\ j \in 0 .. FrameCount - 1 /\ j < c + i
    BY <1>2
  <2>6. SlotAt(Offset(rear), i) = SlotAt(Offset(front), c + i)
    BY <1>2, <2>5, WriterSlots
  <2>7. c + i = j
    BY <1>2, <2>3, <2>4, <2>5, <2>6, SlotsDiffer
  <2> QED
    BY <2>5, <2>7
<1>4. reader.n \in 0 .. c /\ c \in 0 .. c
  BY <1>2
<1> QED
  BY <1>2, <1>3, <1>4 DEF SlotsAreExclusive

-----------------------------------------------------------------------------
(* The queue the FIFO implements                                           *)

QueueOf(b, r, f) == [i \in 1 .. Diff(r, f) |-> b[(Offset(f) + i - 1) % FrameCount]]
InOrder(b, f, c) == [i \in 1 .. c |-> b[SlotAt(Offset(f), i - 1)]]

LEMMA QueueIs ==
  ASSUME FrameCount # Wrap \div 2, NEW b \in [Slots -> Frames], NEW r, NEW f, Ahead(r, f)
  PROVE  /\ QueueOf(b, r, f) = InOrder(b, f, Count(r, f))
         /\ QueueOf(b, r, f) \in Seq(Frames) /\ Len(QueueOf(b, r, f)) = Count(r, f)
<1> DEFINE c == Count(r, f)
           u == Offset(f)
           Q == QueueOf(b, r, f)
<1>1. FrameCount \in Nat /\ c \in 0 .. FrameCount /\ u \in Slots /\ Diff(r, f) = c
  BY FifoSizes, CountIsBounded, DiffIsCount, RingIndex DEF Ahead, Slots
<1>2. \A i \in 1 .. c : /\ (u + i - 1) % FrameCount = SlotAt(u, i - 1)
                        /\ SlotAt(u, i - 1) \in Slots
  <2>1. SUFFICES ASSUME NEW i \in 1 .. c
                 PROVE  (u + i - 1) % FrameCount = SlotAt(u, i - 1) /\ SlotAt(u, i - 1) \in Slots
    OBVIOUS
  <2>2. i - 1 \in 0 .. FrameCount
    BY <1>1
  <2>3. u + i - 1 = u + (i - 1)
    BY <1>1 DEF Slots
  <2> QED
    BY <1>1, <2>2, <2>3, SlotIs
<1>3. Q = [i \in 1 .. c |-> b[(u + i - 1) % FrameCount]]
  BY <1>1 DEF QueueOf
<1> HIDE DEF c, u, Q
<1>4. Q = [i \in 1 .. c |-> b[SlotAt(u, i - 1)]]
  BY <1>2, <1>3
<1>5. Q \in [1 .. c -> Frames]
  BY <1>1, <1>2, <1>4
<1>6. Q \in Seq(Frames) /\ Len(Q) = c
  BY <1>1, <1>5
<1> QED
  BY <1>4, <1>6 DEF InOrder, c, u, Q

(* As it is now, and after a step.                                         *)
LEMMA QueueNow ==
  ASSUME FrameCount # Wrap \div 2, FifoInv
  PROVE  /\ Queue = InOrder(buffer, front, Count(rear, front))
         /\ Queue \in Seq(Frames) /\ Len(Queue) = Count(rear, front)
<1>1. Queue = QueueOf(buffer, rear, front)
  BY DEF Queue, QueueOf
<1>2. buffer \in [Slots -> Frames] /\ Ahead(rear, front)
  BY DEF FifoInv
<1> QED
  BY <1>1, <1>2, QueueIs

LEMMA QueueAfter ==
  ASSUME FrameCount # Wrap \div 2, FifoInv'
  PROVE  /\ Queue' = InOrder(buffer', front', Count(rear', front'))
         /\ Queue' \in Seq(Frames) /\ Len(Queue') = Count(rear', front')
<1>1. Queue' = QueueOf(buffer', rear', front')
  BY DEF Queue, QueueOf
<1>2. buffer' \in [Slots -> Frames] /\ Ahead(rear', front')
  BY DEF FifoInv
<1> QED
  BY <1>1, <1>2, QueueIs

LEMMA AbstractBegins == FrameCount # Wrap \div 2 /\ Init => Abstract!Init
<1>1. SUFFICES ASSUME FrameCount # Wrap \div 2, Init PROVE Abstract!Init
  OBVIOUS
<1>2. FifoInv /\ FrameCountP2 \in Nat /\ FrameCountP2 > 0
  BY <1>1, FifoBegins, FifoSizes
<1>3. Count(rear, front) = 0
  <2>1. Offset(0) = 0 /\ Round(0) = 0
    BY <1>2, ModuloOf DEF Offset, Round
  <2> QED
    BY <1>1, <2>1 DEF Init, Count
<1>4. Queue \in Seq(Frames) /\ Len(Queue) = 0
  BY <1>1, <1>2, <1>3, QueueNow
<1>5. Queue = <<>>
  BY <1>4
<1> QED
  BY <1>1, <1>5 DEF Init, Abstract!Init

(* A step that moves no index changes no frame between the indices.        *)
LEMMA SameQueue ==
  ASSUME FrameCount # Wrap \div 2, FifoInv, UNCHANGED <<front, rear>>,
         \A i \in 0 .. Count(rear, front) - 1 :
           buffer'[SlotAt(Offset(front), i)] = buffer[SlotAt(Offset(front), i)],
         FifoInv'
  PROVE  Queue' = Queue
<1> DEFINE c == Count(rear, front)
           u == Offset(front)
<1>1. c \in 0 .. FrameCount /\ FrameCount \in Nat
  BY FifoFacts
<1>2. Queue = [i \in 1 .. c |-> buffer[SlotAt(u, i - 1)]]
  BY QueueNow DEF InOrder
<1>3. Queue' = [i \in 1 .. c |-> buffer'[SlotAt(u, i - 1)]]
  <2>1. Queue' = InOrder(buffer', front', Count(rear', front'))
    BY QueueAfter
  <2> QED
    BY <2>1 DEF InOrder
<1>4. \A i \in 1 .. c : buffer'[SlotAt(u, i - 1)] = buffer[SlotAt(u, i - 1)]
  <2>1. \A i \in 1 .. c : i - 1 \in 0 .. c - 1
    BY <1>1
  <2> QED
    BY <2>1
<1> HIDE DEF c, u
<1> QED
  BY <1>2, <1>3, <1>4

(* A part of a write is to no slot the reader may still read.              *)
LEMMA PartsWriteElsewhere ==
  ASSUME FifoInv, WritePart1 \/ WritePart2
  PROVE  \A i \in 0 .. Count(rear, front) - 1 :
           buffer'[SlotAt(Offset(front), i)] = buffer[SlotAt(Offset(front), i)]
<1> DEFINE o == Offset(rear)
           k == Part1(rear, writer.n)
<1>1. /\ FrameCount \in Nat /\ o \in Slots /\ writer.n \in 0 .. FrameCount
      /\ k = IF o + writer.n <= FrameCount THEN writer.n ELSE FrameCount - o
  BY FifoFacts, PartIs
<1> HIDE DEF k, o
<1>2. CASE WritePart1
  <2>1. buffer' = Filled(o, 0, k)
    BY <1>2 DEF WritePart1, k, o
  <2>2. k \in Nat /\ o \in Nat /\ 0 \in Nat /\ o + k <= FrameCount /\ 0 + k <= writer.n
    BY <1>1 DEF Slots
  <2>3. \A i \in 0 .. 0 + k - 1 : SlotAt(o, i) = o + (i - 0)
    BY <1>1, <2>2 DEF SlotAt
  <2>4. \A i \in 0 .. 0 + k - 1 : SlotAt(Offset(rear), i) = o + (i - 0)
    BY <2>3 DEF o
  <2>5. \A i \in 0 .. Count(rear, front) - 1 :
          Filled(o, 0, k)[SlotAt(Offset(front), i)] = buffer[SlotAt(Offset(front), i)]
    BY <2>2, <2>4, FilledIs
  <2> QED
    BY <2>1, <2>5
<1>3. CASE WritePart2
  <2> DEFINE n == writer.n - k
  <2>1. buffer' = Filled(0, k, n) /\ o + writer.n > FrameCount
    BY <1>3 DEF WritePart2, FifoInv, CallOK, k, o
  <2>2. k = FrameCount - o /\ k \in Nat /\ n \in Nat /\ 0 \in Nat /\ 0 + n <= FrameCount
        /\ k + n <= writer.n
    BY <1>1, <2>1 DEF Slots
  <2>3. \A i \in k .. k + n - 1 : SlotAt(o, i) = 0 + (i - k)
    BY <1>1, <2>2 DEF SlotAt, Slots
  <2>4. \A i \in k .. k + n - 1 : SlotAt(Offset(rear), i) = 0 + (i - k)
    BY <2>3 DEF o
  <2> HIDE DEF n
  <2>5. \A i \in 0 .. Count(rear, front) - 1 :
          Filled(0, k, n)[SlotAt(Offset(front), i)] = buffer[SlotAt(Offset(front), i)]
    BY <2>2, <2>4, FilledIs
  <2> QED
    BY <2>1, <2>5
<1> QED
  BY <1>2, <1>3

(* Storing mRear is the abstract write.                                    *)
LEMMA StoreIsWrite ==
  ASSUME FrameCount # Wrap \div 2, FifoInv, WriteStore, FifoInv'
  PROVE  Abstract!Next
<1> DEFINE c == Count(rear, front)
           u == Offset(front)
           n == writer.n
           Added == Abstract!Numbered(written, n)
<1>1. /\ FrameCount \in Nat /\ FrameCount > 0 /\ NumFrames \in Nat /\ NumFrames > 0
      /\ c \in 0 .. FrameCount /\ n + c <= FrameCount /\ u \in Slots /\ Ahead(rear, front)
  BY FifoFacts
<1>2. /\ writer.pc = "store" /\ n \in 1 .. FrameCount /\ written \in Nat
      /\ \A i \in 0 .. n - 1 : buffer[SlotAt(Offset(rear), i)] = (written + i) % NumFrames
  <2>1. writer.pc = "store"
    BY DEF WriteStore
  <2>2. n \in 1 .. FrameCount /\ written \in Nat
    <3>1. CallOK("store", n, Offset(rear)) /\ written \in 0 .. NumFrames - 1
      BY <2>1 DEF FifoInv, Frames
    <3>2. n \in 0 .. FrameCount /\ n # 0
      BY <3>1 DEF CallOK
    <3> HIDE DEF n
    <3> QED
      BY <1>1, <3>1, <3>2
  <2>3. Done(writer.pc, writer.n, Offset(rear)) = n
    BY <2>1 DEF Done
  <2> QED
    BY <2>1, <2>2, <2>3 DEF FifoInv
<1>3. /\ rear' = Sum(rear, n) /\ written' = (written + n) % NumFrames
      /\ UNCHANGED <<front, buffer, delivered>>
  BY DEF WriteStore
<1>4. Count(rear', front') = c + n
  BY <1>1, <1>2, <1>3, WriterAdvances
<1>5. /\ Queue = [i \in 1 .. c |-> buffer[SlotAt(u, i - 1)]]
      /\ Queue \in Seq(Frames) /\ Len(Queue) = c
  BY QueueNow DEF InOrder
<1>6. /\ Queue' = [i \in 1 .. c + n |-> buffer[SlotAt(u, i - 1)]]
      /\ Queue' \in Seq(Frames) /\ Len(Queue') = c + n
  <2>1. /\ Queue' = InOrder(buffer', front', Count(rear', front'))
        /\ Queue' \in Seq(Frames) /\ Len(Queue') = Count(rear', front')
    BY QueueAfter
  <2> QED
    BY <1>3, <1>4, <2>1 DEF InOrder
<1>7. /\ Added = [i \in 1 .. n |-> (written + i - 1) % NumFrames]
      /\ Added \in Seq(Frames) /\ Len(Added) = n
  <2>1. Added = [i \in 1 .. n |-> (written + i - 1) % NumFrames]
    BY DEF Abstract!Numbered
  <2>2. \A i \in 1 .. n : (written + i - 1) % NumFrames \in Frames
    <3>1. SUFFICES ASSUME NEW i \in 1 .. n PROVE (written + i - 1) % NumFrames \in Frames
      OBVIOUS
    <3>2. written + i - 1 \in Nat
      BY <1>2
    <3> QED
      BY <1>1, <3>2, RemainderOf DEF Frames
  <2>3. n \in Nat
    BY <1>2
  <2> HIDE DEF n
  <2>4. [i \in 1 .. n |-> (written + i - 1) % NumFrames] \in [1 .. n -> Frames]
    BY <2>2
  <2>5. [i \in 1 .. n |-> (written + i - 1) % NumFrames] \in Seq(Frames)
    BY <2>3, <2>4
  <2> QED
    BY <2>1, <2>3, <2>5
<1>8. \A i \in 1 .. n : buffer[SlotAt(u, (c + i) - 1)] = (written + i - 1) % NumFrames
  <2>1. SUFFICES ASSUME NEW i \in 1 .. n
                 PROVE  buffer[SlotAt(u, (c + i) - 1)] = (written + i - 1) % NumFrames
    OBVIOUS
  <2>2. i - 1 \in 0 .. n - 1 /\ i - 1 \in 0 .. FrameCount /\ (i - 1) + c <= FrameCount
        /\ c + (i - 1) = (c + i) - 1 /\ written + (i - 1) = written + i - 1
    BY <1>1, <1>2
  <2>3. SlotAt(Offset(rear), i - 1) = SlotAt(u, c + (i - 1))
    BY <1>1, <2>2, WriterSlots
  <2> QED
    BY <1>2, <2>2, <2>3
<1> HIDE DEF c, u, n, Added
<1>9. Queue' = Queue \o Added
  <2>1. /\ Queue \o Added \in Seq(Frames) /\ Len(Queue \o Added) = c + n
        /\ \A i \in 1 .. c + n : (Queue \o Added)[i] = IF i <= c THEN Queue[i] ELSE Added[i - c]
    <3>1. /\ Queue \o Added \in Seq(Frames) /\ Len(Queue \o Added) = Len(Queue) + Len(Added)
          /\ \A i \in 1 .. Len(Queue) + Len(Added) :
               (Queue \o Added)[i] = IF i <= Len(Queue) THEN Queue[i] ELSE Added[i - Len(Queue)]
      <4>1. Queue \in Seq(Frames) /\ Added \in Seq(Frames)
        BY <1>5, <1>7
      <4> QED
        BY <4>1, ConcatProperties
    <3>2. Len(Queue) = c /\ Len(Added) = n
      BY <1>5, <1>7
    <3> QED
      BY <3>1, <3>2
  <2>2. ASSUME NEW i \in 1 .. c + n
        PROVE  (Queue \o Added)[i] = Queue'[i]
    <3>1. CASE i <= c
      <4>1. i \in 1 .. c
        BY <1>1, <3>1
      <4> QED
        BY <1>5, <1>6, <2>1, <3>1, <4>1
    <3>2. CASE ~ i <= c
      <4>1. i - c \in 1 .. n /\ c + (i - c) = i
        BY <1>1, <1>2, <3>2
      <4>2. Queue'[i] = buffer[SlotAt(u, (c + (i - c)) - 1)]
        BY <1>6, <4>1
      <4>3. Queue'[i] = (written + (i - c) - 1) % NumFrames
        BY <1>8, <4>1, <4>2
      <4>4. Added[i - c] = (written + (i - c) - 1) % NumFrames
        BY <1>7, <4>1
      <4> QED
        BY <2>1, <3>2, <4>3, <4>4
    <3> QED
      BY <3>1, <3>2
  <2> HIDE DEF c
  <2> QED
    BY <1>6, <2>1, <2>2, SeqEqual
<1>10. Len(Queue) + n <= FrameCount
  BY <1>1, <1>2, <1>5
<1>11. Abstract!Write(n)
  BY <1>3, <1>9, <1>10 DEF Abstract!Write, Added
<1> QED
  BY <1>2, <1>11 DEF Abstract!Next

(* Storing mFront is the abstract read.                                    *)
LEMMA StoreIsRead ==
  ASSUME FrameCount # Wrap \div 2, FifoInv, ReadStore, FifoInv'
  PROVE  Abstract!Next
<1> DEFINE c == Count(rear, front)
           u == Offset(front)
           n == reader.n
<1>1. /\ FrameCount \in Nat /\ FrameCount > 0 /\ c \in 0 .. FrameCount /\ n <= c /\ u \in Slots
      /\ Ahead(rear, front) /\ InRing(front)
  BY FifoFacts
<1>2. /\ n \in 1 .. FrameCount /\ reader.got \in Seq(Frames) /\ Len(reader.got) = n
      /\ \A i \in 1 .. n : reader.got[i] = buffer[SlotAt(u, i - 1)]
  <2>1. reader.pc = "store"
    BY DEF ReadStore
  <2>2. n \in 1 .. FrameCount
    BY <1>1, <2>1 DEF FifoInv, CallOK
  <2>3. Done(reader.pc, reader.n, u) = n
    BY <2>1 DEF Done
  <2> QED
    BY <2>1, <2>2, <2>3 DEF FifoInv
<1>3. /\ front' = Sum(front, n) /\ delivered' = reader.got
      /\ UNCHANGED <<rear, buffer, written>>
  BY DEF ReadStore
<1>4. Count(rear', front') = c - n
  BY <1>1, <1>2, <1>3, ReaderAdvances
<1>5. /\ Queue = [i \in 1 .. c |-> buffer[SlotAt(u, i - 1)]]
      /\ Queue \in Seq(Frames) /\ Len(Queue) = c
  BY QueueNow DEF InOrder
<1>6. Offset(front') = SlotAt(u, n)
  <2>1. /\ Offset(front) + n < FrameCount => Offset(Sum(front, n)) = Offset(front) + n
        /\ Offset(front) + n >= FrameCount => Offset(Sum(front, n)) = Offset(front) + n - FrameCount
    BY <1>1, <1>2, SumStaysInRing
  <2> QED
    BY <1>1, <1>2, <1>3, <2>1 DEF SlotAt, Slots
<1>7. /\ Queue' = [i \in 1 .. c - n |-> buffer[SlotAt(SlotAt(u, n), i - 1)]]
      /\ Queue' \in Seq(Frames) /\ Len(Queue') = c - n
  <2>1. /\ Queue' = InOrder(buffer', front', Count(rear', front'))
        /\ Queue' \in Seq(Frames) /\ Len(Queue') = Count(rear', front')
    BY QueueAfter
  <2> QED
    BY <1>3, <1>4, <1>6, <2>1 DEF InOrder
<1> HIDE DEF c, u, n
<1>8. \A i \in 1 .. c - n : SlotAt(SlotAt(u, n), i - 1) = SlotAt(u, (n + i) - 1)
  BY <1>1, <1>2 DEF SlotAt, Slots
<1>9. reader.got = SubSeq(Queue, 1, n)
  <2>1. SubSeq(Queue, 1, n) = [i \in 1 .. n |-> Queue[i]]
    BY <1>1, <1>2, <1>5
  <2>2. \A i \in 1 .. n : Queue[i] = reader.got[i]
    BY <1>1, <1>2, <1>5
  <2>3. reader.got = [i \in 1 .. n |-> reader.got[i]]
    BY <1>2
  <2> QED
    BY <2>1, <2>2, <2>3
<1>10. Queue' = SubSeq(Queue, n + 1, Len(Queue))
  <2> DEFINE T == SubSeq(Queue, n + 1, c)
  <2>1. n + 1 \in Int /\ c \in Int /\ \A i \in n + 1 .. c : Queue[i] \in Frames
    <3>1. \A i \in n + 1 .. c : i \in 1 .. Len(Queue)
      BY <1>1, <1>2, <1>5
    <3>2. \A i \in 1 .. Len(Queue) : Queue[i] \in Frames
      BY <1>5, ElementOfSeq
    <3> QED
      BY <1>1, <1>2, <3>1, <3>2
  <2>2. /\ T \in Seq(Frames) /\ Len(T) = IF n + 1 <= c THEN c - (n + 1) + 1 ELSE 0
        /\ \A i \in 1 .. c - (n + 1) + 1 : T[i] = Queue[(n + 1) + i - 1]
    BY <2>1, SubSeqProperties
  <2> HIDE DEF T
  <2>3. Len(T) = c - n /\ c - (n + 1) + 1 = c - n
    BY <1>1, <1>2, <2>2
  <2>4. ASSUME NEW i \in 1 .. c - n
        PROVE  Queue'[i] = T[i]
    <3>1. (n + 1) + i - 1 = n + i /\ n + i \in 1 .. c
      BY <1>1, <1>2
    <3>2. T[i] = Queue[n + i]
      BY <2>2, <2>3, <3>1
    <3>3. Queue[n + i] = buffer[SlotAt(u, (n + i) - 1)]
      BY <1>5, <3>1
    <3>4. Queue'[i] = buffer[SlotAt(SlotAt(u, n), i - 1)]
      BY <1>7
    <3> QED
      BY <1>8, <3>2, <3>3, <3>4
  <2>5. Queue' = T
    BY <1>7, <2>2, <2>3, <2>4, SeqEqual
  <2> QED
    BY <1>5, <2>5 DEF T
<1>11. Abstract!Read(n)
  BY <1>1, <1>3, <1>5, <1>9, <1>10 DEF Abstract!Read
<1> QED
  BY <1>2, <1>11 DEF Abstract!Next

LEMMA AbstractStep ==
  FrameCount # Wrap \div 2 /\ FifoInv /\ FifoInv' /\ [Next]_vars
    => [Abstract!Next]_<<Queue, written, delivered>>
<1>1. SUFFICES ASSUME FrameCount # Wrap \div 2, FifoInv, FifoInv', [Next]_vars
               PROVE  [Abstract!Next]_<<Queue, written, delivered>>
  OBVIOUS
<1>2. ASSUME UNCHANGED <<front, rear, buffer, written, delivered>>
      PROVE  [Abstract!Next]_<<Queue, written, delivered>>
  <2>1. Queue' = Queue
    BY <1>1, <1>2, SameQueue
  <2> QED
    BY <1>2, <2>1
<1>3. CASE UNCHANGED vars
  BY <1>2, <1>3 DEF vars
<1>4. ASSUME NEW count \in 1 .. MaxCount, WriteBegin(count) \/ ReadBegin(count)
      PROVE  [Abstract!Next]_<<Queue, written, delivered>>
  BY <1>2, <1>4 DEF WriteBegin, ReadBegin
<1>5. CASE WritePart1 \/ WritePart2
  <2>1. UNCHANGED <<front, rear, written, delivered>>
    BY <1>5 DEF WritePart1, WritePart2
  <2>2. Queue' = Queue
    BY <1>1, <1>5, <2>1, PartsWriteElsewhere, SameQueue
  <2> QED
    BY <2>1, <2>2
<1>6. CASE ReadPart1 \/ ReadPart2
  BY <1>2, <1>6 DEF ReadPart1, ReadPart2
<1>7. CASE WriteStore
  BY <1>1, <1>7, StoreIsWrite
<1>8. CASE ReadStore
  BY <1>1, <1>8, StoreIsRead
<1> QED
  BY <1>1, <1>3, <1>4, <1>5, <1>6, <1>7, <1>8 DEF Next, Writing, Reading

-----------------------------------------------------------------------------
(* The framebuffer's window (FramebufferWindow)                            *)
(*                                                                         *)
(* As long as clients are orderly, the buffers they have and the index one *)
(* waits with are the last ones before the head of the ring, in the order  *)
(* they were taken, and the front buffer is the one before them.  With     *)
(* fewer than two buffers nobody ever gets one.                            *)

Back(n) == (mBufferHead + mNumBuffers - n) % mNumBuffers
Pending == IF DOMAIN waiting = {} THEN 0 ELSE 1

OrderlyInv ==
  /\ \A c, d \in DOMAIN waiting : c = d
  /\ \A c \in DOMAIN waiting : waiting[c] = Back(1)
  /\ \A i \in 1 .. Len(dequeued) : dequeued[i] = Back(Pending + Len(dequeued) + 1 - i)
  /\ frontBuffer \in {-1, Back(Pending + Len(dequeued) + 1)}

WindowInv ==
  /\ mNumBuffers \in 0 .. 3 /\ mNumFreeBuffers \in Nat
  /\ mBufferHead \in Int /\ dequeued \in Seq(Int)
  /\ \A c \in DOMAIN waiting : waiting[c] \in Int
  /\ mNumFreeBuffers + Len(dequeued) = mNumBuffers
  /\ mNumBuffers > 0 => mNumFreeBuffers > 0
  /\ mNumBuffers < 2 => dequeued = << >>
  /\ mNumBuffers >= 2 => mBufferHead \in 0 .. mNumBuffers - 1
  /\ orderly /\ mNumBuffers >= 2 => OrderlyInv

LEMMA WindowBegins ==
  ASSUME LibrariesInit
  PROVE  WindowInv
<1>1. /\ \E n \in NumFramebuffers : mNumBuffers \in 0 .. Window!Supported(n)
      /\ mNumFreeBuffers = mNumBuffers /\ mBufferHead = mNumBuffers - 1
      /\ frontBuffer = -1 /\ dequeued = << >>
      /\ waiting = [c \in {} |-> 0]
  BY DEF LibrariesInit, Window!Init, Window!None
<1>2. \A n \in NumFramebuffers : Window!Supported(n) \in {2, 3}
  BY LibraryPartsAssumption DEF Window!FramebufferWindowAssumption, Window!Supported,
     Window!MIN_NUM_FRAME_BUFFERS, Window!MAX_NUM_FRAME_BUFFERS
<1>3. mNumBuffers \in 0 .. 3
  BY <1>1, <1>2
<1>4. DOMAIN waiting = {} /\ Len(dequeued) = 0 /\ dequeued \in Seq(Int)
  BY <1>1
<1> QED
  BY <1>1, <1>3, <1>4 DEF WindowInv, OrderlyInv

LEMMA HeadAdvances ==
  ASSUME WindowInv, mNumBuffers >= 2, mNumBuffers' = mNumBuffers,
         mBufferHead' = IF mBufferHead + 1 >= mNumBuffers THEN 0 ELSE mBufferHead + 1
  PROVE  /\ mBufferHead' \in 0 .. mNumBuffers - 1 /\ Back(1)' = mBufferHead
         /\ \A n \in 1 .. 4 : Back(n + 1)' = Back(n)
<1>1. mNumBuffers \in {2, 3} /\ mBufferHead \in 0 .. mNumBuffers - 1
  BY DEF WindowInv
<1>2. CASE mNumBuffers = 2
  <2>1. mBufferHead \in {0, 1}
    BY <1>1, <1>2
  <2> QED
    BY <1>2, <2>1 DEF Back
<1>3. CASE mNumBuffers = 3
  <2>1. mBufferHead \in {0, 1, 2}
    BY <1>1, <1>3
  <2> QED
    BY <1>3, <2>1 DEF Back
<1> QED
  BY <1>1, <1>2, <1>3

(* The buffers less than a round behind the head are different ones.       *)
LEMMA BackDiffers ==
  ASSUME WindowInv, mNumBuffers >= 2
  PROVE  /\ \A n \in 1 .. 4 : Back(n) # -1
         /\ \A n \in 1 .. 4, m \in 1 .. 4 :
              n < m /\ m < n + mNumBuffers => Back(n) # Back(m)
<1>1. mNumBuffers \in {2, 3} /\ mBufferHead \in 0 .. mNumBuffers - 1
  BY DEF WindowInv
<1>2. CASE mNumBuffers = 2
  <2>1. mBufferHead \in {0, 1}
    BY <1>1, <1>2
  <2> QED
    BY <1>2, <2>1 DEF Back
<1>3. CASE mNumBuffers = 3
  <2>1. mBufferHead \in {0, 1, 2}
    BY <1>1, <1>3
  <2> QED
    BY <1>3, <2>1 DEF Back
<1> QED
  BY <1>1, <1>2, <1>3

LEMMA WindowNumbers ==
  ASSUME WindowInv
  PROVE  /\ mNumBuffers \in 0 .. 3 /\ mNumFreeBuffers \in Nat /\ mBufferHead \in Int
         /\ dequeued \in Seq(Int) /\ Len(dequeued) \in 0 .. 2
         /\ mNumFreeBuffers + Len(dequeued) = mNumBuffers
         /\ mNumBuffers < 2 => mNumFreeBuffers < 2 /\ Len(dequeued) = 0
<1>1. dequeued \in Seq(Int) /\ Len(dequeued) \in Nat
  BY LenProperties DEF WindowInv
<1>2. dequeued = << >> => Len(dequeued) = 0
  OBVIOUS
<1>3. /\ mNumBuffers \in 0 .. 3 /\ mNumFreeBuffers \in Nat /\ mBufferHead \in Int
      /\ mNumFreeBuffers + Len(dequeued) = mNumBuffers
      /\ mNumBuffers > 0 => mNumFreeBuffers > 0
      /\ mNumBuffers < 2 => Len(dequeued) = 0
  BY <1>2 DEF WindowInv
<1>4. Len(dequeued) \in 0 .. 2
  <2>1. \A n \in Nat : n + mNumFreeBuffers = mNumBuffers => n \in 0 .. 2
    BY <1>3
  <2>2. Len(dequeued) + mNumFreeBuffers = mNumBuffers
    BY <1>1, <1>3
  <2> QED
    BY <1>1, <2>1, <2>2
<1> QED
  BY <1>1, <1>3, <1>4

LEMMA WaitKeepsWindow ==
  ASSUME WindowInv, NEW c, Window!DequeueBuffer(c), UNCHANGED dequeued,
         waiting' = [d \in DOMAIN waiting \union {c} |->
                       IF d = c THEN mBufferHead ELSE waiting[d]],
         UNCHANGED mNumFreeBuffers
  PROVE  WindowInv'
<1>0. PICK k \in 0 .. 2 : k = Len(dequeued)
  BY WindowNumbers
<1>1. /\ UNCHANGED <<mNumBuffers, frontBuffer>>
      /\ mBufferHead' = (IF mBufferHead + 1 >= mNumBuffers THEN 0 ELSE mBufferHead + 1)
      /\ orderly' = (orderly /\ DOMAIN waiting = {})
  BY DEF Window!DequeueBuffer, Window!Advanced
<1>2. mBufferHead' \in Int
  BY <1>1, WindowNumbers
<1>3. mNumBuffers >= 2 => mBufferHead' \in 0 .. mNumBuffers - 1
  BY <1>1, HeadAdvances
<1>4. orderly' /\ mNumBuffers >= 2 => OrderlyInv'
  <2> SUFFICES ASSUME orderly, DOMAIN waiting = {}, mNumBuffers >= 2
               PROVE  OrderlyInv'
    BY <1>1
  <2>1. DOMAIN waiting' = {c} /\ waiting'[c] = mBufferHead /\ Pending = 0 /\ Pending' = 1
    BY DEF Pending
  <2>2. Back(1)' = mBufferHead /\ \A n \in 1 .. 4 : Back(n + 1)' = Back(n)
    BY <1>1, HeadAdvances
  <2>3. /\ \A i \in 1 .. k : dequeued[i] = Back(k + 1 - i)
        /\ frontBuffer \in {-1, Back(k + 1)}
    BY <1>0, <2>1 DEF WindowInv, OrderlyInv
  <2>4. Back(1 + k + 1)' = Back(k + 1)
    <3>1. k + 1 \in 1 .. 4 /\ 1 + k + 1 = (k + 1) + 1
      OBVIOUS
    <3> QED
      BY <2>2, <3>1
  <2>5. ASSUME NEW i \in 1 .. k PROVE Back(1 + k + 1 - i)' = Back(k + 1 - i)
    <3>1. k + 1 - i \in 1 .. 4 /\ 1 + k + 1 - i = (k + 1 - i) + 1
      OBVIOUS
    <3> QED
      BY <2>2, <3>1
  <2> QED
    BY <1>0, <1>1, <2>1, <2>2, <2>3, <2>4, <2>5 DEF OrderlyInv
<1>5. \A d \in DOMAIN waiting' : waiting'[d] \in Int
  BY DEF WindowInv
<1> QED
  BY <1>1, <1>2, <1>3, <1>4, <1>5 DEF WindowInv

LEMMA TakeKeepsWindow ==
  ASSUME WindowInv, mNumFreeBuffers >= 2, NEW index \in Int,
         mNumFreeBuffers' = mNumFreeBuffers - 1, dequeued' = Append(dequeued, index),
         UNCHANGED <<mNumBuffers, frontBuffer>>, mBufferHead' \in Int,
         mNumBuffers >= 2 => mBufferHead' \in 0 .. mNumBuffers - 1,
         \A c \in DOMAIN waiting' : waiting'[c] \in Int,
         orderly' => orderly,
         orderly' /\ mNumBuffers >= 2 =>
           /\ Pending' = 0 /\ DOMAIN waiting' = {} /\ index = Back(1)'
           /\ \A n \in 1 .. 3 : Back(n + 1)' = Back(Pending + n)
  PROVE  WindowInv'
<1>0. PICK k \in 0 .. 2 : k = Len(dequeued)
  BY WindowNumbers
<1>1. /\ dequeued' \in Seq(Int) /\ Len(dequeued') = k + 1 /\ dequeued'[k + 1] = index
      /\ \A i \in 1 .. k : dequeued'[i] = dequeued[i]
  BY <1>0, AppendProperties DEF WindowInv
<1>2. mNumBuffers \in {2, 3} /\ mNumFreeBuffers \in Nat /\ k + 1 < mNumBuffers
  BY <1>0, WindowNumbers
<1>3. ASSUME orderly' PROVE OrderlyInv'
  <2>1. /\ Pending' = 0 /\ DOMAIN waiting' = {} /\ index = Back(1)'
        /\ \A n \in 1 .. 3 : Back(n + 1)' = Back(Pending + n)
    BY <1>2, <1>3
  <2>2. /\ \A i \in 1 .. k : dequeued[i] = Back(Pending + k + 1 - i)
        /\ frontBuffer \in {-1, Back(Pending + k + 1)}
    BY <1>0, <1>2, <1>3 DEF WindowInv, OrderlyInv
  <2>0. Pending \in {0, 1}
    BY DEF Pending
  <2>3. \A i \in 1 .. k : Back(k + 2 - i)' = Back(Pending + k + 1 - i)
    <3> SUFFICES ASSUME NEW i \in 1 .. k PROVE Back(k + 2 - i)' = Back(Pending + k + 1 - i)
      OBVIOUS
    <3>1. k + 1 - i \in 1 .. 3 /\ k + 2 - i = (k + 1 - i) + 1
          /\ Pending + k + 1 - i = Pending + (k + 1 - i)
      BY <2>0
    <3> QED
      BY <2>1, <3>1
  <2>4. Back(k + 2)' = Back(Pending + k + 1)
    <3>1. k + 1 \in 1 .. 3 /\ k + 2 = (k + 1) + 1 /\ Pending + k + 1 = Pending + (k + 1)
      BY <2>0
    <3> QED
      BY <2>1, <3>1
  <2>5. \A i \in 1 .. k + 1 : dequeued'[i] = Back(k + 2 - i)'
    <3> SUFFICES ASSUME NEW i \in 1 .. k + 1 PROVE dequeued'[i] = Back(k + 2 - i)'
      OBVIOUS
    <3>1. CASE i = k + 1
      <4>1. k + 2 - i = 1
        BY <3>1
      <4> QED
        BY <1>1, <2>1, <3>1, <4>1
    <3>2. CASE i # k + 1
      <4>1. i \in 1 .. k
        BY <3>2
      <4> QED
        BY <1>1, <2>2, <2>3, <4>1
    <3> QED
      BY <3>1, <3>2
  <2>6. /\ Pending' + Len(dequeued') + 1 = k + 2
        /\ \A i \in 1 .. k + 1 : Pending' + Len(dequeued') + 1 - i = k + 2 - i
    BY <1>1, <2>1
  <2> QED
    BY <1>1, <2>1, <2>2, <2>4, <2>5, <2>6 DEF OrderlyInv
<1> QED
  BY <1>0, <1>1, <1>2, <1>3 DEF WindowInv

LEMMA DequeueKeepsWindow ==
  ASSUME WindowInv, NEW c, Window!DequeueBuffer(c)
  PROVE  WindowInv'
<1>1. /\ UNCHANGED <<mNumBuffers, frontBuffer>>
      /\ mBufferHead' = (IF mBufferHead + 1 >= mNumBuffers THEN 0 ELSE mBufferHead + 1)
      /\ orderly' = (orderly /\ DOMAIN waiting = {})
  BY DEF Window!DequeueBuffer, Window!Advanced
<1>2. CASE Window!MustWait
  BY <1>2, WaitKeepsWindow DEF Window!DequeueBuffer
<1>3. CASE ~ Window!MustWait
  <2>1. /\ mNumFreeBuffers' = mNumFreeBuffers - 1 /\ UNCHANGED waiting
        /\ dequeued' = Append(dequeued, mBufferHead)
    BY <1>3 DEF Window!DequeueBuffer, Window!Take
  <2>2. mNumFreeBuffers >= 2 /\ mNumBuffers >= 2 /\ mBufferHead \in Int
    BY <1>3, WindowNumbers DEF Window!MustWait
  <2>3. /\ mBufferHead' \in 0 .. mNumBuffers - 1 /\ Back(1)' = mBufferHead
        /\ \A n \in 1 .. 4 : Back(n + 1)' = Back(n)
    BY <1>1, <2>2, HeadAdvances
  <2>4. orderly' => DOMAIN waiting = {} /\ Pending = 0 /\ Pending' = 0
    BY <1>1, <2>1 DEF Pending
  <2>5. orderly' => \A n \in 1 .. 3 : Back(n + 1)' = Back(Pending + n)
    BY <2>3, <2>4
  <2> QED
    <3>1. orderly' /\ mNumBuffers >= 2 =>
             /\ Pending' = 0 /\ DOMAIN waiting' = {} /\ mBufferHead = Back(1)'
             /\ \A n \in 1 .. 3 : Back(n + 1)' = Back(Pending + n)
      BY <2>1, <2>3, <2>4, <2>5
    <3>2. orderly' => orderly
      BY <1>1
    <3>3. mBufferHead' \in Int
      BY <2>2, <2>3, WindowNumbers
    <3>4. \A c1 \in DOMAIN waiting' : waiting'[c1] \in Int
      BY <2>1 DEF WindowInv
    <3> QED
      BY <1>1, <2>1, <2>2, <2>3, <3>1, <3>2, <3>3, <3>4, TakeKeepsWindow
<1> QED
  BY <1>2, <1>3

LEMMA WakeUpKeepsWindow ==
  ASSUME WindowInv, NEW c, Window!WakeUp(c)
  PROVE  WindowInv'
<1>1. /\ c \in DOMAIN waiting /\ ~ Window!MustWait
      /\ mNumFreeBuffers' = mNumFreeBuffers - 1 /\ dequeued' = Append(dequeued, waiting[c])
      /\ waiting' = [d \in DOMAIN waiting \ {c} |-> waiting[d]]
      /\ UNCHANGED <<mNumBuffers, mBufferHead, frontBuffer, orderly>>
  BY DEF Window!WakeUp, Window!Take
<1>2. /\ mNumFreeBuffers >= 2 /\ mNumBuffers >= 2 /\ mBufferHead' \in Int
      /\ mBufferHead' \in 0 .. mNumBuffers - 1
  BY <1>1, WindowNumbers DEF Window!MustWait, WindowInv
<1>3. \A n : Back(n)' = Back(n)
  BY <1>1 DEF Back
<1>4. ASSUME orderly'
      PROVE  /\ Pending' = 0 /\ DOMAIN waiting' = {} /\ waiting[c] = Back(1)'
             /\ \A n \in 1 .. 3 : Back(n + 1)' = Back(Pending + n)
  <2>1. OrderlyInv
    BY <1>1, <1>2, <1>4 DEF WindowInv
  <2>2. DOMAIN waiting = {c} /\ Pending = 1 /\ DOMAIN waiting' = {}
    BY <1>1, <2>1 DEF OrderlyInv, Pending
  <2>3. \A n \in 1 .. 3 : n + 1 = Pending + n
    BY <2>2
  <2> QED
    BY <1>1, <1>3, <2>1, <2>2, <2>3 DEF OrderlyInv, Pending
<1>5. waiting[c] \in Int /\ \A d \in DOMAIN waiting' : waiting'[d] \in Int
  BY <1>1 DEF WindowInv
<1> QED
  BY <1>1, <1>2, <1>4, <1>5, TakeKeepsWindow

(* The sequence without its i-th element.                                  *)
Without(s, i) == SubSeq(s, 1, i - 1) \o SubSeq(s, i + 1, Len(s))

LEMMA WithoutOne ==
  ASSUME NEW S, NEW s \in Seq(S), NEW i \in 1 .. Len(s)
  PROVE  /\ Without(s, i) \in Seq(S) /\ Len(Without(s, i)) = Len(s) - 1
         /\ i = 1 => \A j \in 1 .. Len(s) - 1 : Without(s, i)[j] = s[j + 1]
<1> DEFINE a == SubSeq(s, 1, i - 1)
           b == SubSeq(s, i + 1, Len(s))
<1>0. Len(s) \in Nat
  BY LenProperties
<1>1. a \in Seq(S) /\ Len(a) = i - 1
  <2>1. \A j \in 1 .. i - 1 : s[j] \in S
    BY <1>0, ElementOfSeq
  <2> QED
    BY <1>0, <2>1, SubSeqProperties
<1>2. b \in Seq(S) /\ Len(b) = Len(s) - i /\ \A j \in 1 .. Len(s) - i : b[j] = s[i + j]
  <2>1. \A j \in i + 1 .. Len(s) : s[j] \in S
    BY <1>0, ElementOfSeq
  <2> QED
    BY <1>0, <2>1, SubSeqProperties
<1> HIDE DEF a, b
<1>3. a \o b \in Seq(S) /\ Len(a \o b) = Len(a) + Len(b)
      /\ \A j \in 1 .. Len(a) + Len(b) : (a \o b)[j] = IF j <= Len(a) THEN a[j] ELSE b[j - Len(a)]
  BY <1>1, <1>2, ConcatProperties
<1>4. Without(s, i) = a \o b
  BY DEF Without, a, b
<1>5. Len(a \o b) = Len(s) - 1
  BY <1>0, <1>1, <1>2, <1>3
<1>6. ASSUME i = 1, NEW j \in 1 .. Len(s) - 1 PROVE (a \o b)[j] = s[j + 1]
  <2>1. Len(a) = 0 /\ j \in 1 .. Len(a) + Len(b) /\ ~ j <= Len(a) /\ j - Len(a) = j
        /\ j \in 1 .. Len(s) - i /\ i + j = j + 1
    BY <1>0, <1>1, <1>2, <1>6
  <2> QED
    BY <1>2, <1>3, <2>1
<1> QED
  BY <1>3, <1>4, <1>5, <1>6

LEMMA QueueKeepsWindow ==
  ASSUME WindowInv, NEW q \in DOMAIN dequeued, Window!QueueBuffer(q)
  PROVE  WindowInv'
<1>0. PICK k \in 0 .. 2 : k = Len(dequeued)
  BY WindowNumbers
<1>1. /\ q \in 1 .. k /\ frontBuffer' = dequeued[q] /\ dequeued' = Without(dequeued, q)
      /\ mNumFreeBuffers' = mNumFreeBuffers + 1 /\ orderly' = (orderly /\ q = 1)
      /\ UNCHANGED <<mNumBuffers, mBufferHead, waiting>>
  BY <1>0 DEF Window!QueueBuffer, Without, WindowInv
<1>2. /\ dequeued' \in Seq(Int) /\ Len(dequeued') = k - 1
      /\ q = 1 => \A j \in 1 .. k - 1 : dequeued'[j] = dequeued[j + 1]
  BY <1>0, <1>1, WithoutOne DEF WindowInv
<1>3. /\ mNumBuffers \in 0 .. 3 /\ mNumFreeBuffers \in Nat /\ k - 1 \in 0 .. 1
      /\ mNumFreeBuffers + k = mNumBuffers /\ mNumBuffers >= 2
  BY <1>0, <1>1, WindowNumbers
<1>4. \A n : Back(n)' = Back(n)
  BY <1>1 DEF Back
<1>5. Pending' = Pending /\ Pending \in {0, 1}
  BY <1>1 DEF Pending
<1>6. ASSUME orderly' PROVE OrderlyInv'
  <2>1. /\ \A i \in 1 .. k : dequeued[i] = Back(Pending + k + 1 - i)
        /\ \A c, d \in DOMAIN waiting : c = d
        /\ \A c \in DOMAIN waiting : waiting[c] = Back(1)
        /\ q = 1
    BY <1>0, <1>1, <1>3, <1>6 DEF WindowInv, OrderlyInv
  <2>2. frontBuffer' = Back(Pending + (k - 1) + 1)
    <3>1. Pending + k + 1 - 1 = Pending + (k - 1) + 1
      BY <1>5
    <3> QED
      BY <1>1, <2>1, <3>1
  <2>3. \A j \in 1 .. k - 1 : dequeued'[j] = Back(Pending + (k - 1) + 1 - j)
    <3> SUFFICES ASSUME NEW j \in 1 .. k - 1 PROVE dequeued'[j] = Back(Pending + (k - 1) + 1 - j)
      OBVIOUS
    <3>1. j + 1 \in 1 .. k /\ Pending + k + 1 - (j + 1) = Pending + (k - 1) + 1 - j
      BY <1>5
    <3> QED
      BY <1>2, <2>1, <3>1
  <2> QED
    BY <1>1, <1>2, <1>4, <1>5, <2>1, <2>2, <2>3 DEF OrderlyInv
<1>7. mNumFreeBuffers' \in Nat /\ mNumFreeBuffers' + Len(dequeued') = mNumBuffers /\ mNumFreeBuffers' > 0
  BY <1>1, <1>2, <1>3
<1> QED
  BY <1>1, <1>2, <1>3, <1>6, <1>7 DEF WindowInv

LEMMA WindowStep ==
  ASSUME WindowInv, [Window!Next]_windowVars
  PROVE  WindowInv'
<1>1. ASSUME NEW c \in Clients, Window!DequeueBuffer(c) PROVE WindowInv'
  BY <1>1, DequeueKeepsWindow
<1>2. ASSUME NEW c \in Clients, Window!WakeUp(c) PROVE WindowInv'
  BY <1>2, WakeUpKeepsWindow
<1>3. ASSUME NEW i \in DOMAIN dequeued, Window!QueueBuffer(i) PROVE WindowInv'
  BY <1>3, QueueKeepsWindow
<1>4. CASE UNCHANGED windowVars
  BY <1>4 DEF windowVars, WindowInv, OrderlyInv, Back, Pending
<1> QED
  BY <1>1, <1>2, <1>3, <1>4 DEF Window!Next

LEMMA WindowIsExclusive ==
  ASSUME WindowInv
  PROVE  Window!BuffersAreCounted /\ Window!BuffersAreExclusive
<1>0. PICK k \in 0 .. 2 : k = Len(dequeued)
  BY WindowNumbers
<1>1. Window!BuffersAreCounted
  BY DEF Window!BuffersAreCounted, WindowInv
<1>2. ASSUME orderly
      PROVE  /\ frontBuffer \notin {dequeued[i] : i \in DOMAIN dequeued}
             /\ Cardinality({dequeued[i] : i \in DOMAIN dequeued}) = k
             /\ \A c \in DOMAIN waiting : Window!MustWait \/ waiting[c] # frontBuffer
  <2>1. CASE k = 0
    <3>1. {dequeued[i] : i \in DOMAIN dequeued} = {}
      <4>1. DOMAIN dequeued = 1 .. k
        BY <1>0, WindowNumbers, LenProperties
      <4>2. 1 .. k = {}
        BY <2>1
      <4> QED
        BY <4>1, <4>2
    <3>2. Cardinality({}) = 0
      BY FS_EmptySet
    <3>3. ASSUME NEW c \in DOMAIN waiting, ~ Window!MustWait PROVE waiting[c] # frontBuffer
      <4>1. mNumBuffers >= 2
        BY <3>3, WindowNumbers DEF Window!MustWait
      <4>2. waiting[c] = Back(1) /\ frontBuffer \in {-1, Back(2)}
        BY <1>0, <1>2, <2>1, <4>1 DEF WindowInv, OrderlyInv, Pending
      <4>3. Back(1) # Back(2)
        <5>1. 1 \in 1 .. 4 /\ 2 \in 1 .. 4 /\ 1 < 2 /\ 2 < 1 + mNumBuffers
          BY <4>1, WindowNumbers
        <5> QED
          BY <4>1, <5>1, BackDiffers
      <4>4. Back(1) # -1
        BY <4>1, BackDiffers
      <4> QED
        BY <4>2, <4>3, <4>4
    <3> QED
      BY <2>1, <3>1, <3>2, <3>3
  <2>2. CASE k # 0
    <3>1. /\ mNumBuffers >= 2 /\ k < mNumBuffers /\ mNumFreeBuffers = mNumBuffers - k
          /\ mNumBuffers \in {2, 3} /\ mNumFreeBuffers \in Nat
      BY <1>0, <2>2, WindowNumbers DEF WindowInv
    <3>2. /\ \A i \in 1 .. k : dequeued[i] = Back(Pending + k + 1 - i)
          /\ frontBuffer \in {-1, Back(Pending + k + 1)}
          /\ \A c \in DOMAIN waiting : waiting[c] = Back(1)
      BY <1>0, <1>2, <3>1 DEF WindowInv, OrderlyInv
    <3>3. Pending \in {0, 1} /\ (DOMAIN waiting # {} => Pending = 1)
      BY DEF Pending
    <3>4. \A n \in 1 .. 4 : Back(n) # -1
      BY <3>1, BackDiffers
    <3>5. DOMAIN dequeued = 1 .. k
      BY <1>0 DEF WindowInv
    <3>6. frontBuffer \notin {dequeued[i] : i \in DOMAIN dequeued}
      <4> SUFFICES ASSUME NEW i \in 1 .. k PROVE frontBuffer # dequeued[i]
        BY <3>5
      <4>1. /\ Pending + k + 1 - i \in 1 .. 4 /\ Pending + k + 1 \in 1 .. 4
            /\ Pending + k + 1 - i < Pending + k + 1
            /\ Pending + k + 1 < (Pending + k + 1 - i) + mNumBuffers
        BY <3>1, <3>3
      <4>2. Back(Pending + k + 1 - i) # Back(Pending + k + 1)
        BY <3>1, <4>1, BackDiffers
      <4> QED
        BY <3>2, <3>4, <4>1, <4>2
    <3>7. Cardinality({dequeued[i] : i \in DOMAIN dequeued}) = k
      <4>1. CASE k = 1
        <5>1. {dequeued[i] : i \in DOMAIN dequeued} = {dequeued[1]}
          BY <3>5, <4>1
        <5> QED
          BY <4>1, <5>1, FS_Singleton
      <4>2. CASE k = 2
        <5>1. Back(Pending + 1) # Back(Pending + 2)
          <6>1. Pending + 1 \in 1 .. 4 /\ Pending + 2 \in 1 .. 4 /\ Pending + 1 < Pending + 2
                /\ Pending + 2 < (Pending + 1) + mNumBuffers
            BY <3>1, <3>3
          <6> QED
            BY <3>1, <6>1, BackDiffers
        <5>2. Pending + k + 1 - 1 = Pending + 2 /\ Pending + k + 1 - 2 = Pending + 1
          BY <3>3, <4>2
        <5>3. dequeued[1] # dequeued[2]
          BY <3>2, <4>2, <5>1, <5>2
        <5>4. {dequeued[i] : i \in DOMAIN dequeued} = {dequeued[1]} \cup {dequeued[2]}
          BY <3>5, <4>2
        <5>5. IsFiniteSet({dequeued[1]}) /\ Cardinality({dequeued[1]}) = 1
          BY FS_Singleton
        <5>6. Cardinality({dequeued[1]} \cup {dequeued[2]}) = Cardinality({dequeued[1]}) + 1
          BY <5>3, <5>5, FS_AddElement
        <5> QED
          BY <4>2, <5>4, <5>5, <5>6
      <4> QED
        BY <2>2, <4>1, <4>2
    <3>8. ASSUME NEW c \in DOMAIN waiting, ~ Window!MustWait PROVE waiting[c] # frontBuffer
      <4>1. Pending = 1 /\ mNumFreeBuffers >= 2
        BY <3>1, <3>3, <3>8 DEF Window!MustWait
      <4>2. Pending + k + 1 \in 1 .. 4 /\ 1 < Pending + k + 1 /\ Pending + k + 1 < 1 + mNumBuffers
        BY <3>1, <4>1
      <4>3. Back(1) # Back(Pending + k + 1)
        BY <3>1, <4>2, BackDiffers
      <4> QED
        BY <3>2, <3>4, <4>3
    <3> QED
      BY <3>6, <3>7, <3>8
  <2> QED
    BY <2>1, <2>2
<1> QED
  BY <1>0, <1>1, <1>2 DEF Window!BuffersAreExclusive, Window!Cardinality, Cardinality

-----------------------------------------------------------------------------
(* Graphic buffers (GraphicBuffer)                                         *)
(*                                                                         *)
(* A handle that is not free is that of one object, which has it while a   *)
(* call is made or until it is listed; an object whose handle is being     *)
(* unlisted has given it back.  A handle the device has given is listed    *)
(* unless that is the next step of the object that has it, and is listed   *)
(* no longer than until it is unlisted, or given again.                    *)

Sent == [size : Nat, room : Nat]
Objects ==
  [handle : Addresses \cup {0}, size : Nat, mOwner : {"ownData", "ownHandle"}, failed : BOOLEAN,
   todo : {"construct", "call", "alloc", "list", "unlist", "receive"},
   then : {"construct", "alloc", "receive"}, asked : Sent]
Kinds == {"free", "device", "received"}

(* What an object has at each point of a call.                             *)
ObjectSound(o) ==
  /\ o.todo \in {"construct", "alloc", "receive"} => o.handle = 0
  /\ o.todo \in {"list", "unlist"} => o.handle # 0
  /\ o.todo \in {"alloc", "list", "unlist"} => o.mOwner = "ownData"
  /\ o.todo = "unlist" /\ o.then = "alloc" => o.mOwner = "ownData"
  /\ o.todo = "receive" \/ (o.todo = "unlist" /\ o.then = "receive") => o.asked.size <= o.asked.room
  /\ o.todo = "call" /\ o.handle = 0 /\ ~ o.failed => o.size = 0

(* The one that has the handle is whose memory it is.                      *)
HolderSound(o, m) ==
  /\ m.kind = IF o.mOwner = "ownData" THEN "device" ELSE "received"
  /\ o.todo = "list" => m.size = Graphics!RoomFor(o.asked.size)
  /\ o.todo = "call" => o.size <= m.size

Holds(b, a) == object[b].handle = a /\ object[b].todo # "unlist"

GraphicsInv ==
  /\ object \in [Buffers -> Objects]
  /\ heap \in [Addresses -> [kind : Kinds, size : Nat]]
  /\ flattened \in Sent /\ flattened.size <= flattened.room
  /\ \A b \in Buffers : ObjectSound(object[b])
  /\ \A a \in Addresses : heap[a].kind = "free" => heap[a] = Graphics!Free
  /\ \A a \in Addresses : heap[a].kind # "free" => heap[a].size > 0
  /\ \A a \in Addresses, b \in Buffers :
       Holds(b, a) => heap[a] # Graphics!Free /\ a \notin lost /\ HolderSound(object[b], heap[a])
  /\ \A a \in Addresses, b, c \in Buffers : Holds(b, a) /\ Holds(c, a) => b = c
  /\ \A a \in Addresses : heap[a] # Graphics!Free /\ a \notin lost => \E b \in Buffers : Holds(b, a)
  /\ \A a \in lost : a \in Addresses => heap[a].kind = "received"
  /\ \A a \in Addresses : heap[a].kind = "device" /\ Graphics!Unlisting(a) # {} => a \in reused
  /\ \A a \in Addresses \ reused :
       IF heap[a].kind = "device"
       THEN \/ \E b \in Buffers : Holds(b, a) /\ object[b].todo = "list"
            \/ a \in DOMAIN sAllocList /\ sAllocList[a] = heap[a].size
       ELSE a \notin DOMAIN sAllocList \/ Graphics!Unlisting(a) # {}

LEMMA GraphicsBegins ==
  ASSUME LibrariesInit
  PROVE  GraphicsInv
<1>1. /\ object = [b \in Buffers |-> Graphics!None]
      /\ heap = [a \in Addresses |-> Graphics!Free] /\ sAllocList = [a \in {} |-> 0]
      /\ flattened = Graphics!Flat(0, 0) /\ lost = {} /\ reused = {}
  BY DEF LibrariesInit, Graphics!Init
<1>2. Addresses \subseteq Nat /\ 0 \notin Addresses
  BY LibraryPartsAssumption DEF Graphics!GraphicBufferAssumption
<1>3. Graphics!None \in Objects /\ ObjectSound(Graphics!None)
      /\ Graphics!None.handle = 0 /\ Graphics!None.todo = "construct"
  BY DEF Objects, Sent, ObjectSound, Graphics!None, Graphics!NULL, Graphics!Flat
<1>4. Graphics!Free \in [kind : Kinds, size : Nat] /\ Graphics!Free.kind = "free"
  BY DEF Graphics!Free, Kinds
<1>5. flattened \in Sent /\ flattened.size <= flattened.room
  BY <1>1 DEF Sent, Graphics!Flat
<1>6. \A a \in Addresses, b \in Buffers : ~ Holds(b, a)
  BY <1>1, <1>2, <1>3 DEF Holds
<1>7. DOMAIN sAllocList = {}
  BY <1>1
<1> QED
  BY <1>1, <1>2, <1>3, <1>4, <1>5, <1>6, <1>7 DEF GraphicsInv

(* What a step leaves alone.                                               *)
LEMMA GraphicsSame ==
  ASSUME GraphicsInv, UNCHANGED bufferVars
  PROVE  GraphicsInv'
  BY DEF GraphicsInv, bufferVars, Holds, Graphics!Unlisting, Graphics!ToDo

LEMMA AddressesAreNumbers == Addresses \subseteq Nat /\ 0 \notin Addresses /\ BufferSizes \subseteq Nat
  BY LibraryPartsAssumption DEF Graphics!GraphicBufferAssumption

(* One object changes, into p.                                             *)
Replaced(b, p) == p \in Objects /\ ObjectSound(p) /\ object' = [object EXCEPT ![b] = p]

LEMMA Becoming ==
  ASSUME NEW b \in Buffers, NEW o \in Objects, Graphics!Becomes(b, o),
         o.todo # "construct" => ObjectSound(o)
  PROVE  Replaced(b, IF o.todo = "construct" THEN Graphics!None ELSE o)
<1>1. Graphics!None \in Objects /\ ObjectSound(Graphics!None)
  BY DEF Objects, Sent, ObjectSound, Graphics!None, Graphics!NULL, Graphics!Flat
<1> QED
  BY <1>1 DEF Replaced, Graphics!Becomes

LEMMA OtherObjects ==
  ASSUME GraphicsInv, NEW b \in Buffers, NEW p, Replaced(b, p)
  PROVE  /\ object' \in [Buffers -> Objects] /\ \A c \in Buffers : ObjectSound(object'[c])
         /\ object'[b] = p /\ \A c \in Buffers \ {b} : object'[c] = object[c]
         /\ \A a : \A c \in Buffers \ {b} : Holds(c, a)' <=> Holds(c, a)
         /\ \A a : Holds(b, a)' <=> p.handle = a /\ p.todo # "unlist"
         /\ \A a : Graphics!Unlisting(a)' \ {b} = Graphics!Unlisting(a) \ {b}
         /\ \A a : b \in Graphics!Unlisting(a)' <=> p.handle = a /\ p.todo = "unlist"
<1>1. /\ object' \in [Buffers -> Objects] /\ \A c \in Buffers : ObjectSound(object'[c])
      /\ object'[b] = p /\ \A c \in Buffers \ {b} : object'[c] = object[c]
  BY DEF GraphicsInv, Replaced
<1>2. /\ \A a : \A c \in Buffers \ {b} : Holds(c, a)' <=> Holds(c, a)
      /\ \A a : Holds(b, a)' <=> p.handle = a /\ p.todo # "unlist"
  BY <1>1 DEF Holds
<1>3. /\ \A a : Graphics!Unlisting(a)' \ {b} = Graphics!Unlisting(a) \ {b}
      /\ \A a : b \in Graphics!Unlisting(a)' <=> p.handle = a /\ p.todo = "unlist"
  BY <1>1 DEF Graphics!Unlisting, Graphics!ToDo
<1> QED
  BY <1>1, <1>2, <1>3

(* An object that has no handle goes on without one.                       *)
LEMMA WithoutHandle ==
  ASSUME GraphicsInv, NEW b \in Buffers, NEW p, Replaced(b, p),
         object[b].handle = 0, p.handle = 0, UNCHANGED <<heap, sAllocList, flattened, lost, reused>>
  PROVE  GraphicsInv'
<1>1. \A a \in Addresses, c \in Buffers : Holds(c, a)' <=> Holds(c, a)
  BY OtherObjects, AddressesAreNumbers DEF Holds
<1>2. \A a \in Addresses : Graphics!Unlisting(a)' = Graphics!Unlisting(a)
  <2>1. \A a \in Addresses : b \notin Graphics!Unlisting(a)' /\ b \notin Graphics!Unlisting(a)
    BY OtherObjects, AddressesAreNumbers DEF Graphics!Unlisting
  <2> QED
    BY <2>1, OtherObjects
<1>3. \A a \in Addresses, c \in Buffers : Holds(c, a) => object'[c] = object[c]
  BY OtherObjects, AddressesAreNumbers DEF Holds
<1>4. \A a \in Addresses, c \in Buffers :
        Holds(c, a)' => heap[a] # Graphics!Free /\ a \notin lost /\ HolderSound(object'[c], heap[a])
  BY <1>1, <1>3 DEF GraphicsInv
<1>5. \A a \in Addresses : heap[a] # Graphics!Free /\ a \notin lost => \E c \in Buffers : Holds(c, a)'
  BY <1>1 DEF GraphicsInv
<1>6. \A a \in Addresses, c, d \in Buffers : Holds(c, a)' /\ Holds(d, a)' => c = d
  BY <1>1 DEF GraphicsInv
<1>7. \A a \in Addresses \ reused :
        IF heap[a].kind = "device"
        THEN \/ \E c \in Buffers : Holds(c, a)' /\ object'[c].todo = "list"
             \/ a \in DOMAIN sAllocList /\ sAllocList[a] = heap[a].size
        ELSE a \notin DOMAIN sAllocList \/ Graphics!Unlisting(a)' # {}
  BY <1>1, <1>2, <1>3 DEF GraphicsInv
<1>8. object' \in [Buffers -> Objects] /\ \A c \in Buffers : ObjectSound(object'[c])
  BY OtherObjects
<1> QED
  BY <1>2, <1>4, <1>5, <1>6, <1>7, <1>8 DEF GraphicsInv

(* An object gets a handle that was free.                                  *)
LEMMA GetsHandle ==
  ASSUME GraphicsInv, NEW b \in Buffers, NEW p, Replaced(b, p), NEW a \in Addresses,
         object[b].handle = 0, heap[a] = Graphics!Free, p.handle = a, p.todo \in {"list", "call"},
         NEW m \in [kind : {"device", "received"}, size : Nat], heap' = [heap EXCEPT ![a] = m],
         m.size > 0, HolderSound(p, m), m.kind = "device" => p.todo = "list",
         reused' = IF m.kind = "received" \/ Graphics!Unlisting(a) = {} THEN reused
                   ELSE reused \cup {a},
         UNCHANGED <<sAllocList, flattened, lost>>
  PROVE  GraphicsInv'
<1>0. /\ heap' \in [Addresses -> [kind : Kinds, size : Nat]] /\ heap'[a] = m
      /\ \A d \in Addresses \ {a} : heap'[d] = heap[d]
      /\ heap[a].kind = "free" /\ m # Graphics!Free
  BY DEF GraphicsInv, Kinds, Graphics!Free
<1>1. a \notin lost /\ \A c \in Buffers : ~ Holds(c, a)
  BY <1>0 DEF GraphicsInv
<1>2. /\ \A d \in Addresses, c \in Buffers :
           Holds(c, d)' <=> (IF d = a THEN c = b ELSE Holds(c, d))
      /\ object'[b] = p /\ \A c \in Buffers \ {b} : object'[c] = object[c]
  BY <1>1, OtherObjects, AddressesAreNumbers DEF Holds
<1>3. \A d \in Addresses : Graphics!Unlisting(d)' = Graphics!Unlisting(d)
  <2>1. \A d \in Addresses : b \notin Graphics!Unlisting(d)' /\ b \notin Graphics!Unlisting(d)
    BY OtherObjects, AddressesAreNumbers DEF Graphics!Unlisting
  <2> QED
    BY <2>1, OtherObjects
<1>4. \A d \in Addresses, c \in Buffers :
        Holds(c, d)' => heap'[d] # Graphics!Free /\ d \notin lost /\ HolderSound(object'[c], heap'[d])
  <2> SUFFICES ASSUME NEW d \in Addresses, NEW c \in Buffers, Holds(c, d)'
               PROVE  heap'[d] # Graphics!Free /\ d \notin lost /\ HolderSound(object'[c], heap'[d])
    OBVIOUS
  <2>1. CASE d = a
    BY <1>0, <1>1, <1>2, <2>1
  <2>2. CASE d # a
    <3>1. Holds(c, d) /\ c # b
      BY <1>2, <2>2, AddressesAreNumbers DEF Holds
    <3> QED
      BY <1>0, <1>2, <2>2, <3>1 DEF GraphicsInv
  <2> QED
    BY <2>1, <2>2
<1>5. \A d \in Addresses : heap'[d] # Graphics!Free /\ d \notin lost => \E c \in Buffers : Holds(c, d)'
  BY <1>0, <1>2 DEF GraphicsInv
<1>6. \A d \in Addresses, c, e \in Buffers : Holds(c, d)' /\ Holds(e, d)' => c = e
  BY <1>2 DEF GraphicsInv
<1>7. ASSUME NEW d \in Addresses \ reused'
      PROVE  IF heap'[d].kind = "device"
             THEN \/ \E c \in Buffers : Holds(c, d)' /\ object'[c].todo = "list"
                  \/ d \in DOMAIN sAllocList /\ sAllocList[d] = heap'[d].size
             ELSE d \notin DOMAIN sAllocList \/ Graphics!Unlisting(d)' # {}
  <2>1. d \notin reused
    OBVIOUS
  <2>2. CASE d = a
    <3>1. CASE m.kind = "device"
      BY <1>0, <1>2, <2>2, <3>1
    <3>2. CASE m.kind # "device"
      <4>1. a \in Addresses \ reused /\ heap[a].kind # "device"
        BY <1>0, <2>1, <2>2
      <4>2. a \notin DOMAIN sAllocList \/ Graphics!Unlisting(a) # {}
        BY <4>1 DEF GraphicsInv
      <4>3. heap'[d].kind # "device" /\ Graphics!Unlisting(d)' = Graphics!Unlisting(a)
        BY <1>0, <1>3, <2>2, <3>2
      <4> QED
        BY <2>2, <4>2, <4>3
    <3> QED
      BY <3>1, <3>2
  <2>3. CASE d # a
    <3>1. heap'[d] = heap[d]
      BY <1>0, <2>3
    <3>2. \A c \in Buffers : Holds(c, d) => Holds(c, d)' /\ object'[c] = object[c]
      BY <1>2, <2>3, AddressesAreNumbers DEF Holds
    <3>3. IF heap[d].kind = "device"
          THEN \/ \E c \in Buffers : Holds(c, d) /\ object[c].todo = "list"
               \/ d \in DOMAIN sAllocList /\ sAllocList[d] = heap[d].size
          ELSE d \notin DOMAIN sAllocList \/ Graphics!Unlisting(d) # {}
      BY <2>1 DEF GraphicsInv
    <3>4. d \in Addresses /\ Graphics!Unlisting(d)' = Graphics!Unlisting(d)
      BY <1>3
    <3> QED
      BY <3>1, <3>2, <3>3, <3>4
  <2> QED
    BY <2>2, <2>3
<1>8. object' \in [Buffers -> Objects] /\ \A c \in Buffers : ObjectSound(object'[c])
  BY OtherObjects
<1>9. \A d \in Addresses : heap'[d].kind = "device" /\ Graphics!Unlisting(d)' # {} => d \in reused'
  BY <1>0, <1>3 DEF GraphicsInv
<1>10. \A d \in Addresses :
         /\ heap'[d].kind = "free" => heap'[d] = Graphics!Free
         /\ heap'[d].kind # "free" => heap'[d].size > 0
  BY <1>0 DEF GraphicsInv
<1>11. \A d \in lost : d \in Addresses => heap'[d].kind = "received"
  BY <1>0, <1>1 DEF GraphicsInv
<1> QED
  BY <1>0, <1>4, <1>5, <1>6, <1>7, <1>8, <1>9, <1>10, <1>11 DEF GraphicsInv

(* A handle is given back: at once, or to be unlisted first.               *)
LEMMA GivesBack ==
  ASSUME GraphicsInv, NEW b \in Buffers, NEW p, Replaced(b, p), NEW a \in Addresses,
         Holds(b, a), object[b].todo = "call", heap' = [heap EXCEPT ![a] = Graphics!Free],
         IF object[b].mOwner = "ownData" THEN p.handle = a /\ p.todo = "unlist" ELSE p.handle = 0,
         UNCHANGED <<sAllocList, flattened, lost, reused>>
  PROVE  GraphicsInv'
<1>0. /\ heap' \in [Addresses -> [kind : Kinds, size : Nat]] /\ heap'[a] = Graphics!Free
      /\ \A d \in Addresses \ {a} : heap'[d] = heap[d]
      /\ Graphics!Free.kind = "free"
  BY DEF GraphicsInv, Kinds, Graphics!Free
<1>1. /\ heap[a] # Graphics!Free /\ a \notin lost /\ HolderSound(object[b], heap[a])
      /\ \A c \in Buffers : Holds(c, a) => c = b
      /\ object[b].handle = a
  BY DEF GraphicsInv, Holds
<1>2. /\ \A d \in Addresses, c \in Buffers : Holds(c, d)' <=> d # a /\ Holds(c, d)
      /\ object'[b] = p /\ \A c \in Buffers \ {b} : object'[c] = object[c]
  <2>1. \A d \in Addresses : ~ Holds(b, d)'
    BY OtherObjects, AddressesAreNumbers
  <2>2. \A d \in Addresses : Holds(b, d) => d = a
    BY <1>1 DEF Holds
  <2> QED
    BY <1>1, <2>1, <2>2, OtherObjects
<1>3. /\ \A d \in Addresses \ {a} : Graphics!Unlisting(d)' = Graphics!Unlisting(d)
      /\ Graphics!Unlisting(a) \subseteq Graphics!Unlisting(a)'
      /\ object[b].mOwner = "ownData" => Graphics!Unlisting(a)' # {}
  <2>1. \A d \in Addresses : b \notin Graphics!Unlisting(d)
    BY DEF Graphics!Unlisting, Graphics!ToDo
  <2>2. \A d \in Addresses \ {a} : b \notin Graphics!Unlisting(d)'
    BY OtherObjects, AddressesAreNumbers
  <2>3. object[b].mOwner = "ownData" => b \in Graphics!Unlisting(a)'
    BY OtherObjects
  <2> QED
    BY <2>1, <2>2, <2>3, OtherObjects
<1>4. \A d \in Addresses, c \in Buffers :
        Holds(c, d)' => heap'[d] # Graphics!Free /\ d \notin lost /\ HolderSound(object'[c], heap'[d])
  <2> SUFFICES ASSUME NEW d \in Addresses, NEW c \in Buffers, Holds(c, d)'
               PROVE  heap'[d] # Graphics!Free /\ d \notin lost /\ HolderSound(object'[c], heap'[d])
    OBVIOUS
  <2>1. d # a /\ Holds(c, d) /\ c # b
    BY <1>1, <1>2 DEF Holds
  <2> QED
    BY <1>0, <1>2, <2>1 DEF GraphicsInv
<1>5. \A d \in Addresses : heap'[d] # Graphics!Free /\ d \notin lost => \E c \in Buffers : Holds(c, d)'
  BY <1>0, <1>2 DEF GraphicsInv
<1>6. \A d \in Addresses, c, e \in Buffers : Holds(c, d)' /\ Holds(e, d)' => c = e
  BY <1>2 DEF GraphicsInv
<1>7. ASSUME NEW d \in Addresses \ reused
      PROVE  IF heap'[d].kind = "device"
             THEN \/ \E c \in Buffers : Holds(c, d)' /\ object'[c].todo = "list"
                  \/ d \in DOMAIN sAllocList /\ sAllocList[d] = heap'[d].size
             ELSE d \notin DOMAIN sAllocList \/ Graphics!Unlisting(d)' # {}
  <2>1. CASE d = a /\ object[b].mOwner = "ownData"
    BY <1>0, <1>3, <2>1
  <2>2. CASE d = a /\ object[b].mOwner # "ownData"
    <3>1. heap[a].kind = "received"
      BY <1>1, <2>2 DEF HolderSound
    <3>2. a \notin DOMAIN sAllocList \/ Graphics!Unlisting(a) # {}
      BY <2>2, <3>1 DEF GraphicsInv
    <3> QED
      BY <1>0, <1>3, <2>2, <3>2
  <2>3. CASE d # a
    <3>1. heap'[d] = heap[d] /\ Graphics!Unlisting(d)' = Graphics!Unlisting(d)
      BY <1>0, <1>3, <2>3
    <3>2. \A c \in Buffers : Holds(c, d) => Holds(c, d)' /\ object'[c] = object[c]
      BY <1>1, <1>2, <2>3 DEF Holds
    <3> QED
      BY <3>1, <3>2 DEF GraphicsInv
  <2> QED
    BY <2>1, <2>2, <2>3
<1>8. object' \in [Buffers -> Objects] /\ \A c \in Buffers : ObjectSound(object'[c])
  BY OtherObjects
<1>9. \A d \in Addresses : heap'[d].kind = "device" /\ Graphics!Unlisting(d)' # {} => d \in reused
  BY <1>0, <1>3 DEF GraphicsInv
<1>10. \A d \in Addresses :
         /\ heap'[d].kind = "free" => heap'[d] = Graphics!Free
         /\ heap'[d].kind # "free" => heap'[d].size > 0
  BY <1>0 DEF GraphicsInv
<1>11. \A d \in lost : d \in Addresses => heap'[d].kind = "received"
  BY <1>0, <1>1 DEF GraphicsInv
<1> QED
  BY <1>0, <1>4, <1>5, <1>6, <1>7, <1>8, <1>9, <1>10, <1>11 DEF GraphicsInv

LEMMA ObjectTypes ==
  ASSUME GraphicsInv, NEW b \in Buffers
  PROVE  /\ object[b] \in Objects /\ ObjectSound(object[b])
         /\ \A a \in Addresses : heap[a] \in [kind : Kinds, size : Nat]
         /\ flattened \in Sent /\ flattened.size <= flattened.room
  BY DEF GraphicsInv

LEMMA FreeKeepsGraphics ==
  ASSUME GraphicsInv, NEW b \in Buffers, object[b].todo = "call",
         NEW then \in {"construct", "alloc", "receive"}, NEW asked \in Sent,
         then = "alloc" => object[b].mOwner = "ownData",
         then = "receive" => asked.size <= asked.room,
         Graphics!FreeHandle(b, then, asked), UNCHANGED reused
  PROVE  GraphicsInv'
<1> DEFINE h == object[b].handle
           device == object[b].mOwner = "ownData" /\ h # 0
           o == [object[b] EXCEPT !.handle = IF device THEN h ELSE 0, !.asked = asked,
                                  !.todo = IF device THEN "unlist" ELSE then, !.then = then]
           p == IF o.todo = "construct" THEN Graphics!None ELSE o
<1>1. /\ heap' = IF h = 0 THEN heap ELSE [heap EXCEPT ![h] = Graphics!Free]
      /\ Graphics!Becomes(b, o) /\ UNCHANGED <<sAllocList, flattened, lost, reused>>
  BY DEF Graphics!FreeHandle, Graphics!NULL
<1>2. /\ o \in Objects /\ o.handle = (IF device THEN h ELSE 0)
      /\ o.todo = (IF device THEN "unlist" ELSE then) /\ o.then = then /\ o.asked = asked
      /\ o.mOwner = object[b].mOwner
  BY ObjectTypes DEF Objects
<1>3. o.todo # "construct" => ObjectSound(o)
  <2> HIDE DEF o
  <2> QED
    BY <1>2, ObjectTypes DEF ObjectSound
<1>4. Replaced(b, p)
  <2> HIDE DEF o
  <2> QED
    BY <1>1, <1>2, <1>3, Becoming
<1>5. /\ device => p.handle = h /\ p.todo = "unlist"
      /\ ~ device => p.handle = 0
  <2> HIDE DEF o
  <2> QED
    BY <1>2 DEF Graphics!None, Graphics!NULL
<1> HIDE DEF o, p
<1>6. CASE h = 0
  BY <1>1, <1>4, <1>5, <1>6, WithoutHandle
<1>7. CASE h # 0
  <2>1. h \in Addresses /\ Holds(b, h)
    BY <1>7, ObjectTypes DEF Objects, Holds
  <2> QED
    BY <1>1, <1>4, <1>5, <1>7, <2>1, GivesBack
<1> QED
  BY <1>6, <1>7

(* A call that returns.                                                    *)
Returned(o) == [o EXCEPT !.todo = "call", !.then = "construct", !.asked = Graphics!Flat(0, 0)]

LEMMA Returning ==
  ASSUME NEW b \in Buffers, NEW o \in Objects, Graphics!Returns(b, o),
         o.handle = 0 /\ ~ o.failed => o.size = 0
  PROVE  /\ Replaced(b, Returned(o)) /\ Returned(o).todo = "call"
         /\ Returned(o).handle = o.handle /\ Returned(o).size = o.size
         /\ Returned(o).mOwner = o.mOwner
<1>1. /\ Returned(o) \in Objects /\ Returned(o).todo = "call" /\ Returned(o).then = "construct"
      /\ Returned(o).handle = o.handle /\ Returned(o).size = o.size
      /\ Returned(o).mOwner = o.mOwner /\ Returned(o).failed = o.failed
  BY DEF Returned, Objects, Sent, Graphics!Flat
<1>2. ObjectSound(Returned(o))
  BY <1>1 DEF ObjectSound
<1>3. Graphics!Becomes(b, Returned(o))
  BY DEF Graphics!Returns, Graphics!None, Returned
<1> QED
  BY <1>1, <1>2, <1>3, Becoming

LEMMA RoomIsPositive ==
  ASSUME NEW size \in Nat
  PROVE  Graphics!RoomFor(size) \in Nat /\ Graphics!RoomFor(size) > 0
         /\ size <= Graphics!RoomFor(size)
  BY DEF Graphics!RoomFor

LEMMA AllocKeepsGraphics ==
  ASSUME GraphicsInv, NEW b \in Buffers, NEW a \in Addresses, Graphics!Alloc(b, a)
  PROVE  GraphicsInv'
<1> DEFINE o == [object[b] EXCEPT !.handle = a, !.todo = "list"]
           m == [kind |-> "device", size |-> Graphics!RoomFor(object[b].asked.size)]
<1>1. /\ object[b].todo = "alloc" /\ heap[a] = Graphics!Free
      /\ heap' = [heap EXCEPT ![a] = m] /\ Graphics!Becomes(b, o)
      /\ reused' = IF Graphics!Unlisting(a) = {} THEN reused ELSE reused \cup {a}
      /\ UNCHANGED <<sAllocList, flattened, lost>>
  BY DEF Graphics!Alloc, Graphics!ToDo
<1>2. /\ object[b] \in Objects /\ object[b].handle = 0 /\ object[b].mOwner = "ownData"
      /\ object[b].asked.size \in Nat
  BY <1>1, ObjectTypes DEF ObjectSound, Objects, Sent
<1>3. /\ o \in Objects /\ o.handle = a /\ o.todo = "list" /\ o.mOwner = "ownData"
      /\ o.asked = object[b].asked /\ o.then = object[b].then
  BY <1>2 DEF Objects
<1>4. /\ m \in [kind : {"device", "received"}, size : Nat] /\ m.kind = "device" /\ m.size > 0
      /\ m.size = Graphics!RoomFor(object[b].asked.size)
  BY <1>2, RoomIsPositive
<1> HIDE DEF o, m
<1>5. a # 0
  BY AddressesAreNumbers
<1>6. ObjectSound(o)
  BY <1>3, <1>5 DEF ObjectSound
<1>7. Replaced(b, o)
  BY <1>1, <1>3, <1>6, Becoming
<1>8. HolderSound(o, m)
  BY <1>3, <1>4 DEF HolderSound
<1> QED
  BY <1>1, <1>2, <1>3, <1>4, <1>7, <1>8, GetsHandle

LEMMA ReceiveKeepsGraphics ==
  ASSUME GraphicsInv, NEW b \in Buffers, NEW a \in Addresses, Graphics!ToDo(b, "receive"),
         object[b].asked.room # 0, heap[a] = Graphics!Free,
         heap' = [heap EXCEPT ![a] = [kind |-> "received", size |-> object[b].asked.room]],
         Graphics!Received(b, a, object[b].asked.size, "ownHandle"),
         UNCHANGED <<sAllocList, flattened, lost, reused>>
  PROVE  GraphicsInv'
<1> DEFINE o == [object[b] EXCEPT !.handle = a, !.size = object[b].asked.size,
                                  !.mOwner = "ownHandle", !.failed = FALSE]
           m == [kind |-> "received", size |-> object[b].asked.room]
<1>1. Graphics!Returns(b, o)
  BY DEF Graphics!Received
<1>2. /\ object[b] \in Objects /\ object[b].handle = 0
      /\ object[b].asked.size \in Nat /\ object[b].asked.room \in Nat \ {0}
      /\ object[b].asked.size <= object[b].asked.room
  BY ObjectTypes DEF ObjectSound, Objects, Sent, Graphics!ToDo
<1>3. /\ o \in Objects /\ o.handle = a /\ o.size = object[b].asked.size /\ o.mOwner = "ownHandle"
  BY <1>2 DEF Objects
<1>4. /\ m \in [kind : {"device", "received"}, size : Nat] /\ m.kind = "received" /\ m.size > 0
      /\ m.size = object[b].asked.room
  BY <1>2
<1> HIDE DEF o
<1>5. /\ Replaced(b, Returned(o)) /\ Returned(o).todo = "call" /\ Returned(o).handle = a
      /\ Returned(o).size = object[b].asked.size /\ Returned(o).mOwner = "ownHandle"
  BY <1>1, <1>3, AddressesAreNumbers, Returning
<1>6. heap' = [heap EXCEPT ![a] = m]
  OBVIOUS
<1> HIDE DEF m
<1>7. HolderSound(Returned(o), m)
  BY <1>2, <1>4, <1>5 DEF HolderSound
<1> QED
  BY <1>2, <1>4, <1>5, <1>6, <1>7, GetsHandle

(* One that cannot be registered is nobody's.                              *)
LEMMA LossKeepsGraphics ==
  ASSUME GraphicsInv, NEW b \in Buffers, NEW p, Replaced(b, p), NEW a \in Addresses,
         object[b].handle = 0, heap[a] = Graphics!Free, p.handle = 0,
         NEW m \in [kind : {"received"}, size : Nat], heap' = [heap EXCEPT ![a] = m], m.size > 0,
         lost' = lost \cup {a}, UNCHANGED <<sAllocList, flattened, reused>>
  PROVE  GraphicsInv'
<1>0. /\ heap' \in [Addresses -> [kind : Kinds, size : Nat]] /\ heap'[a] = m
      /\ \A d \in Addresses \ {a} : heap'[d] = heap[d]
      /\ heap[a].kind = "free" /\ m.kind = "received"
  BY DEF GraphicsInv, Kinds, Graphics!Free
<1>1. \A c \in Buffers : ~ Holds(c, a)
  BY <1>0 DEF GraphicsInv
<1>2. \A d \in Addresses, c \in Buffers : Holds(c, d)' <=> Holds(c, d)
  BY OtherObjects, AddressesAreNumbers DEF Holds
<1>3. \A d \in Addresses : Graphics!Unlisting(d)' = Graphics!Unlisting(d)
  <2>1. \A d \in Addresses : b \notin Graphics!Unlisting(d)' /\ b \notin Graphics!Unlisting(d)
    BY OtherObjects, AddressesAreNumbers DEF Graphics!Unlisting
  <2>2. \A d : Graphics!Unlisting(d)' \ {b} = Graphics!Unlisting(d) \ {b}
    BY OtherObjects
  <2> QED
    BY <2>1, <2>2
<1>4. \A d \in Addresses, c \in Buffers : Holds(c, d) => d # a /\ object'[c] = object[c]
  BY <1>1, OtherObjects, AddressesAreNumbers DEF Holds
<1>5. \A d \in Addresses, c \in Buffers :
        Holds(c, d)' => heap'[d] # Graphics!Free /\ d \notin lost' /\ HolderSound(object'[c], heap'[d])
  <2> SUFFICES ASSUME NEW d \in Addresses, NEW c \in Buffers, Holds(c, d)'
               PROVE  heap'[d] # Graphics!Free /\ d \notin lost' /\ HolderSound(object'[c], heap'[d])
    OBVIOUS
  <2>1. Holds(c, d) /\ d # a /\ object'[c] = object[c] /\ heap'[d] = heap[d]
    BY <1>0, <1>2, <1>4
  <2> QED
    BY <2>1 DEF GraphicsInv
<1>6. \A d \in Addresses : heap'[d] # Graphics!Free /\ d \notin lost' => \E c \in Buffers : Holds(c, d)'
  BY <1>0, <1>2 DEF GraphicsInv
<1>7. \A d \in Addresses, c, e \in Buffers : Holds(c, d)' /\ Holds(e, d)' => c = e
  BY <1>2 DEF GraphicsInv
<1>8. ASSUME NEW d \in Addresses \ reused
      PROVE  IF heap'[d].kind = "device"
             THEN \/ \E c \in Buffers : Holds(c, d)' /\ object'[c].todo = "list"
                  \/ d \in DOMAIN sAllocList /\ sAllocList[d] = heap'[d].size
             ELSE d \notin DOMAIN sAllocList \/ Graphics!Unlisting(d)' # {}
  <2>1. IF heap[d].kind = "device"
        THEN \/ \E c \in Buffers : Holds(c, d) /\ object[c].todo = "list"
             \/ d \in DOMAIN sAllocList /\ sAllocList[d] = heap[d].size
        ELSE d \notin DOMAIN sAllocList \/ Graphics!Unlisting(d) # {}
    BY DEF GraphicsInv
  <2>2. d \in Addresses /\ Graphics!Unlisting(d)' = Graphics!Unlisting(d)
    BY <1>3
  <2>3. \A c \in Buffers : Holds(c, d) => Holds(c, d)' /\ object'[c] = object[c]
    BY <1>2, <1>4, <2>2
  <2>4. CASE d = a
    BY <1>0, <2>1, <2>2, <2>4
  <2>5. CASE d # a
    <3>1. heap'[d] = heap[d]
      BY <1>0, <2>5
    <3> QED
      BY <2>1, <2>2, <2>3, <3>1
  <2> QED
    BY <2>4, <2>5
<1>9. object' \in [Buffers -> Objects] /\ \A c \in Buffers : ObjectSound(object'[c])
  BY OtherObjects
<1>10. \A d \in Addresses : heap'[d].kind = "device" /\ Graphics!Unlisting(d)' # {} => d \in reused
  BY <1>0, <1>3 DEF GraphicsInv
<1>11. \A d \in Addresses :
         /\ heap'[d].kind = "free" => heap'[d] = Graphics!Free
         /\ heap'[d].kind # "free" => heap'[d].size > 0
  BY <1>0 DEF GraphicsInv
<1>12. \A d \in lost' : d \in Addresses => heap'[d].kind = "received"
  BY <1>0 DEF GraphicsInv
<1> QED
  BY <1>0, <1>5, <1>6, <1>7, <1>8, <1>9, <1>10, <1>11, <1>12 DEF GraphicsInv

LEMMA ReceiveStepKeepsGraphics ==
  ASSUME GraphicsInv, NEW b \in Buffers, NEW a \in Addresses, Graphics!Receive(b, a)
  PROVE  GraphicsInv'
<1> DEFINE m == [kind |-> "received", size |-> object[b].asked.room]
<1>1. /\ Graphics!ToDo(b, "receive") /\ object[b].asked.room # 0 /\ heap[a] = Graphics!Free
      /\ heap' = [heap EXCEPT ![a] = m] /\ UNCHANGED <<sAllocList, flattened, reused>>
  BY DEF Graphics!Receive
<1>2. CASE Graphics!Received(b, a, object[b].asked.size, "ownHandle") /\ UNCHANGED lost
  BY <1>1, <1>2, ReceiveKeepsGraphics
<1>3. CASE Graphics!Received(b, 0, 0, "ownHandle") /\ lost' = lost \cup {a}
  <2> DEFINE o == [object[b] EXCEPT !.handle = 0, !.size = 0,
                                    !.mOwner = "ownHandle", !.failed = FALSE]
  <2>1. Graphics!Returns(b, o)
    BY <1>3 DEF Graphics!Received
  <2>2. object[b] \in Objects /\ object[b].handle = 0 /\ object[b].asked.room \in Nat \ {0}
    BY <1>1, ObjectTypes DEF ObjectSound, Objects, Sent, Graphics!ToDo
  <2>3. o \in Objects /\ o.handle = 0 /\ o.size = 0
    BY <2>2 DEF Objects
  <2> HIDE DEF o
  <2>4. Replaced(b, Returned(o)) /\ Returned(o).handle = 0
    BY <2>1, <2>3, Returning
  <2>5. m \in [kind : {"received"}, size : Nat] /\ m.size > 0
    BY <2>2
  <2> HIDE DEF m
  <2> QED
    BY <1>1, <1>3, <2>2, <2>4, <2>5, LossKeepsGraphics
<1> QED
  BY <1>2, <1>3 DEF Graphics!Receive, Graphics!NULL

(* What ends without a handle.                                             *)
LEMMA EndsWithoutHandle ==
  ASSUME GraphicsInv, NEW b \in Buffers,
         \/ Graphics!AllocFails(b) \/ Graphics!Construct(b)
         \/ Graphics!ReceiveEmpty(b) \/ Graphics!NoHandle(b)
  PROVE  GraphicsInv'
<1>1. /\ object[b] \in Objects /\ ObjectSound(object[b]) /\ object[b].handle = 0
      /\ UNCHANGED <<heap, sAllocList, flattened, lost, reused>>
  BY ObjectTypes DEF ObjectSound, Graphics!ToDo, Graphics!AllocFails, Graphics!Construct,
    Graphics!ReceiveEmpty, Graphics!NoHandle
<1>2. ASSUME NEW o \in Objects, Graphics!Returns(b, o), o.handle = 0,
             ~ o.failed => o.size = 0
      PROVE  GraphicsInv'
  BY <1>1, <1>2, Returning, WithoutHandle
<1>3. CASE Graphics!AllocFails(b)
  <2> DEFINE o == [object[b] EXCEPT !.failed = TRUE]
  <2>1. o \in Objects /\ o.handle = 0 /\ o.failed = TRUE /\ Graphics!Returns(b, o)
    BY <1>1, <1>3 DEF Graphics!AllocFails, Objects
  <2> QED
    BY <1>2, <2>1
<1>4. ASSUME NEW owner \in {"ownData", "ownHandle"}, Graphics!Received(b, 0, 0, owner)
      PROVE  GraphicsInv'
  <2> DEFINE o == [object[b] EXCEPT !.handle = 0, !.size = 0, !.mOwner = owner, !.failed = FALSE]
  <2>1. o \in Objects /\ o.handle = 0 /\ o.size = 0 /\ Graphics!Returns(b, o)
    BY <1>1, <1>4 DEF Graphics!Received, Objects
  <2> QED
    BY <1>2, <2>1
<1>5. CASE Graphics!ReceiveEmpty(b) \/ Graphics!NoHandle(b)
  <2>1. object[b].mOwner \in {"ownData", "ownHandle"}
    BY <1>1 DEF Objects
  <2> QED
    BY <1>4, <1>5, <2>1 DEF Graphics!ReceiveEmpty, Graphics!NoHandle, Graphics!NULL
<1>6. CASE Graphics!Construct(b)
  <2>1. /\ Graphics!None \in Objects /\ ObjectSound(Graphics!None)
        /\ Graphics!None.handle = 0 /\ Graphics!None.size = 0
    BY DEF Objects, Sent, ObjectSound, Graphics!None, Graphics!NULL, Graphics!Flat
  <2>2. CASE Graphics!Returns(b, Graphics!None)
    BY <1>2, <2>1, <2>2
  <2>3. ASSUME NEW size \in BufferSizes,
               Graphics!Becomes(b, [Graphics!None EXCEPT !.todo = "alloc", !.asked = Graphics!Flat(size, 0)])
        PROVE  GraphicsInv'
    <3> DEFINE o == [Graphics!None EXCEPT !.todo = "alloc", !.asked = Graphics!Flat(size, 0)]
    <3>1. size \in Nat
      BY AddressesAreNumbers
    <3>2. o \in Objects /\ ObjectSound(o) /\ o.handle = 0 /\ o.todo = "alloc"
      BY <3>1 DEF Objects, Sent, ObjectSound, Graphics!None, Graphics!NULL, Graphics!Flat
    <3> HIDE DEF o
    <3>3. Graphics!Becomes(b, o)
      BY <2>3 DEF o
    <3>4. Replaced(b, o)
      BY <3>2, <3>3, Becoming
    <3> QED
      BY <1>1, <3>2, <3>4, WithoutHandle
  <2> QED
    BY <1>6, <2>2, <2>3 DEF Graphics!Construct
<1> QED
  BY <1>3, <1>5, <1>6

LEMMA ListKeepsGraphics ==
  ASSUME GraphicsInv, NEW b \in Buffers, Graphics!List(b)
  PROVE  GraphicsInv'
<1> DEFINE h == object[b].handle
           o == [object[b] EXCEPT !.size = object[b].asked.size, !.failed = FALSE]
           p == Returned(o)
<1>1. /\ object[b].todo = "list" /\ Graphics!Returns(b, o)
      /\ sAllocList' = [a \in DOMAIN sAllocList \cup {h} |->
           IF a = h THEN Graphics!RoomFor(object[b].asked.size) ELSE sAllocList[a]]
      /\ UNCHANGED <<heap, flattened, lost, reused>>
  BY DEF Graphics!List, Graphics!ToDo
<1>2. /\ object[b] \in Objects /\ h # 0 /\ h \in Addresses /\ object[b].mOwner = "ownData"
      /\ object[b].asked.size \in Nat
  BY <1>1, ObjectTypes DEF ObjectSound, Objects, Sent
<1>3. /\ o \in Objects /\ o.handle = h /\ o.size = object[b].asked.size /\ o.mOwner = "ownData"
  BY <1>2 DEF Objects
<1> HIDE DEF o
<1>4. /\ Replaced(b, p) /\ p.todo = "call" /\ p.handle = h
      /\ p.size = object[b].asked.size /\ p.mOwner = "ownData"
  BY <1>1, <1>2, <1>3, Returning
<1> HIDE DEF p
<1>5. /\ \A d \in Addresses, c \in Buffers : Holds(c, d)' <=> Holds(c, d)
      /\ object'[b] = p /\ \A c \in Buffers \ {b} : object'[c] = object[c]
      /\ Holds(b, h)
  <2>1. \A d \in Addresses : Holds(b, d)' <=> Holds(b, d)
    BY <1>1, <1>4, OtherObjects DEF Holds
  <2> QED
    BY <1>1, <1>4, <2>1, OtherObjects DEF Holds
<1>6. \A d \in Addresses : Graphics!Unlisting(d)' = Graphics!Unlisting(d)
  <2>1. \A d \in Addresses : b \notin Graphics!Unlisting(d)' /\ b \notin Graphics!Unlisting(d)
    BY <1>1, <1>4, OtherObjects DEF Graphics!Unlisting, Graphics!ToDo
  <2>2. \A d : Graphics!Unlisting(d)' \ {b} = Graphics!Unlisting(d) \ {b}
    BY <1>4, OtherObjects
  <2> QED
    BY <2>1, <2>2
<1>7. /\ heap[h] # Graphics!Free /\ h \notin lost /\ HolderSound(object[b], heap[h])
      /\ heap[h].size = Graphics!RoomFor(object[b].asked.size) /\ heap[h].kind = "device"
      /\ \A c \in Buffers : Holds(c, h) => c = b
  BY <1>1, <1>2, <1>5 DEF GraphicsInv, HolderSound
<1>8. HolderSound(p, heap[h])
  BY <1>2, <1>4, <1>7, RoomIsPositive DEF HolderSound
<1>9. \A d \in Addresses, c \in Buffers :
        Holds(c, d)' => heap[d] # Graphics!Free /\ d \notin lost /\ HolderSound(object'[c], heap[d])
  <2> SUFFICES ASSUME NEW d \in Addresses, NEW c \in Buffers, Holds(c, d)'
               PROVE  heap[d] # Graphics!Free /\ d \notin lost /\ HolderSound(object'[c], heap[d])
    OBVIOUS
  <2>1. CASE c = b
    <3>1. d = h
      BY <1>5, <2>1 DEF Holds
    <3> QED
      BY <1>5, <1>7, <1>8, <2>1, <3>1
  <2>2. CASE c # b
    BY <1>5, <2>2 DEF GraphicsInv
  <2> QED
    BY <2>1, <2>2
<1>10. \A d \in Addresses : heap[d] # Graphics!Free /\ d \notin lost => \E c \in Buffers : Holds(c, d)'
  BY <1>5 DEF GraphicsInv
<1>11. \A d \in Addresses, c, e \in Buffers : Holds(c, d)' /\ Holds(e, d)' => c = e
  BY <1>5 DEF GraphicsInv
<1>12. ASSUME NEW d \in Addresses \ reused
       PROVE  IF heap[d].kind = "device"
              THEN \/ \E c \in Buffers : Holds(c, d)' /\ object'[c].todo = "list"
                   \/ d \in DOMAIN sAllocList' /\ sAllocList'[d] = heap[d].size
              ELSE d \notin DOMAIN sAllocList' \/ Graphics!Unlisting(d)' # {}
  <2>1. IF heap[d].kind = "device"
        THEN \/ \E c \in Buffers : Holds(c, d) /\ object[c].todo = "list"
             \/ d \in DOMAIN sAllocList /\ sAllocList[d] = heap[d].size
        ELSE d \notin DOMAIN sAllocList \/ Graphics!Unlisting(d) # {}
    BY DEF GraphicsInv
  <2>2. d \in Addresses /\ Graphics!Unlisting(d)' = Graphics!Unlisting(d)
    BY <1>6
  <2>3. CASE d = h
    BY <1>1, <1>7, <2>3
  <2>4. CASE d # h
    <3>1. d \in DOMAIN sAllocList' <=> d \in DOMAIN sAllocList
      BY <1>1, <2>4
    <3>2. d \in DOMAIN sAllocList => sAllocList'[d] = sAllocList[d]
      BY <1>1, <2>4
    <3>3. \A c \in Buffers : Holds(c, d) => Holds(c, d)' /\ object'[c] = object[c]
      BY <1>5, <2>2, <2>4 DEF Holds
    <3> QED
      BY <2>1, <2>2, <3>1, <3>2, <3>3
  <2> QED
    BY <2>3, <2>4
<1>13. object' \in [Buffers -> Objects] /\ \A c \in Buffers : ObjectSound(object'[c])
  BY <1>4, OtherObjects
<1>14. \A d \in Addresses : heap[d].kind = "device" /\ Graphics!Unlisting(d)' # {} => d \in reused
  BY <1>6 DEF GraphicsInv
<1> QED
  BY <1>1, <1>9, <1>10, <1>11, <1>12, <1>13, <1>14 DEF GraphicsInv

(* What the device has back is on the list until here.  What it gave again *)
(* meanwhile loses its place, which reused remembers.                      *)
LEMMA UnlistKeepsGraphics ==
  ASSUME GraphicsInv, NEW b \in Buffers, Graphics!Unlist(b)
  PROVE  GraphicsInv'
<1> DEFINE h == object[b].handle
           o == [object[b] EXCEPT !.handle = 0, !.todo = object[b].then]
           p == IF o.todo = "construct" THEN Graphics!None ELSE o
<1>1. /\ object[b].todo = "unlist" /\ Graphics!Becomes(b, o)
      /\ sAllocList' = Graphics!Restrict(sAllocList, DOMAIN sAllocList \ {h})
      /\ reused' = IF heap[h] = Graphics!Free /\ Graphics!Unlisting(h) = {b} THEN reused \ {h} ELSE reused
      /\ UNCHANGED <<heap, flattened, lost>>
  BY DEF Graphics!Unlist, Graphics!ToDo, Graphics!NULL
<1>2. /\ object[b] \in Objects /\ h # 0 /\ h \in Addresses /\ ObjectSound(object[b])
      /\ object[b].asked \in Sent
  BY <1>1, ObjectTypes DEF ObjectSound, Objects
<1>3. /\ o \in Objects /\ o.handle = 0 /\ o.todo = object[b].then /\ o.mOwner = object[b].mOwner
      /\ o.asked = object[b].asked /\ o.todo \in {"construct", "alloc", "receive"}
  BY <1>2 DEF Objects
<1> HIDE DEF o
<1>4. ObjectSound(o)
  BY <1>1, <1>2, <1>3 DEF ObjectSound
<1>5. Replaced(b, p)
  BY <1>1, <1>3, <1>4, Becoming
<1>6. p.handle = 0
  BY <1>3 DEF Graphics!None, Graphics!NULL
<1> HIDE DEF p
<1>7. /\ \A d \in Addresses, c \in Buffers : Holds(c, d)' <=> Holds(c, d)
      /\ object'[b] = p /\ \A c \in Buffers \ {b} : object'[c] = object[c]
      /\ \A d : ~ Holds(b, d)
  <2>1. \A d \in Addresses : ~ Holds(b, d)' /\ ~ Holds(b, d)
    BY <1>1, <1>5, <1>6, OtherObjects, AddressesAreNumbers DEF Holds
  <2>2. \A d : ~ Holds(b, d)
    BY <1>1 DEF Holds
  <2> QED
    BY <1>5, <2>1, <2>2, OtherObjects
<1>8. ASSUME NEW d \in Addresses
      PROVE  /\ Graphics!Unlisting(d)' = Graphics!Unlisting(d) \ {b}
             /\ d # h => Graphics!Unlisting(d)' = Graphics!Unlisting(d)
  <2>1. b \notin Graphics!Unlisting(d)'
    BY <1>5, <1>6, OtherObjects, AddressesAreNumbers
  <2>2. d # h => b \notin Graphics!Unlisting(d)
    BY DEF Graphics!Unlisting
  <2>3. Graphics!Unlisting(d)' \ {b} = Graphics!Unlisting(d) \ {b}
    BY <1>5, OtherObjects
  <2> QED
    BY <2>1, <2>2, <2>3
<1>9. b \in Graphics!Unlisting(h)
  BY <1>1 DEF Graphics!Unlisting, Graphics!ToDo
<1>10. /\ h \notin DOMAIN sAllocList'
       /\ \A d : d # h => (d \in DOMAIN sAllocList' <=> d \in DOMAIN sAllocList)
       /\ \A d \in DOMAIN sAllocList' : sAllocList'[d] = sAllocList[d]
  BY <1>1 DEF Graphics!Restrict
<1>11. \A d \in Addresses, c \in Buffers :
         Holds(c, d)' => heap[d] # Graphics!Free /\ d \notin lost /\ HolderSound(object'[c], heap[d])
  <2> SUFFICES ASSUME NEW d \in Addresses, NEW c \in Buffers, Holds(c, d)'
               PROVE  heap[d] # Graphics!Free /\ d \notin lost /\ HolderSound(object'[c], heap[d])
    OBVIOUS
  <2>1. Holds(c, d) /\ c # b /\ object'[c] = object[c]
    BY <1>7
  <2> QED
    BY <2>1 DEF GraphicsInv
<1>12. \A d \in Addresses : heap[d] # Graphics!Free /\ d \notin lost => \E c \in Buffers : Holds(c, d)'
  BY <1>7 DEF GraphicsInv
<1>13. \A d \in Addresses, c, e \in Buffers : Holds(c, d)' /\ Holds(e, d)' => c = e
  BY <1>7 DEF GraphicsInv
<1>14. \A d \in Addresses : d \notin reused' /\ d # h => d \notin reused
  BY <1>1
<1>15. ASSUME NEW d \in Addresses \ reused'
       PROVE  IF heap[d].kind = "device"
              THEN \/ \E c \in Buffers : Holds(c, d)' /\ object'[c].todo = "list"
                   \/ d \in DOMAIN sAllocList' /\ sAllocList'[d] = heap[d].size
              ELSE d \notin DOMAIN sAllocList' \/ Graphics!Unlisting(d)' # {}
  <2>1. CASE d = h
    <3>1. heap[h].kind # "device"
      <4>1. CASE h \in reused
        <5>1. heap[h] = Graphics!Free
          BY <1>1, <2>1, <4>1
        <5> QED
          BY <5>1 DEF Graphics!Free
      <4>2. CASE h \notin reused
        BY <1>2, <1>9, <4>2 DEF GraphicsInv
      <4> QED
        BY <4>1, <4>2
    <3> QED
      BY <1>10, <2>1, <3>1
  <2>2. CASE d # h
    <3>1. d \in Addresses \ reused
      BY <1>14, <2>2
    <3>2. IF heap[d].kind = "device"
          THEN \/ \E c \in Buffers : Holds(c, d) /\ object[c].todo = "list"
               \/ d \in DOMAIN sAllocList /\ sAllocList[d] = heap[d].size
          ELSE d \notin DOMAIN sAllocList \/ Graphics!Unlisting(d) # {}
      BY <3>1 DEF GraphicsInv
    <3>3. d \in Addresses /\ Graphics!Unlisting(d)' = Graphics!Unlisting(d)
      BY <1>8, <2>2, <3>1
    <3>4. \A c \in Buffers : Holds(c, d) => Holds(c, d)' /\ object'[c] = object[c]
      BY <1>7
    <3> QED
      BY <1>10, <2>2, <3>2, <3>3, <3>4
  <2> QED
    BY <2>1, <2>2
<1>16. object' \in [Buffers -> Objects] /\ \A c \in Buffers : ObjectSound(object'[c])
  BY <1>5, OtherObjects
<1>17. ASSUME NEW d \in Addresses, heap[d].kind = "device", Graphics!Unlisting(d)' # {}
       PROVE  d \in reused'
  <2>0. Graphics!Unlisting(d)' = Graphics!Unlisting(d) \ {b}
    BY <1>8
  <2>1. Graphics!Unlisting(d) # {} /\ d \in reused
    <3>1. Graphics!Unlisting(d) # {}
      BY <1>17, <2>0
    <3> QED
      BY <1>17, <3>1 DEF GraphicsInv
  <2>2. heap[d] # Graphics!Free
    BY <1>17 DEF Graphics!Free
  <2> QED
    BY <1>1, <1>17, <2>0, <2>1, <2>2
<1> QED
  BY <1>1, <1>11, <1>12, <1>13, <1>15, <1>16, <1>17 DEF GraphicsInv

LEMMA FlattenKeepsGraphics ==
  ASSUME GraphicsInv, NEW b \in Buffers, Graphics!Flatten(b)
  PROVE  GraphicsInv'
<1>1. object[b].todo = "call" /\ UNCHANGED <<object, heap, sAllocList, lost, reused>>
  BY DEF Graphics!Flatten, Graphics!ToDo
<1>2. object[b] \in Objects
  BY ObjectTypes
<1>3. flattened' \in Sent /\ flattened'.size <= flattened'.room
  <2>1. CASE object[b].handle = 0
    BY <2>1 DEF Graphics!Flatten, Graphics!NULL, Graphics!Flat, Sent
  <2>2. CASE object[b].handle # 0
    <3> DEFINE h == object[b].handle
    <3>1. h \in Addresses /\ Holds(b, h)
      BY <1>1, <1>2, <2>2 DEF Objects, Holds
    <3>2. object[b].size \in Nat /\ heap[h].size \in Nat
      BY <1>2, <3>1, ObjectTypes DEF Objects
    <3>3. object[b].size <= heap[h].size
      BY <1>1, <3>1 DEF GraphicsInv, HolderSound
    <3>4. flattened' = [size |-> object[b].size, room |-> heap[h].size]
      BY <2>2 DEF Graphics!Flatten, Graphics!NULL, Graphics!Flat
    <3> QED
      BY <3>2, <3>3, <3>4 DEF Sent
  <2> QED
    BY <2>1, <2>2
<1>4. \A a \in Addresses : Graphics!Unlisting(a)' = Graphics!Unlisting(a)
  BY <1>1 DEF Graphics!Unlisting, Graphics!ToDo
<1>5. \A a \in Addresses, c \in Buffers : Holds(c, a)' <=> Holds(c, a)
  BY <1>1 DEF Holds
<1> QED
  BY <1>1, <1>3, <1>4, <1>5 DEF GraphicsInv

LEMMA CallsKeepGraphics ==
  ASSUME GraphicsInv, NEW b \in Buffers,
         \/ Graphics!Destroy(b) \/ Graphics!Unflatten(b)
         \/ \E size \in BufferSizes : Graphics!Reallocate(b, size)
  PROVE  GraphicsInv'
<1>1. \A n \in Nat : Graphics!Flat(n, 0) \in Sent
  BY DEF Graphics!Flat, Sent
<1>2. CASE Graphics!Destroy(b)
  <2>1. Graphics!Flat(0, 0) \in Sent
    BY <1>1
  <2> QED
    BY <1>2, <2>1, FreeKeepsGraphics DEF Graphics!Destroy, Graphics!ToDo
<1>3. CASE Graphics!Unflatten(b)
  <2>1. flattened \in Sent /\ flattened.size <= flattened.room
    BY DEF GraphicsInv
  <2> QED
    BY <1>3, <2>1, FreeKeepsGraphics DEF Graphics!Unflatten, Graphics!ToDo
<1>4. ASSUME NEW size \in BufferSizes, Graphics!Reallocate(b, size)
      PROVE  GraphicsInv'
  <2>1. Graphics!Flat(size, 0) \in Sent
    BY <1>1, AddressesAreNumbers
  <2> QED
    BY <1>4, <2>1, FreeKeepsGraphics DEF Graphics!Reallocate, Graphics!ToDo
<1> QED
  BY <1>2, <1>3, <1>4

LEMMA GraphicsStep ==
  ASSUME GraphicsInv, [Graphics!Next]_bufferVars
  PROVE  GraphicsInv'
<1>1. CASE UNCHANGED bufferVars
  BY <1>1, GraphicsSame
<1>2. CASE Graphics!Next
  <2>1. PICK b \in Buffers :
          \/ \E a \in Addresses : Graphics!Alloc(b, a) \/ Graphics!Receive(b, a)
          \/ Graphics!AllocFails(b) \/ Graphics!List(b) \/ Graphics!Unlist(b)
          \/ Graphics!Construct(b) \/ Graphics!Destroy(b) \/ Graphics!Flatten(b)
          \/ Graphics!Unflatten(b) \/ Graphics!ReceiveEmpty(b) \/ Graphics!NoHandle(b)
          \/ \E size \in BufferSizes : Graphics!Reallocate(b, size)
    BY <1>2 DEF Graphics!Next
  <2> QED
    BY <2>1, AllocKeepsGraphics, ReceiveStepKeepsGraphics, EndsWithoutHandle, ListKeepsGraphics,
      UnlistKeepsGraphics, FlattenKeepsGraphics, CallsKeepGraphics
<1> QED
  BY <1>1, <1>2

LEMMA GraphicsAreSound ==
  ASSUME GraphicsInv
  PROVE  Graphics!GraphicBuffersAreSound
<1>1. ASSUME NEW a \in Addresses
      PROVE  /\ Graphics!Cardinality(Graphics!Holders(a)) =
                  (IF heap[a] = Graphics!Free \/ a \in lost THEN 0 ELSE 1)
             /\ \A b \in Graphics!Holders(a) :
                  (object[b].mOwner = "ownData") = (heap[a].kind = "device")
  <2>1. \A b : b \in Graphics!Holders(a) <=> b \in Buffers /\ Holds(b, a)
    BY DEF Graphics!Holders, Holds
  <2>2. CASE heap[a] = Graphics!Free \/ a \in lost
    <3>1. Graphics!Holders(a) = {}
      BY <2>1, <2>2 DEF GraphicsInv
    <3> QED
      BY <2>2, <3>1, FS_EmptySet DEF Graphics!Cardinality, Cardinality
  <2>3. CASE ~ (heap[a] = Graphics!Free \/ a \in lost)
    <3>1. PICK b \in Buffers : Holds(b, a)
      BY <2>3 DEF GraphicsInv
    <3>2. Graphics!Holders(a) = {b}
      BY <2>1, <3>1 DEF GraphicsInv
    <3>3. Cardinality({b}) = 1
      BY FS_Singleton
    <3>4. Graphics!Cardinality(Graphics!Holders(a)) = 1
      BY <3>2, <3>3 DEF Graphics!Cardinality, Cardinality
    <3>5. HolderSound(object[b], heap[a]) /\ object[b].mOwner \in {"ownData", "ownHandle"}
      BY <3>1, ObjectTypes DEF GraphicsInv, Objects
    <3> QED
      BY <2>3, <3>2, <3>4, <3>5 DEF HolderSound
  <2> QED
    BY <2>2, <2>3
<1>2. Graphics!BuffersHaveTheirSize
  <2> SUFFICES ASSUME NEW b \in Buffers, object[b].todo = "call"
               PROVE  /\ object[b].handle # 0 => object[b].size <= heap[object[b].handle].size
                      /\ object[b].handle = 0 /\ ~ object[b].failed => object[b].size = 0
    BY DEF Graphics!BuffersHaveTheirSize, Graphics!ToDo, Graphics!NULL
  <2>1. object[b].handle # 0 => object[b].handle \in Addresses /\ Holds(b, object[b].handle)
    BY ObjectTypes DEF Objects, Holds
  <2>2. object[b].handle # 0 => HolderSound(object[b], heap[object[b].handle])
    BY <2>1 DEF GraphicsInv
  <2> QED
    BY <2>2, ObjectTypes DEF HolderSound, ObjectSound
<1>3. Graphics!AllocationsAreListed
  <2> SUFFICES ASSUME \A b \in Buffers : object[b].todo \in {"construct", "call"},
                      NEW a \in Addresses \ reused
               PROVE  IF heap[a].kind = "device"
                      THEN a \in DOMAIN sAllocList /\ sAllocList[a] = heap[a].size
                      ELSE a \notin DOMAIN sAllocList
    BY DEF Graphics!AllocationsAreListed
  <2>1. \A b \in Buffers : object[b].todo # "list"
    OBVIOUS
  <2>2. Graphics!Unlisting(a) = {}
    BY DEF Graphics!Unlisting, Graphics!ToDo
  <2> QED
    BY <2>1, <2>2 DEF GraphicsInv
<1> QED
  BY <1>1, <1>2, <1>3 DEF Graphics!GraphicBuffersAreSound, Graphics!HandlesAreOwned

-----------------------------------------------------------------------------
(* The echo reference (EchoReference)                                      *)
(*                                                                         *)
(* Whatever the delays make of the buffer, it is a part of what was        *)
(* written, in its order and after what was read last, with silence in     *)
(* between: each way the code changes it keeps that.                       *)

Fresh(s, r, c, w) ==
  /\ s \in Seq(Nat)
  /\ \A i \in 1 .. Len(s) : s[i] <= w /\ (s[i] # 0 => s[i] > r /\ s[i] > c)
  /\ \A i \in 1 .. Len(s) : \A j \in 1 .. Len(s) :
       i < j /\ s[i] # 0 /\ s[j] # 0 => s[i] < s[j]

EchoInv ==
  /\ read \in Nat /\ since \in Nat /\ echoWritten \in Nat /\ buf_size \in Nat
  /\ read <= echoWritten /\ since <= echoWritten
  /\ Fresh(echoed, read, since, echoWritten)
  /\ Len(echoed) <= buf_size
  /\ waitingFor \in Counts \cup {0}

LEMMA EchoNumbers == Counts \subseteq Nat \ {0} /\ Delays \subseteq Nat
  BY LibraryPartsAssumption DEF Echo!EchoReferenceAssumption

LEMMA NothingIsFresh ==
  ASSUME NEW r \in Nat, NEW c \in Nat, NEW w \in Nat
  PROVE  Fresh(<< >>, r, c, w) /\ Len(<< >>) = 0
  BY DEF Fresh

LEMMA RestIsFresh ==
  ASSUME NEW r \in Nat, NEW c \in Nat, NEW w \in Nat, NEW s, Fresh(s, r, c, w),
         NEW k \in 0 .. Len(s)
  PROVE  /\ Fresh(SubSeq(s, k + 1, Len(s)), r, c, w)
         /\ Len(SubSeq(s, k + 1, Len(s))) = Len(s) - k
<1> DEFINE t == SubSeq(s, k + 1, Len(s))
<1>1. /\ s \in Seq(Nat) /\ Len(s) \in Nat /\ k \in Nat
      /\ \A i \in 1 .. Len(s) : s[i] <= w /\ (s[i] # 0 => s[i] > r /\ s[i] > c)
      /\ \A i \in 1 .. Len(s) : \A j \in 1 .. Len(s) :
           i < j /\ s[i] # 0 /\ s[j] # 0 => s[i] < s[j]
  BY DEF Fresh
<1>2. /\ t \in Seq(Nat) /\ Len(t) = Len(s) - k
      /\ \A i \in 1 .. Len(s) - k : t[i] = s[k + i]
  <2>1. \A i \in k + 1 .. Len(s) : s[i] \in Nat
    BY <1>1
  <2> QED
    BY <1>1, <2>1, SubSeqProperties
<1> HIDE DEF t
<1>3. \A i \in 1 .. Len(t) : t[i] = s[k + i] /\ k + i \in 1 .. Len(s)
  BY <1>1, <1>2
<1>4. \A i \in 1 .. Len(t) : \A j \in 1 .. Len(t) :
        i < j /\ t[i] # 0 /\ t[j] # 0 => t[i] < t[j]
  <2> SUFFICES ASSUME NEW i \in 1 .. Len(t), NEW j \in 1 .. Len(t), i < j, t[i] # 0, t[j] # 0
               PROVE  t[i] < t[j]
    OBVIOUS
  <2>1. k + i < k + j
    BY <1>1
  <2> QED
    BY <1>1, <1>3, <2>1
<1>5. \A i \in 1 .. Len(t) : t[i] <= w /\ (t[i] # 0 => t[i] > r /\ t[i] > c)
  BY <1>1, <1>3
<1> QED
  BY <1>2, <1>4, <1>5 DEF t, Fresh

(* Frames that are written after those there are, or silence.              *)
LEMMA MoreIsFresh ==
  ASSUME NEW r \in Nat, NEW c \in Nat, NEW w \in Nat, NEW s, Fresh(s, r, c, w),
         NEW v \in Nat, w <= v, r <= w, c <= w, NEW k \in Nat,
         NEW t \in [1 .. k -> Nat],
         \/ \A i \in 1 .. k : t[i] = 0
         \/ v = w + k /\ \A i \in 1 .. k : t[i] = w + i
  PROVE  Fresh(s \o t, r, c, v) /\ Len(s \o t) = Len(s) + k
<1> DEFINE u == s \o t
           n == Len(s)
<1>1. /\ s \in Seq(Nat) /\ n \in Nat
      /\ \A i \in 1 .. n : s[i] \in Nat /\ s[i] <= w /\ (s[i] # 0 => s[i] > r /\ s[i] > c)
      /\ \A i \in 1 .. n : \A j \in 1 .. n :
           i < j /\ s[i] # 0 /\ s[j] # 0 => s[i] < s[j]
  BY DEF Fresh
<1>2. t \in Seq(Nat) /\ Len(t) = k
  BY IsASeq
<1>3. /\ u \in Seq(Nat) /\ Len(u) = n + k
      /\ \A i \in 1 .. n + k : u[i] = IF i <= n THEN s[i] ELSE t[i - n]
  BY <1>1, <1>2, ConcatProperties
<1> HIDE DEF u, n
<1>4. ASSUME NEW i \in 1 .. n + k
      PROVE  /\ u[i] \in Nat /\ u[i] <= v
             /\ i <= n /\ u[i] # 0 => u[i] <= w /\ u[i] > r /\ u[i] > c
             /\ i > n /\ u[i] # 0 => v = w + k /\ u[i] = w + (i - n) /\ i - n > 0
  <2>1. CASE i <= n
    <3>1. i \in 1 .. n /\ u[i] = s[i]
      BY <1>1, <1>3, <2>1
    <3> QED
      BY <1>1, <2>1, <3>1
  <2>2. CASE i > n
    <3>1. i - n \in 1 .. k /\ u[i] = t[i - n]
      BY <1>1, <1>3, <2>2
    <3>2. u[i] = 0 \/ (v = w + k /\ u[i] = w + (i - n))
      BY <3>1
    <3> QED
      BY <1>1, <2>2, <3>1, <3>2
  <2> QED
    BY <1>1, <2>1, <2>2
<1>5. ASSUME NEW i \in 1 .. n + k, NEW j \in 1 .. n + k, i < j, u[i] # 0, u[j] # 0
      PROVE  u[i] < u[j]
  <2>1. CASE j <= n
    <3>1. i \in 1 .. n /\ j \in 1 .. n /\ u[i] = s[i] /\ u[j] = s[j]
      BY <1>1, <1>3, <1>5, <2>1
    <3> QED
      BY <1>1, <1>5, <3>1
  <2>2. CASE j > n
    <3>1. u[j] = w + (j - n) /\ j - n > 0
      BY <1>4, <1>5, <2>2
    <3>2. CASE i <= n
      BY <1>1, <1>4, <1>5, <3>1, <3>2
    <3>3. CASE i > n
      BY <1>1, <1>4, <1>5, <3>1, <3>3
    <3> QED
      BY <1>1, <3>2, <3>3
  <2> QED
    BY <1>1, <2>1, <2>2
<1>6. ASSUME NEW i \in 1 .. n + k
      PROVE  u[i] <= v /\ (u[i] # 0 => u[i] > r /\ u[i] > c)
  <2>1. CASE i <= n
    BY <1>4, <2>1
  <2>2. CASE i > n
    <3>1. u[i] # 0 => u[i] > w
      BY <1>1, <1>4, <2>2
    <3> QED
      BY <1>4, <3>1
  <2> QED
    BY <1>1, <2>1, <2>2
<1> QED
  BY <1>3, <1>5, <1>6 DEF u, n, Fresh

(* What is taken from the front, with silence it may hold.                 *)
LEMMA TakenIsFresh ==
  ASSUME NEW r \in Nat, NEW c \in Nat, NEW w \in Nat, NEW s, Fresh(s, r, c, w), r <= w,
         NEW n \in 1 .. Len(s),
         NEW T, \A x : x \in T <=> (x = r \/ \E i \in 1 .. n : x = s[i]),
         NEW m, m = Echo!Max(T)
  PROVE  /\ m \in Nat /\ m <= w
         /\ Fresh(SubSeq(s, n + 1, Len(s)), m, c, w)
         /\ Len(SubSeq(s, n + 1, Len(s))) = Len(s) - n
<1> DEFINE t == SubSeq(s, n + 1, Len(s))
<1>1. /\ s \in Seq(Nat) /\ Len(s) \in Nat /\ n \in Nat /\ n <= Len(s)
      /\ \A i \in 1 .. Len(s) : s[i] \in Nat /\ s[i] <= w /\ (s[i] # 0 => s[i] > r /\ s[i] > c)
      /\ \A i \in 1 .. Len(s) : \A j \in 1 .. Len(s) :
           i < j /\ s[i] # 0 /\ s[j] # 0 => s[i] < s[j]
  BY DEF Fresh
<1>2. T \subseteq Nat /\ T # {} /\ \A x \in T : x <= w
  <2>1. ASSUME NEW x \in T
        PROVE  x \in Nat /\ x <= w
    <3>1. \A i \in 1 .. n : i \in 1 .. Len(s)
      BY <1>1
    <3> QED
      BY <1>1, <3>1
  <2>2. r \in T
    OBVIOUS
  <2> QED
    BY <2>1, <2>2
<1>3. \E x \in T : \A y \in T : y <= x
  BY <1>2, Greatest
<1>4. m \in T /\ \A y \in T : y <= m
  <2>1. m = CHOOSE x \in T : \A y \in T : x >= y
    BY DEF Echo!Max
  <2>2. \E x \in T : \A y \in T : x >= y
    BY <1>2, <1>3
  <2>3. m \in T /\ \A y \in T : m >= y
    BY <2>1, <2>2
  <2> QED
    BY <1>2, <2>3
<1>5. Fresh(t, r, c, w) /\ Len(t) = Len(s) - n
  BY <1>1, RestIsFresh
<1>6. \A i \in 1 .. Len(t) : t[i] = s[n + i] /\ n + i \in 1 .. Len(s)
  <2>1. \A i \in 1 .. Len(s) - n : t[i] = s[n + i]
    <3>1. \A i \in n + 1 .. Len(s) : s[i] \in Nat
      BY <1>1
    <3>2. n + 1 \in Int /\ Len(s) \in Int
      BY <1>1
    <3>3. \A i \in 1 .. Len(s) - (n + 1) + 1 : t[i] = s[(n + 1) + i - 1]
      BY <3>1, <3>2, SubSeqProperties
    <3> HIDE DEF t
    <3>4. ASSUME NEW i \in 1 .. Len(s) - n
          PROVE  i \in 1 .. Len(s) - (n + 1) + 1 /\ (n + 1) + i - 1 = n + i
      BY <1>1, <3>2
    <3> QED
      BY <3>3, <3>4
  <2> QED
    BY <1>1, <1>5, <2>1
<1>7. m \in Nat /\ m <= w
  BY <1>2, <1>4
<1>8. ASSUME NEW i \in 1 .. Len(t), t[i] # 0
      PROVE  t[i] > m
  <2>1. t[i] = s[n + i] /\ n + i \in 1 .. Len(s)
    BY <1>6
  <2>2. CASE m = r
    BY <1>1, <1>8, <2>1, <2>2
  <2>3. ASSUME NEW k \in 1 .. n, m = s[k]
        PROVE  t[i] > m
    <3>1. k \in 1 .. Len(s) /\ k < n + i
      BY <1>1, <1>5
    <3>2. CASE s[k] = 0
      <4>1. t[i] \in Nat /\ m = 0
        BY <1>1, <2>1, <2>3, <3>2
      <4> HIDE DEF t
      <4> QED
        BY <1>8, <4>1
    <3>3. CASE s[k] # 0
      BY <1>1, <1>8, <2>1, <2>3, <3>1, <3>3
    <3> QED
      BY <3>2, <3>3
  <2> QED
    BY <1>4, <2>2, <2>3
<1> HIDE DEF t
<1>9. Fresh(t, m, c, w)
  BY <1>5, <1>8 DEF Fresh
<1> QED
  BY <1>5, <1>7, <1>9 DEF t

LEMMA EchoBegins ==
  ASSUME LibrariesInit
  PROVE  EchoInv
<1>1. /\ echoed = << >> /\ buf_size = 0 /\ waitingFor = 0
      /\ echoWritten = 0 /\ read = 0 /\ since = 0
  BY DEF LibrariesInit, Echo!Init
<1> QED
  BY <1>1, NothingIsFresh DEF EchoInv

LEMMA GrownBuffer ==
  ASSUME NEW size \in Nat, NEW n \in Nat
  PROVE  Echo!Grown(size, n) \in Nat /\ n <= Echo!Grown(size, n)
  BY DEF Echo!Grown

LEMMA ResetKeepsEcho ==
  ASSUME EchoInv, Echo!Reset, UNCHANGED <<echoWritten, read>>, waitingFor' \in Counts \cup {0}
  PROVE  EchoInv'
<1>1. echoed' = << >> /\ buf_size' = 0 /\ since' = echoWritten
  BY DEF Echo!Reset
<1> QED
  BY <1>1, NothingIsFresh DEF EchoInv

LEMMA WriteKeepsEcho ==
  ASSUME EchoInv, NEW n \in Counts, NEW stamped, Echo!Write(n, stamped)
  PROVE  EchoInv'
<1>1. UNCHANGED <<waitingFor, read, since>>
  BY DEF Echo!Write
<1>2. CASE UNCHANGED <<echoed, buf_size, echoWritten>>
  BY <1>1, <1>2 DEF EchoInv
<1>3. ASSUME NEW k \in Echo!Produced(n), echoWritten' = echoWritten + k,
             echoed' = echoed \o [i \in 1 .. k |-> echoWritten + i],
             buf_size' = Echo!Grown(buf_size, Len(echoed'))
      PROVE  EchoInv'
  <2>1. k \in Nat
    BY EchoNumbers DEF Echo!Produced
  <2>2. /\ echoWritten \in Nat /\ read \in Nat /\ since \in Nat /\ buf_size \in Nat
        /\ read <= echoWritten /\ since <= echoWritten
        /\ Fresh(echoed, read, since, echoWritten)
    BY DEF EchoInv
  <2>3. Fresh(echoed', read, since, echoWritten')
    <3> DEFINE t == [i \in 1 .. k |-> echoWritten + i]
    <3>1. t \in [1 .. k -> Nat] /\ \A i \in 1 .. k : t[i] = echoWritten + i
      BY <2>1, <2>2
    <3>2. echoWritten + k \in Nat /\ echoWritten <= echoWritten + k
      BY <2>1, <2>2
    <3> HIDE DEF t
    <3>3. Fresh(echoed \o t, read, since, echoWritten + k)
      BY <2>1, <2>2, <3>1, <3>2, MoreIsFresh
    <3> QED
      BY <1>3, <3>3 DEF t
  <2>4. Len(echoed') \in Nat
    BY <2>3 DEF Fresh
  <2>5. buf_size' \in Nat /\ Len(echoed') <= buf_size'
    BY <1>3, <2>2, <2>4, GrownBuffer
  <2> QED
    BY <1>1, <1>3, <2>1, <2>2, <2>3, <2>5 DEF EchoInv
<1> QED
  BY <1>2, <1>3 DEF Echo!Write

(* The buffer with or without the correction of its delay.                 *)
LEMMA CorrectionIsFresh ==
  ASSUME EchoInv, NEW delay \in Nat
  PROVE  Fresh(Echo!Corrected(delay), read, since, echoWritten)
<1>0. /\ echoWritten \in Nat /\ read \in Nat /\ since \in Nat
      /\ read <= echoWritten /\ since <= echoWritten
      /\ Fresh(echoed, read, since, echoWritten) /\ Len(echoed) \in Nat
  BY DEF EchoInv, Fresh
<1>1. CASE delay > Len(echoed)
  <2> DEFINE k == delay - Len(echoed)
             t == Echo!Silence(k)
  <2>1. k \in Nat
    BY <1>0, <1>1
  <2>2. t \in [1 .. k -> Nat] /\ \A i \in 1 .. k : t[i] = 0
    BY DEF Echo!Silence
  <2> HIDE DEF t, k
  <2>3. Fresh(echoed \o t, read, since, echoWritten)
    BY <1>0, <2>1, <2>2, MoreIsFresh
  <2>4. Echo!Aligned(delay) = echoed \o t
    BY <1>1 DEF Echo!Aligned, t, k
  <2> QED
    BY <1>0, <2>3, <2>4 DEF Echo!Corrected
<1>2. CASE ~ delay > Len(echoed)
  <2> DEFINE k == Len(echoed) - delay
  <2>1. k \in 0 .. Len(echoed)
    BY <1>0, <1>2
  <2>2. Echo!Aligned(delay) = SubSeq(echoed, k + 1, Len(echoed))
    BY <1>2 DEF Echo!Aligned
  <2> HIDE DEF k
  <2> QED
    BY <1>0, <2>1, <2>2, RestIsFresh DEF Echo!Corrected
<1> QED
  BY <1>1, <1>2

LEMMA ReadKeepsEcho ==
  ASSUME EchoInv, NEW n \in Counts, NEW delay \in Delays, Echo!Read(n, delay)
  PROVE  EchoInv'
<1> DEFINE known   == rendered /\ delay > 0
           aligned == IF known THEN Echo!Corrected(delay) ELSE echoed
           filled  == IF Len(aligned) < n THEN aligned \o Echo!Silence(n - Len(aligned)) ELSE aligned
<1>1. /\ buf_size' = Echo!Grown(buf_size, Len(filled))
      /\ read' = Echo!Max({read} \cup {filled[i] : i \in 1 .. n})
      /\ echoed' = SubSeq(filled, n + 1, Len(filled))
      /\ waitingFor' = 0 /\ UNCHANGED <<echoWritten, since>>
  BY DEF Echo!Read, Echo!Take
<1>2. /\ echoWritten \in Nat /\ read \in Nat /\ since \in Nat /\ buf_size \in Nat
      /\ read <= echoWritten /\ since <= echoWritten
      /\ Fresh(echoed, read, since, echoWritten)
      /\ n \in Nat /\ n > 0 /\ delay \in Nat
  BY EchoNumbers DEF EchoInv
<1>3. Fresh(aligned, read, since, echoWritten)
  BY <1>2, CorrectionIsFresh
<1> HIDE DEF aligned
<1>4. Fresh(filled, read, since, echoWritten) /\ n <= Len(filled) /\ Len(filled) \in Nat
  <2>0. Len(aligned) \in Nat
    BY <1>3 DEF Fresh
  <2>1. CASE Len(aligned) < n
    <3> DEFINE k == n - Len(aligned)
               t == Echo!Silence(k)
    <3>1. k \in Nat
      BY <1>2, <2>0, <2>1
    <3>2. t \in [1 .. k -> Nat] /\ \A i \in 1 .. k : t[i] = 0
      BY DEF Echo!Silence
    <3>3. filled = aligned \o t
      BY <2>1
    <3>4. Len(aligned) + k = n
      BY <1>2, <2>0
    <3> HIDE DEF t, k, filled
    <3>5. Fresh(aligned \o t, read, since, echoWritten) /\ Len(aligned \o t) = Len(aligned) + k
      BY <1>2, <1>3, <3>1, <3>2, MoreIsFresh
    <3> QED
      BY <1>2, <3>3, <3>4, <3>5
  <2>2. CASE ~ Len(aligned) < n
    BY <1>2, <1>3, <2>0, <2>2
  <2> QED
    BY <2>1, <2>2
<1> HIDE DEF filled
<1>5. n \in 1 .. Len(filled)
  BY <1>2, <1>4
<1>6. /\ read' \in Nat /\ read' <= echoWritten
      /\ Fresh(echoed', read', since, echoWritten)
      /\ Len(echoed') = Len(filled) - n
  <2> DEFINE T == {read} \cup {filled[i] : i \in 1 .. n}
             m == Echo!Max(T)
  <2>0. \A x : x \in T <=> (x = read \/ \E i \in 1 .. n : x = filled[i])
    OBVIOUS
  <2>1. /\ m \in Nat /\ m <= echoWritten
        /\ Fresh(SubSeq(filled, n + 1, Len(filled)), m, since, echoWritten)
        /\ Len(SubSeq(filled, n + 1, Len(filled))) = Len(filled) - n
    <3> HIDE DEF T
    <3> QED
      BY <1>2, <1>4, <1>5, <2>0, TakenIsFresh
  <2>2. read' = m
    BY <1>1
  <2> HIDE DEF m
  <2> QED
    BY <1>1, <2>1, <2>2
<1>7. buf_size' \in Nat /\ Len(filled) <= buf_size'
  BY <1>1, <1>2, <1>4, GrownBuffer
<1>8. Len(echoed') <= buf_size'
  BY <1>2, <1>4, <1>6, <1>7
<1> QED
  BY <1>1, <1>2, <1>6, <1>7, <1>8 DEF EchoInv

LEMMA EchoStep ==
  ASSUME EchoInv, [Echo!Next]_echoVars
  PROVE  EchoInv'
<1>1. CASE UNCHANGED echoVars
  BY <1>1 DEF EchoInv, echoVars
<1>2. CASE Echo!StopWrite
  <2>1. waitingFor \in Counts \cup {0}
    BY DEF EchoInv
  <2> QED
    BY <1>2, <2>1, ResetKeepsEcho DEF Echo!StopWrite
<1>3. CASE Echo!StopRead
  BY <1>3 DEF Echo!StopRead, EchoInv
<1>4. ASSUME NEW n \in Counts,
             \/ (\E stamped \in BOOLEAN : Echo!Write(n, stamped) /\ Echo!WithinBound)
             \/ Echo!StartRead(n) \/ Echo!Wait(n)
             \/ (\E delay \in Delays : Echo!Read(n, delay) /\ Echo!WithinBound)
      PROVE  EchoInv'
  <2>1. CASE \E stamped \in BOOLEAN : Echo!Write(n, stamped) /\ Echo!WithinBound
    BY <2>1, WriteKeepsEcho
  <2>2. CASE Echo!StartRead(n)
    <3>1. Echo!Reset /\ UNCHANGED <<echoWritten, read>> /\ waitingFor' \in Counts \cup {0}
      BY <2>2 DEF Echo!StartRead
    <3> QED
      BY <3>1, ResetKeepsEcho
  <2>3. CASE Echo!Wait(n)
    BY <2>3 DEF Echo!Wait, EchoInv
  <2>4. CASE \E delay \in Delays : Echo!Read(n, delay) /\ Echo!WithinBound
    BY <2>4, ReadKeepsEcho
  <2> QED
    BY <1>4, <2>1, <2>2, <2>3, <2>4
<1> QED
  BY <1>1, <1>2, <1>3, <1>4 DEF Echo!Next

LEMMA EchoIsFresh ==
  ASSUME EchoInv
  PROVE  Echo!FramesAreFresh
<1>1. /\ echoed \in Seq(Nat) /\ DOMAIN echoed = 1 .. Len(echoed)
      /\ \A i \in 1 .. Len(echoed) : echoed[i] # 0 => echoed[i] > read /\ echoed[i] > since
      /\ \A i \in 1 .. Len(echoed) : \A j \in 1 .. Len(echoed) :
           i < j /\ echoed[i] # 0 /\ echoed[j] # 0 => echoed[i] < echoed[j]
      /\ Len(echoed) <= buf_size
  BY DEF EchoInv, Fresh
<1>2. \A f \in Echo!Frames : f > read /\ f > since
  BY <1>1 DEF Echo!Frames
<1> QED
  BY <1>1, <1>2 DEF Echo!FramesAreFresh

-----------------------------------------------------------------------------
(* The mixer's paths (AudioRoute)                                          *)
(*                                                                         *)
(* A path sets a control once, or what it says of the control and what is  *)
(* applied could differ; before the file is read no path is applied.  What *)
(* was last written is what the mixer shows, so that writing what differs  *)
(* from it is enough.                                                      *)

Setting == [ctl : Route!Supported, value : Route!Settings]
SetsOnce(s) ==
  \A i \in 1 .. Len(s) : \A j \in 1 .. Len(s) : s[i].ctl = s[j].ctl => i = j
PathOK(s) == s \in Seq(Setting) /\ SetsOnce(s)

ValuesInv ==
  /\ mixer \in [Route!Supported -> Route!Settings]
  /\ old \in [Route!Supported -> Route!Settings]
  /\ new \in [Route!Supported -> Route!Settings]
  /\ reset \in [Route!Supported -> Route!Settings]

(* Of an enum only the first value is written.                             *)
Agree(c, u, v) == IF c \in Enums THEN u[0] = v[0] ELSE u = v

ShownInv == \A c \in Route!Supported : Agree(c, old[c], mixer[c])

RouteInv ==
  /\ ValuesInv /\ ShownInv
  /\ DOMAIN path \subseteq Paths /\ \A p \in DOMAIN path : PathOK(path[p])
  /\ parsing \in Paths \cup {"top", "done"} /\ tags \in 0 .. MaxTags
  /\ parsing \in Paths => parsing \in DOMAIN path
  /\ active \subseteq DOMAIN path /\ clash \subseteq Route!Supported
  /\ updated \subseteq Route!Supported
  /\ parsing # "done" => active = {} /\ updated = {}
  /\ Route!RoutesAreIndependent

LEMMA RouteConstants ==
  /\ NumValues \in Nat /\ NumValues > 0 /\ MaxValue \in Nat /\ MaxTags \in Nat
  /\ Ints \cap Enums = {} /\ {"top", "done"} \cap Paths = {}
  /\ 0 \in Route!Ids /\ Route!Zero \in Route!Settings
<1>1. /\ NumValues \in Nat /\ NumValues > 0 /\ MaxValue \in Nat /\ MaxTags \in Nat
      /\ Ints \cap Enums = {} /\ {"top", "done"} \cap Paths = {}
  BY LibraryPartsAssumption DEF Route!AudioRouteAssumption
<1>2. 0 \in Route!Ids
  BY <1>1 DEF Route!Ids
<1>3. Route!Zero \in Route!Settings
  BY <1>1 DEF Route!Zero, Route!Settings
<1> QED
  BY <1>1, <1>2, <1>3

LEMMA WithIsASetting ==
  ASSUME NEW s \in Route!Settings, NEW id, NEW v \in 0 .. MaxValue
  PROVE  Route!With(s, id, v) \in Route!Settings
  BY DEF Route!With, Route!Settings

LEMMA RouteBegins ==
  ASSUME LibrariesInit
  PROVE  RouteInv
<1>1. /\ mixer \in [Route!Supported -> Route!Settings]
      /\ old = [c \in Route!Supported |-> Route!Read(c)] /\ new = old
      /\ reset = [c \in Route!Supported |-> Route!Zero]
      /\ path = [p \in {} |-> << >>]
      /\ parsing = "top" /\ tags = 0 /\ active = {} /\ clash = {} /\ updated = {}
  BY DEF LibrariesInit, Route!Init
<1>2. \A c \in Route!Supported :
        /\ Route!Read(c) \in Route!Settings
        /\ IF c \in Enums THEN Route!Read(c)[0] = mixer[c][0] ELSE Route!Read(c) = mixer[c]
  <2> SUFFICES ASSUME NEW c \in Route!Supported
               PROVE  /\ Route!Read(c) \in Route!Settings
                      /\ IF c \in Enums THEN Route!Read(c)[0] = mixer[c][0]
                         ELSE Route!Read(c) = mixer[c]
    OBVIOUS
  <2>1. mixer[c] \in Route!Settings
    BY <1>1
  <2>2. CASE c \in Enums
    <3> DEFINE r == [Route!Zero EXCEPT ![0] = mixer[c][0]]
    <3>1. Route!Read(c) = r
      BY <2>2 DEF Route!Read
    <3>2. r \in Route!Settings /\ r[0] = mixer[c][0]
      BY <2>1, RouteConstants DEF Route!Settings
    <3> HIDE DEF r
    <3> QED
      BY <2>2, <3>1, <3>2
  <2>3. CASE c \notin Enums
    BY <2>1, <2>3 DEF Route!Read
  <2> QED
    BY <2>2, <2>3
<1>3. ValuesInv
  BY <1>1, <1>2, RouteConstants DEF ValuesInv
<1>4. ShownInv
  BY <1>1, <1>2 DEF ShownInv, Agree
<1>5. DOMAIN path = {}
  BY <1>1
<1> QED
  BY <1>1, <1>3, <1>4, <1>5, RouteConstants DEF RouteInv, Route!RoutesAreIndependent

LEMMA RouteSame ==
  ASSUME RouteInv, UNCHANGED routeVars
  PROVE  RouteInv'
<1>1. UNCHANGED <<mixer, old, new, reset, path, parsing, tags, active, clash, updated>>
  BY DEF routeVars
<1>2. ValuesInv' /\ ShownInv'
  BY <1>1 DEF RouteInv, ValuesInv, ShownInv
<1>3. Route!RoutesAreIndependent'
  BY <1>1 DEF RouteInv, Route!RoutesAreIndependent, Route!ControlsOf, Route!SettingOf
<1> QED
  BY <1>1, <1>2, <1>3 DEF RouteInv

(* Parsing changes values, or a path, before there is anything to show.    *)
LEMMA ParsingKeepsRoute ==
  ASSUME RouteInv, parsing \in Paths \cup {"top"}, parsing' \in Paths \cup {"top"},
         new' \in [Route!Supported -> Route!Settings], tags' \in 0 .. MaxTags,
         DOMAIN path' \subseteq Paths, DOMAIN path \subseteq DOMAIN path',
         \A p \in DOMAIN path' : PathOK(path'[p]),
         parsing' \in Paths => parsing' \in DOMAIN path',
         UNCHANGED <<mixer, old, reset, active, clash, updated>>
  PROVE  RouteInv'
<1>1. parsing # "done" /\ parsing' # "done"
  BY RouteConstants
<1>2. active = {} /\ updated = {}
  BY <1>1 DEF RouteInv
<1>3. ValuesInv' /\ ShownInv'
  BY DEF RouteInv, ValuesInv, ShownInv
<1>4. Route!RoutesAreIndependent'
  BY <1>1 DEF Route!RoutesAreIndependent
<1>5. clash' \subseteq Route!Supported
  BY DEF RouteInv
<1> QED
  BY <1>1, <1>2, <1>3, <1>4, <1>5 DEF RouteInv

LEMMA ControlsKeepRoute ==
  ASSUME RouteInv, NEW c, NEW id, NEW v \in 0 .. MaxValue, Route!TopControl(c, id, v)
  PROVE  RouteInv'
<1>1. /\ parsing = "top" /\ parsing' = "top" /\ path' = path
      /\ tags < MaxTags /\ tags' = tags + 1
      /\ UNCHANGED <<mixer, old, reset, active, clash, updated>>
  BY DEF Route!TopControl, Route!Tag, Route!history
<1>2. /\ new \in [Route!Supported -> Route!Settings] /\ tags \in 0 .. MaxTags
      /\ DOMAIN path \subseteq Paths /\ \A p \in DOMAIN path : PathOK(path[p])
  BY DEF RouteInv, ValuesInv
<1>3. new' \in [Route!Supported -> Route!Settings]
  <2>1. CASE c \in Route!Supported /\ id < NumValues
    <3>1. Route!With(new[c], id, v) \in Route!Settings
      BY <1>2, <2>1, WithIsASetting
    <3>2. new' = [new EXCEPT ![c] = Route!With(new[c], id, v)]
      BY <2>1 DEF Route!TopControl
    <3> QED
      BY <1>2, <2>1, <3>1, <3>2
  <2>2. CASE ~ (c \in Route!Supported /\ id < NumValues)
    BY <1>2, <2>2 DEF Route!TopControl
  <2> QED
    BY <2>1, <2>2
<1>4. tags' \in 0 .. MaxTags
  BY <1>1, <1>2, RouteConstants
<1>5. "top" \notin Paths
  BY RouteConstants
<1> QED
  BY <1>1, <1>2, <1>3, <1>4, <1>5, ParsingKeepsRoute

LEMMA PathsAreOpened ==
  ASSUME RouteInv, NEW p \in Paths, Route!OpenPath(p)
  PROVE  RouteInv'
<1>1. /\ parsing = "top" /\ parsing' = p /\ p \notin DOMAIN path
      /\ path' = [q \in DOMAIN path \cup {p} |-> IF q = p THEN << >> ELSE path[q]]
      /\ new' = new /\ tags < MaxTags /\ tags' = tags + 1
      /\ UNCHANGED <<mixer, old, reset, active, clash, updated>>
  BY DEF Route!OpenPath, Route!Tag, Route!history
<1>2. /\ new \in [Route!Supported -> Route!Settings] /\ tags \in 0 .. MaxTags
      /\ DOMAIN path \subseteq Paths /\ \A q \in DOMAIN path : PathOK(path[q])
  BY DEF RouteInv, ValuesInv
<1>3. PathOK(<< >>)
  BY DEF PathOK, SetsOnce
<1>4. DOMAIN path' = DOMAIN path \cup {p} /\ \A q \in DOMAIN path' : PathOK(path'[q])
  BY <1>1, <1>2, <1>3
<1>5. tags' \in 0 .. MaxTags
  BY <1>1, <1>2, RouteConstants
<1> QED
  BY <1>1, <1>2, <1>4, <1>5, ParsingKeepsRoute

LEMMA PathsAreClosed ==
  ASSUME RouteInv, Route!ClosePath
  PROVE  RouteInv'
<1>1. /\ parsing \in Paths /\ parsing' = "top"
      /\ UNCHANGED <<mixer, old, new, reset, path, tags, active, clash, updated>>
  BY DEF Route!ClosePath, Route!values, Route!history
<1>2. /\ new \in [Route!Supported -> Route!Settings] /\ tags \in 0 .. MaxTags
      /\ DOMAIN path \subseteq Paths /\ \A q \in DOMAIN path : PathOK(path[q])
  BY DEF RouteInv, ValuesInv
<1>3. "top" \notin Paths
  BY RouteConstants
<1> QED
  BY <1>1, <1>2, <1>3, ParsingKeepsRoute

(* A setting of a path: at its end, or changed in its place.               *)
LEMMA AddedValue ==
  ASSUME NEW s, PathOK(s), NEW c, NEW id, NEW v \in 0 .. MaxValue
  PROVE  PathOK(Route!AddValue(s, c, id, v))
<1>0. s \in Seq(Setting) /\ Len(s) \in Nat /\ DOMAIN s = 1 .. Len(s) /\ SetsOnce(s)
  BY DEF PathOK
<1>1. CASE id >= NumValues \/ (~ Route!Has(s, c) /\ c \notin Route!Supported)
  BY <1>1 DEF Route!AddValue
<1>2. CASE ~ (id >= NumValues) /\ ~ Route!Has(s, c) /\ c \in Route!Supported
  <2> DEFINE z == [Route!Zero EXCEPT ![0] = v]
             e == [ctl |-> c, value |-> Route!With(z, id, v)]
             t == Append(s, e)
  <2>1. z \in Route!Settings
    BY RouteConstants DEF Route!Settings
  <2>2. Route!With(z, id, v) \in Route!Settings
    <3> HIDE DEF z
    <3> QED
      BY <2>1, WithIsASetting
  <2> HIDE DEF z
  <2>3. e \in Setting /\ e.ctl = c
    BY <1>2, <2>2 DEF Setting
  <2>4. Route!AddValue(s, c, id, v) = t
    BY <1>2 DEF Route!AddValue, z
  <2> HIDE DEF e
  <2>5. /\ t \in Seq(Setting) /\ Len(t) = Len(s) + 1 /\ t[Len(s) + 1] = e
        /\ \A i \in 1 .. Len(s) : t[i] = s[i]
    BY <1>0, <2>3, AppendProperties
  <2> HIDE DEF t
  <2>6. \A i \in 1 .. Len(s) : s[i].ctl # c
    BY <1>0, <1>2 DEF Route!Has
  <2>7. ASSUME NEW i \in 1 .. Len(t), NEW j \in 1 .. Len(t), t[i].ctl = t[j].ctl
        PROVE  i = j
    <3>1. CASE i \in 1 .. Len(s) /\ j \in 1 .. Len(s)
      BY <1>0, <2>5, <2>7, <3>1 DEF SetsOnce
    <3>2. CASE i \in 1 .. Len(s) /\ j = Len(s) + 1
      BY <2>3, <2>5, <2>6, <2>7, <3>2
    <3>3. CASE i = Len(s) + 1 /\ j \in 1 .. Len(s)
      BY <2>3, <2>5, <2>6, <2>7, <3>3
    <3>4. \A k \in 1 .. Len(t) : k \in 1 .. Len(s) \/ k = Len(s) + 1
      BY <1>0, <2>5
    <3> QED
      BY <3>1, <3>2, <3>3, <3>4
  <2> QED
    BY <2>4, <2>5, <2>7 DEF PathOK, SetsOnce
<1>3. CASE ~ (id >= NumValues) /\ Route!Has(s, c)
  <2> DEFINE t == [i \in DOMAIN s |-> IF s[i].ctl = c
                     THEN [s[i] EXCEPT !.value = Route!With(s[i].value, id, v)] ELSE s[i]]
  <2>1. Route!AddValue(s, c, id, v) = t
    BY <1>3 DEF Route!AddValue
  <2>2. ASSUME NEW i \in 1 .. Len(s)
        PROVE  t[i] \in Setting /\ t[i].ctl = s[i].ctl
    <3>0. s[i] \in Setting
      BY <1>0
    <3>1. s[i] \in Setting /\ s[i].value \in Route!Settings
      BY <3>0 DEF Setting
    <3>2. Route!With(s[i].value, id, v) \in Route!Settings
      BY <3>1, WithIsASetting
    <3>3. t[i] = IF s[i].ctl = c THEN [s[i] EXCEPT !.value = Route!With(s[i].value, id, v)] ELSE s[i]
      BY <1>0
    <3> QED
      BY <3>1, <3>2, <3>3 DEF Setting
  <2>3. t \in Seq(Setting) /\ Len(t) = Len(s)
    <3>1. t \in [1 .. Len(s) -> Setting]
      BY <1>0, <2>2
    <3> HIDE DEF t
    <3> QED
      BY <1>0, <3>1, IsASeq
  <2> HIDE DEF t
  <2> QED
    BY <1>0, <2>1, <2>2, <2>3 DEF PathOK, SetsOnce
<1> QED
  BY <1>1, <1>2, <1>3

(* The settings of another path, up to the first of a control it has.      *)
LEMMA AddedPath ==
  ASSUME NEW s, PathOK(s), NEW sub, PathOK(sub)
  PROVE  PathOK(Route!AddPath(s, sub))
<1> DEFINE fits == {n \in 0 .. Len(sub) : \A i \in 1 .. n : ~ Route!Has(s, sub[i].ctl)}
           n == CHOOSE m \in fits : \A k \in fits : k <= m
<1>0. /\ s \in Seq(Setting) /\ Len(s) \in Nat /\ DOMAIN s = 1 .. Len(s)
      /\ sub \in Seq(Setting) /\ Len(sub) \in Nat
      /\ SetsOnce(s) /\ SetsOnce(sub)
  BY DEF PathOK
<1>1. fits \subseteq Nat /\ fits # {} /\ \A m \in fits : m <= Len(sub)
  <2>1. 0 \in fits
    BY <1>0
  <2> QED
    BY <1>0, <2>1
<1>2. \E m \in fits : \A k \in fits : k <= m
  <2> HIDE DEF fits
  <2> QED
    BY <1>0, <1>1, Greatest
<1>3. n \in fits
  <2> HIDE DEF fits
  <2> QED
    BY <1>2
<1>4. n \in 0 .. Len(sub) /\ \A i \in 1 .. n : ~ Route!Has(s, sub[i].ctl)
  <2> HIDE DEF n
  <2> QED
    BY <1>3
<1>5. Route!AddPath(s, sub) = s \o SubSeq(sub, 1, n)
  BY DEF Route!AddPath
<1> HIDE DEF n
<1> DEFINE u == SubSeq(sub, 1, n)
           t == s \o u
<1>6. u \in Seq(Setting) /\ Len(u) = n /\ \A i \in 1 .. n : u[i] = sub[i]
  <2>1. \A i \in 1 .. n : sub[i] \in Setting
    BY <1>0, <1>4
  <2> QED
    BY <1>0, <1>4, <2>1, SubSeqProperties
<1> HIDE DEF u
<1>7. /\ t \in Seq(Setting) /\ Len(t) = Len(s) + n
      /\ \A i \in 1 .. Len(s) + n : t[i] = IF i <= Len(s) THEN s[i] ELSE u[i - Len(s)]
  BY <1>0, <1>6, ConcatProperties
<1> HIDE DEF t
<1>8. ASSUME NEW i \in 1 .. Len(t)
      PROVE  \/ i \in 1 .. Len(s) /\ t[i] = s[i]
             \/ i - Len(s) \in 1 .. n /\ t[i] = sub[i - Len(s)]
  BY <1>0, <1>4, <1>6, <1>7
<1>9. ASSUME NEW i \in 1 .. Len(t), NEW j \in 1 .. Len(t), t[i].ctl = t[j].ctl
      PROVE  i = j
  <2>1. \A k \in 1 .. Len(s), m \in 1 .. n : s[k].ctl # sub[m].ctl
    BY <1>0, <1>4 DEF Route!Has
  <2>2. CASE i \in 1 .. Len(s) /\ t[i] = s[i] /\ j \in 1 .. Len(s) /\ t[j] = s[j]
    BY <1>0, <1>9, <2>2 DEF SetsOnce
  <2>3. CASE i - Len(s) \in 1 .. n /\ t[i] = sub[i - Len(s)]
             /\ j - Len(s) \in 1 .. n /\ t[j] = sub[j - Len(s)]
    <3>1. i - Len(s) \in 1 .. Len(sub) /\ j - Len(s) \in 1 .. Len(sub)
      BY <1>0, <1>4, <2>3
    <3>2. i - Len(s) = j - Len(s)
      BY <1>0, <1>9, <2>3, <3>1 DEF SetsOnce
    <3> QED
      BY <1>0, <1>7, <3>2
  <2> QED
    BY <1>8, <1>9, <2>1, <2>2, <2>3
<1> QED
  BY <1>5, <1>7, <1>9 DEF t, u, PathOK, SetsOnce

LEMMA NestingKeepsRoute ==
  ASSUME RouteInv, parsing \in Paths, Route!Tag, UNCHANGED <<new, parsing>>,
         path' = path \/ \E s : PathOK(s) /\ path' = [path EXCEPT ![parsing] = s]
  PROVE  RouteInv'
<1>1. /\ tags < MaxTags /\ tags' = tags + 1
      /\ UNCHANGED <<mixer, old, reset, active, clash, updated>>
  BY DEF Route!Tag, Route!history
<1>2. /\ new \in [Route!Supported -> Route!Settings] /\ tags \in 0 .. MaxTags
      /\ DOMAIN path \subseteq Paths /\ \A q \in DOMAIN path : PathOK(path[q])
      /\ parsing \in DOMAIN path
  BY DEF RouteInv, ValuesInv
<1>3. DOMAIN path' = DOMAIN path /\ \A q \in DOMAIN path : PathOK(path'[q])
  <2>1. CASE path' = path
    BY <1>2, <2>1
  <2>2. ASSUME NEW s, PathOK(s), path' = [path EXCEPT ![parsing] = s]
        PROVE  DOMAIN path' = DOMAIN path /\ \A q \in DOMAIN path : PathOK(path'[q])
    BY <1>2, <2>2
  <2> QED
    BY <2>1, <2>2
<1>4. tags' \in 0 .. MaxTags
  BY <1>1, <1>2, RouteConstants
<1> QED
  BY <1>1, <1>2, <1>3, <1>4, ParsingKeepsRoute

LEMMA NestedKeepRoute ==
  ASSUME RouteInv,
         \/ \E c, id : \E v \in 0 .. MaxValue : Route!NestedControl(c, id, v)
         \/ \E p \in Paths : Route!NestedPath(p)
  PROVE  RouteInv'
<1>1. parsing \in Paths => parsing \in DOMAIN path
  BY DEF RouteInv
<1>2. \A q \in DOMAIN path : PathOK(path[q])
  BY DEF RouteInv
<1>3. ASSUME NEW c, NEW id, NEW v \in 0 .. MaxValue, Route!NestedControl(c, id, v)
      PROVE  RouteInv'
  <2>1. /\ parsing \in Paths /\ Route!Tag /\ UNCHANGED <<new, parsing>>
        /\ path' = [path EXCEPT ![parsing] = Route!AddValue(path[parsing], c, id, v)]
    BY <1>3 DEF Route!NestedControl
  <2>2. PathOK(Route!AddValue(path[parsing], c, id, v))
    BY <1>1, <1>2, <2>1, AddedValue
  <2> QED
    BY <2>1, <2>2, NestingKeepsRoute
<1>4. ASSUME NEW p \in Paths, Route!NestedPath(p)
      PROVE  RouteInv'
  <2>1. /\ parsing \in Paths /\ Route!Tag /\ UNCHANGED <<new, parsing>>
        /\ path' = IF p \in DOMAIN path
                     THEN [path EXCEPT ![parsing] = Route!AddPath(path[parsing], path[p])] ELSE path
    BY <1>4 DEF Route!NestedPath
  <2>2. p \in DOMAIN path => PathOK(Route!AddPath(path[parsing], path[p]))
    BY <1>1, <1>2, <2>1, AddedPath
  <2> QED
    BY <2>1, <2>2, NestingKeepsRoute
<1> QED
  BY <1>3, <1>4

(* Writing what differs from what was written last.                        *)
LEMMA UpdateShows ==
  ASSUME ValuesInv, ShownInv, NEW cs \in SUBSET Route!Supported,
         new' \in [Route!Supported -> Route!Settings], Route!Update(cs)
  PROVE  /\ mixer' \in [Route!Supported -> Route!Settings]
         /\ old' \in [Route!Supported -> Route!Settings]
         /\ ShownInv'
         /\ \A c \in Route!Supported : Agree(c, mixer'[c], IF c \in cs THEN new'[c] ELSE mixer[c])
<1>1. /\ mixer \in [Route!Supported -> Route!Settings]
      /\ old \in [Route!Supported -> Route!Settings]
      /\ mixer' = [c \in Route!Supported |->
                     IF c \in Route!Changed(cs) THEN Route!Shown(c) ELSE mixer[c]]
      /\ old' = [c \in Route!Supported |-> IF c \in cs THEN new'[c] ELSE old[c]]
  BY DEF ValuesInv, Route!Update
<1>2. ASSUME NEW c \in Route!Supported
      PROVE  /\ mixer'[c] \in Route!Settings /\ old'[c] \in Route!Settings
             /\ Agree(c, old'[c], mixer'[c])
             /\ Agree(c, mixer'[c], IF c \in cs THEN new'[c] ELSE mixer[c])
  <2>1. /\ mixer[c] \in Route!Settings /\ old[c] \in Route!Settings /\ new'[c] \in Route!Settings
        /\ Agree(c, old[c], mixer[c])
    BY <1>1 DEF ShownInv
  <2>2. CASE c \in cs /\ old[c] # new'[c]
    <3>1. mixer'[c] = Route!Shown(c) /\ old'[c] = new'[c]
      BY <1>1, <2>2 DEF Route!Changed
    <3>2. CASE c \in Enums
      <4> DEFINE m == [mixer[c] EXCEPT ![0] = new'[c][0]]
      <4>1. mixer'[c] = m
        BY <3>1, <3>2 DEF Route!Shown
      <4>2. m \in Route!Settings /\ m[0] = new'[c][0]
        BY <2>1, RouteConstants DEF Route!Settings
      <4> HIDE DEF m
      <4> QED
        BY <2>1, <2>2, <3>1, <3>2, <4>1, <4>2 DEF Agree
    <3>3. CASE c \notin Enums
      BY <2>1, <2>2, <3>1, <3>3 DEF Agree, Route!Shown
    <3> QED
      BY <3>2, <3>3
  <2>3. CASE c \in cs /\ old[c] = new'[c]
    <3>1. mixer'[c] = mixer[c] /\ old'[c] = new'[c]
      BY <1>1, <2>3 DEF Route!Changed
    <3> QED
      BY <2>1, <2>3, <3>1 DEF Agree
  <2>4. CASE c \notin cs
    <3>1. mixer'[c] = mixer[c] /\ old'[c] = old[c]
      BY <1>1, <2>4 DEF Route!Changed
    <3> QED
      BY <2>1, <2>4, <3>1 DEF Agree
  <2> QED
    BY <2>2, <2>3, <2>4
<1>3. mixer' \in [Route!Supported -> Route!Settings] /\ old' \in [Route!Supported -> Route!Settings]
  BY <1>1, <1>2
<1> QED
  BY <1>2, <1>3 DEF ShownInv

(* What is applied and reset, and to what values.                          *)
LEMMA SettingsOfPaths ==
  ASSUME RouteInv, NEW p \in DOMAIN path
  PROVE  /\ Route!ControlsOf(p) \subseteq Route!Supported
         /\ \A c \in Route!ControlsOf(p) : Route!SettingOf(p, c) \in Route!Settings
<1>1. path[p] \in Seq(Setting) /\ DOMAIN path[p] = 1 .. Len(path[p])
  BY DEF RouteInv, PathOK
<1>2. \A i \in DOMAIN path[p] : path[p][i] \in Setting
  BY <1>1
<1>3. Route!ControlsOf(p) \subseteq Route!Supported
  BY <1>2 DEF Route!ControlsOf, Setting
<1>4. ASSUME NEW c \in Route!ControlsOf(p)
      PROVE  Route!SettingOf(p, c) \in Route!Settings
  <2> DEFINE i == CHOOSE i \in DOMAIN path[p] : path[p][i].ctl = c
  <2>1. \E k \in DOMAIN path[p] : path[p][k].ctl = c
    BY DEF Route!ControlsOf
  <2>2. i \in DOMAIN path[p]
    BY <2>1
  <2>3. Route!SettingOf(p, c) = path[p][i].value
    BY DEF Route!SettingOf
  <2> HIDE DEF i
  <2> QED
    BY <1>2, <2>2, <2>3 DEF Setting
<1> QED
  BY <1>3, <1>4

(* A control that only one active path has is as that path says.           *)
LEMMA WantedChanges ==
  ASSUME RouteInv, Route!Using, NEW p \in DOMAIN path, Route!Applied(p) \/ Route!ResetTo(p)
  PROVE  /\ new' \in [Route!Supported -> Route!Settings]
         /\ active' \subseteq DOMAIN path /\ clash' \subseteq Route!Supported
         /\ Route!RoutesAreIndependent'
<1>1. /\ parsing = "done" /\ UNCHANGED <<reset, path, parsing, tags>>
      /\ new \in [Route!Supported -> Route!Settings]
      /\ reset \in [Route!Supported -> Route!Settings]
      /\ active \subseteq DOMAIN path /\ clash \subseteq Route!Supported
  BY DEF Route!Using, RouteInv, ValuesInv
<1>2. \A q : Route!ControlsOf(q)' = Route!ControlsOf(q)
  BY <1>1 DEF Route!ControlsOf
<1>3. \A q, c : Route!SettingOf(q, c)' = Route!SettingOf(q, c)
  BY <1>1 DEF Route!SettingOf
<1>4. /\ clash' = clash \cup {c \in Route!ControlsOf(p) :
                                \E q \in active \ {p} : c \in Route!ControlsOf(q)}
      /\ \/ active' = active \cup {p} /\ Route!Applied(p)
         \/ active' = active \ {p} /\ Route!ResetTo(p)
  BY DEF Route!Applied, Route!ResetTo, Route!Forgotten, Route!Clashing
<1>5. active' \subseteq DOMAIN path /\ clash' \subseteq Route!Supported
  BY <1>1, <1>4, SettingsOfPaths
<1>6. new' \in [Route!Supported -> Route!Settings]
  <2>1. CASE Route!Applied(p)
    BY <1>1, <2>1, SettingsOfPaths DEF Route!Applied
  <2>2. CASE Route!ResetTo(p)
    BY <1>1, <2>2 DEF Route!ResetTo
  <2> QED
    BY <2>1, <2>2
<1>7. ASSUME NEW c \in Route!Supported \ clash'
      PROVE  IF {q \in active' : c \in Route!ControlsOf(q)} = {} THEN new'[c] = reset[c]
             ELSE \A q \in {r \in active' : c \in Route!ControlsOf(r)} :
                    new'[c] = Route!SettingOf(q, c)
  <2>1. c \in Route!Supported \ clash
    BY <1>4
  <2>2. IF {q \in active : c \in Route!ControlsOf(q)} = {} THEN new[c] = reset[c]
        ELSE \A q \in {r \in active : c \in Route!ControlsOf(r)} : new[c] = Route!SettingOf(q, c)
    BY <1>1, <2>1 DEF RouteInv, Route!RoutesAreIndependent
  <2>3. CASE c \in Route!ControlsOf(p)
    <3>1. \A q \in active \ {p} : c \notin Route!ControlsOf(q)
      BY <1>4, <2>3
    <3>2. CASE active' = active \cup {p} /\ Route!Applied(p)
      <4>1. new'[c] = Route!SettingOf(p, c)
        BY <2>3, <3>2 DEF Route!Applied
      <4>2. {q \in active' : c \in Route!ControlsOf(q)} = {p}
        BY <2>3, <3>1, <3>2
      <4> QED
        BY <4>1, <4>2
    <3>3. CASE active' = active \ {p} /\ Route!ResetTo(p)
      <4>1. new'[c] = reset[c]
        BY <2>3, <3>3 DEF Route!ResetTo
      <4>2. {q \in active' : c \in Route!ControlsOf(q)} = {}
        BY <3>1, <3>3
      <4> QED
        BY <4>1, <4>2
    <3> QED
      BY <1>4, <3>2, <3>3
  <2>4. CASE c \notin Route!ControlsOf(p)
    <3>1. new'[c] = new[c]
      BY <2>4 DEF Route!Applied, Route!ResetTo
    <3>2. {q \in active' : c \in Route!ControlsOf(q)} = {q \in active : c \in Route!ControlsOf(q)}
      BY <1>4, <2>4
    <3> QED
      BY <2>2, <3>1, <3>2
  <2> QED
    BY <2>3, <2>4
<1>8. Route!RoutesAreIndependent'
  BY <1>1, <1>2, <1>3, <1>7 DEF Route!RoutesAreIndependent
<1> QED
  BY <1>5, <1>6, <1>8

LEMMA UsersKeepRoute ==
  ASSUME RouteInv, NEW p \in Paths,
         \/ Route!ApplyPath(p) \/ Route!ResetPath(p)
         \/ Route!ApplyAndUpdatePath(p) \/ Route!ResetAndUpdatePath(p)
  PROVE  RouteInv'
<1>1. /\ Route!Using /\ p \in DOMAIN path /\ (Route!Applied(p) \/ Route!ResetTo(p))
      /\ UNCHANGED <<mixer, old>> \/ Route!Update(Route!ControlsOf(p))
      /\ updated' = {} \/ updated' = Route!ControlsOf(p)
  BY DEF Route!ApplyPath, Route!ResetPath, Route!ApplyAndUpdatePath, Route!ResetAndUpdatePath,
    Route!Call
<1>2. /\ new' \in [Route!Supported -> Route!Settings]
      /\ active' \subseteq DOMAIN path /\ clash' \subseteq Route!Supported
      /\ Route!RoutesAreIndependent'
  BY <1>1, WantedChanges
<1>3. /\ parsing' = "done" /\ UNCHANGED <<reset, path, parsing, tags>>
  BY <1>1 DEF Route!Using
<1>4. ValuesInv' /\ ShownInv'
  <2>1. CASE UNCHANGED <<mixer, old>>
    BY <1>2, <1>3, <2>1 DEF RouteInv, ValuesInv, ShownInv
  <2>2. CASE Route!Update(Route!ControlsOf(p))
    <3>1. Route!ControlsOf(p) \in SUBSET Route!Supported
      BY <1>1, SettingsOfPaths
    <3>2. ValuesInv /\ ShownInv
      BY DEF RouteInv
    <3>3. /\ mixer' \in [Route!Supported -> Route!Settings]
          /\ old' \in [Route!Supported -> Route!Settings]
          /\ ShownInv'
      BY <1>2, <2>2, <3>1, <3>2, UpdateShows
    <3> QED
      BY <1>2, <1>3, <3>2, <3>3 DEF ValuesInv
  <2> QED
    BY <1>1, <2>1, <2>2
<1>5. /\ DOMAIN path \subseteq Paths /\ \A q \in DOMAIN path : PathOK(path[q])
      /\ parsing \in Paths \cup {"top", "done"} /\ tags \in 0 .. MaxTags
      /\ parsing \in Paths => parsing \in DOMAIN path
  BY DEF RouteInv
<1>6. updated' \subseteq Route!Supported
  BY <1>1, SettingsOfPaths
<1> QED
  BY <1>2, <1>3, <1>4, <1>5, <1>6 DEF RouteInv

(* Updates of all that has changed, and the reset of everything.           *)
LEMMA WholesKeepRoute ==
  ASSUME RouteInv, Route!Parsed \/ Route!UpdateMixer \/ Route!Reset
  PROVE  RouteInv'
<1>1. /\ ValuesInv /\ ShownInv
      /\ DOMAIN path \subseteq Paths /\ \A p \in DOMAIN path : PathOK(path[p])
      /\ parsing \in Paths \cup {"top", "done"} /\ tags \in 0 .. MaxTags
      /\ parsing \in Paths => parsing \in DOMAIN path
      /\ active \subseteq DOMAIN path /\ clash \subseteq Route!Supported
      /\ parsing # "done" => active = {} /\ updated = {}
      /\ Route!RoutesAreIndependent
      /\ "done" \notin Paths
  BY RouteConstants DEF RouteInv
<1>2. /\ new \in [Route!Supported -> Route!Settings]
      /\ reset \in [Route!Supported -> Route!Settings]
  BY <1>1 DEF ValuesInv
<1>3. ASSUME new' \in [Route!Supported -> Route!Settings], Route!Update(Route!Supported),
             reset' \in [Route!Supported -> Route!Settings]
      PROVE  ValuesInv' /\ ShownInv'
  <2>1. /\ mixer' \in [Route!Supported -> Route!Settings]
        /\ old' \in [Route!Supported -> Route!Settings]
        /\ ShownInv'
    BY <1>1, <1>3, UpdateShows
  <2> QED
    BY <1>3, <2>1 DEF ValuesInv
<1>4. CASE Route!Parsed
  <2>1. /\ parsing = "top" /\ parsing' = "done" /\ new' = new /\ reset' = new
        /\ Route!Update(Route!Supported) /\ UNCHANGED <<path, tags, active, clash>>
        /\ updated' = Route!Supported
    BY <1>4 DEF Route!Parsed, Route!history
  <2>2. ValuesInv' /\ ShownInv'
    BY <1>2, <1>3, <2>1
  <2>3. active' = {} /\ \A c : new'[c] = reset'[c]
    BY <1>1, <2>1
  <2>4. Route!RoutesAreIndependent'
    BY <2>3 DEF Route!RoutesAreIndependent
  <2> QED
    BY <1>1, <2>1, <2>2, <2>3, <2>4 DEF RouteInv
<1>5. CASE Route!UpdateMixer
  <2>1. /\ UNCHANGED <<new, reset, path, parsing, tags, active, clash>>
        /\ Route!Update(Route!Supported) /\ updated' = Route!Supported
        /\ parsing' = "done"
    BY <1>5 DEF Route!UpdateMixer, Route!Using, Route!history
  <2>2. ValuesInv' /\ ShownInv'
    BY <1>2, <1>3, <2>1
  <2>3. Route!RoutesAreIndependent'
    BY <1>1, <2>1 DEF Route!RoutesAreIndependent, Route!ControlsOf, Route!SettingOf
  <2> QED
    BY <1>1, <2>1, <2>2, <2>3 DEF RouteInv
<1>6. CASE Route!Reset
  <2>1. /\ UNCHANGED <<reset, path, parsing, tags, mixer, old>>
        /\ parsing = "done" /\ new' = reset /\ active' = {} /\ clash' = {} /\ updated' = {}
    BY <1>6 DEF Route!Reset, Route!Using
  <2>2. ValuesInv' /\ ShownInv'
    BY <1>1, <1>2, <2>1 DEF ValuesInv, ShownInv
  <2>3. Route!RoutesAreIndependent'
    BY <2>1 DEF Route!RoutesAreIndependent
  <2> QED
    BY <1>1, <2>1, <2>2, <2>3 DEF RouteInv
<1> QED
  BY <1>4, <1>5, <1>6

LEMMA RouteStep ==
  ASSUME RouteInv, [Route!Next]_routeVars
  PROVE  RouteInv'
<1>1. CASE UNCHANGED routeVars
  BY <1>1, RouteSame
<1>2. CASE Route!Parse
  <2>1. ASSUME NEW c \in Route!Supported \cup Others, NEW id \in {Route!All} \cup 0 .. NumValues,
               NEW v \in 0 .. MaxValue, Route!TopControl(c, id, v) \/ Route!NestedControl(c, id, v)
        PROVE  RouteInv'
    BY <2>1, ControlsKeepRoute, NestedKeepRoute
  <2>2. ASSUME NEW p \in Paths, Route!OpenPath(p) \/ Route!NestedPath(p)
        PROVE  RouteInv'
    BY <2>2, PathsAreOpened, NestedKeepRoute
  <2>3. CASE Route!ClosePath \/ Route!Parsed
    BY <2>3, PathsAreClosed, WholesKeepRoute
  <2> QED
    BY <1>2, <2>1, <2>2, <2>3 DEF Route!Parse
<1>3. CASE Route!Use
  BY <1>3, UsersKeepRoute, WholesKeepRoute DEF Route!Use
<1> QED
  BY <1>1, <1>2, <1>3 DEF Route!Next

LEMMA RoutesAreSound ==
  ASSUME RouteInv
  PROVE  Route!TypeOK /\ Route!RoutesAreIndependent
<1>1. ASSUME NEW p \in DOMAIN path
      PROVE  /\ path[p] \in Seq(Setting)
             /\ Route!Cardinality(Route!ControlsOf(p)) = Len(path[p])
  <2> DEFINE s == path[p]
             f == [i \in 1 .. Len(s) |-> s[i].ctl]
  <2>1. s \in Seq(Setting) /\ Len(s) \in Nat /\ DOMAIN s = 1 .. Len(s) /\ SetsOnce(s)
    BY DEF RouteInv, PathOK
  <2>2. Route!ControlsOf(p) = {s[i].ctl : i \in 1 .. Len(s)}
    BY <2>1 DEF Route!ControlsOf
  <2>3. f \in Bijection(1 .. Len(s), Route!ControlsOf(p))
    <3>1. f \in [1 .. Len(s) -> Route!ControlsOf(p)]
      BY <2>2
    <3>2. \A i, j \in 1 .. Len(s) : i # j => f[i] # f[j]
      BY <2>1 DEF SetsOnce
    <3>3. \A c \in Route!ControlsOf(p) : \E i \in 1 .. Len(s) : f[i] = c
      BY <2>2
    <3> HIDE DEF f
    <3> QED
      BY <3>1, <3>2, <3>3, Fun_IsBij
  <2>4. ExistsBijection(1 .. Len(s), Route!ControlsOf(p))
    BY <2>3 DEF ExistsBijection
  <2>5. IsFiniteSet(1 .. Len(s)) /\ Cardinality(1 .. Len(s)) = Len(s)
    <3>1. \A n \in Nat : IsFiniteSet(1 .. n) /\ Cardinality(1 .. n) = n
      BY FS_Interval
    <3> QED
      BY <2>1, <3>1
  <2>6. Cardinality(Route!ControlsOf(p)) = Len(s)
    BY <2>4, <2>5, FS_Bijection
  <2> QED
    BY <2>1, <2>6 DEF Route!Cardinality, Cardinality
<1>2. Setting = [ctl : Route!Supported, value : Route!Settings]
  BY DEF Setting
<1>3. Route!Seq(Setting) = Seq(Setting)
  OBVIOUS
<1> QED
  BY <1>1, <1>2, <1>3 DEF RouteInv, ValuesInv, Route!TypeOK

(* Each step, as the mixer's users see it.                                 *)
Wanted == Route!Seen(new)
ShownOf == Route!Seen(mixer)
Routes == {Route!Supported} \cup {Route!ControlsOf(p) : p \in DOMAIN path}

LEMMA SeenIsASetting ==
  ASSUME NEW v \in [Route!Supported -> Route!Settings]
  PROVE  Route!Seen(v) \in [Route!Supported -> Route!Settings]
<1>1. ASSUME NEW c \in Route!Supported
      PROVE  Route!Seen(v)[c] \in Route!Settings
  <2>1. v[c] \in [Route!Ids -> 0 .. MaxValue] /\ 0 \in Route!Ids
    BY RouteConstants DEF Route!Settings
  <2>2. Route!Seen(v)[c] = IF c \in Enums THEN [i \in Route!Ids |-> v[c][0]] ELSE v[c]
    BY DEF Route!Seen
  <2> QED
    BY <2>1, <2>2 DEF Route!Settings
<1> QED
  BY <1>1 DEF Route!Seen

(* Two values are seen alike if they agree.                                *)
LEMMA SeenAlike ==
  ASSUME NEW u, NEW v, NEW c \in Route!Supported, Agree(c, u[c], v[c])
  PROVE  Route!Seen(u)[c] = Route!Seen(v)[c]
  BY DEF Agree, Route!Seen

LEMMA MixerBegins ==
  ASSUME LibrariesInit
  PROVE  Route!Mixer!Init
<1>1. RouteInv
  BY RouteBegins
<1>2. new = old /\ updated = {}
  BY DEF LibrariesInit, Route!Init
<1>3. \A c \in Route!Supported : Route!Seen(mixer)[c] = Route!Seen(new)[c]
  <2> SUFFICES ASSUME NEW c \in Route!Supported
               PROVE  Route!Seen(mixer)[c] = Route!Seen(new)[c]
    OBVIOUS
  <2>1. Agree(c, mixer[c], new[c])
    BY <1>1, <1>2 DEF RouteInv, ShownInv, Agree
  <2> QED
    BY <2>1, SeenAlike
<1>4. Route!Seen(new) \in [Route!Supported -> Route!Settings]
  BY <1>1, SeenIsASetting DEF RouteInv, ValuesInv
<1>5. Route!Seen(mixer) = Route!Seen(new)
  BY <1>3 DEF Route!Seen
<1> QED
  BY <1>2, <1>4, <1>5 DEF Route!Mixer!Init

LEMMA MixerShows ==
  ASSUME RouteInv, NEW cs \in Routes, cs \subseteq Route!Supported,
         new' \in [Route!Supported -> Route!Settings], Route!Update(cs), UNCHANGED path,
         updated' = cs, \A c \in Route!Supported \ cs : new'[c] = new[c]
  PROVE  Route!Mixer!Next
<1>1. \A c \in Route!Supported : Agree(c, mixer'[c], IF c \in cs THEN new'[c] ELSE mixer[c])
  <2>1. ValuesInv /\ ShownInv
    BY DEF RouteInv
  <2> QED
    BY <2>1, UpdateShows
<1>2. ASSUME NEW c \in Route!Supported
      PROVE  Route!Seen(mixer')[c] = IF c \in cs THEN Route!Seen(new')[c] ELSE Route!Seen(mixer)[c]
  <2>1. CASE c \in cs
    <3>1. Agree(c, mixer'[c], new'[c])
      BY <1>1, <2>1
    <3> QED
      BY <2>1, <3>1, SeenAlike
  <2>2. CASE c \notin cs
    <3>1. Agree(c, mixer'[c], mixer[c])
      BY <1>1, <2>2
    <3> QED
      BY <2>2, <3>1, SeenAlike
  <2> QED
    BY <2>1, <2>2
<1>3. Route!Seen(mixer') = [c \in Route!Supported |->
                              IF c \in cs THEN Route!Seen(new')[c] ELSE Route!Seen(mixer)[c]]
  BY <1>2 DEF Route!Seen
<1>4. Route!Seen(new') \in [Route!Supported -> Route!Settings]
  BY SeenIsASetting
<1>5. \A p : Route!ControlsOf(p)' = Route!ControlsOf(p)
  BY DEF Route!ControlsOf
<1>6. Routes' = Routes
  BY <1>5 DEF Routes
<1>7. \A c \in Route!Supported \ cs : Route!Seen(new')[c] = Route!Seen(new)[c]
  BY SeenAlike DEF Agree
<1>8. Route!Mixer!Show(cs)
  BY <1>3, <1>6, <1>7 DEF Route!Mixer!Show, Routes
<1> QED
  BY <1>4, <1>8 DEF Route!Mixer!Next, Routes

LEMMA MixerStep ==
  ASSUME RouteInv, RouteInv', [Route!Next]_routeVars
  PROVE  [Route!Mixer!Next]_<<Wanted, ShownOf, Routes, updated>>
<1>1. new' \in [Route!Supported -> Route!Settings]
  BY DEF RouteInv, ValuesInv
<1>2. ASSUME mixer' = mixer, updated' = {}
      PROVE  Route!Mixer!Next
  <2>1. Route!Seen(new') \in [Route!Supported -> Route!Settings]
    BY <1>1, SeenIsASetting
  <2> QED
    BY <1>2, <2>1 DEF Route!Mixer!Next, Route!Mixer!Want
<1>3. ASSUME Route!Update(Route!Supported), UNCHANGED path, updated' = Route!Supported
      PROVE  Route!Mixer!Next
  <2>1. Route!Supported \in Routes
    BY DEF Routes
  <2> QED
    BY <1>1, <1>3, <2>1, MixerShows
<1>4. ASSUME NEW p \in DOMAIN path, Route!Update(Route!ControlsOf(p)), UNCHANGED path,
             updated' = Route!ControlsOf(p), Route!Applied(p) \/ Route!ResetTo(p)
      PROVE  Route!Mixer!Next
  <2>1. Route!ControlsOf(p) \in Routes
    BY DEF Routes
  <2>2. \A c \in Route!Supported \ Route!ControlsOf(p) : new'[c] = new[c]
    BY <1>4 DEF Route!Applied, Route!ResetTo
  <2> QED
    BY <1>1, <1>4, <2>1, <2>2, MixerShows, SettingsOfPaths
<1>5. CASE UNCHANGED routeVars
  <2>1. UNCHANGED <<mixer, new, path, updated>>
    BY <1>5 DEF routeVars
  <2>2. Routes' = Routes
    BY <2>1 DEF Routes, Route!ControlsOf
  <2> QED
    BY <2>1, <2>2 DEF Wanted, ShownOf, Route!Seen
<1>6. CASE Route!Parse
  <2>1. \/ mixer' = mixer /\ updated' = updated /\ parsing # "done"
        \/ Route!Parsed
    BY <1>6, RouteConstants DEF Route!Parse, Route!TopControl, Route!NestedControl, Route!OpenPath,
      Route!NestedPath, Route!ClosePath, Route!Tag
  <2>2. parsing # "done" => updated = {}
    BY DEF RouteInv
  <2> QED
    BY <1>2, <1>3, <2>1, <2>2 DEF Route!Parsed
<1>7. CASE Route!Use
  <2>1. ASSUME NEW p \in Paths, Route!ApplyPath(p) \/ Route!ResetPath(p)
        PROVE  Route!Mixer!Next
    BY <1>2, <2>1 DEF Route!ApplyPath, Route!ResetPath, Route!Call
  <2>2. ASSUME NEW p \in Paths, Route!ApplyAndUpdatePath(p) \/ Route!ResetAndUpdatePath(p)
        PROVE  Route!Mixer!Next
    BY <1>4, <2>2 DEF Route!ApplyAndUpdatePath, Route!ResetAndUpdatePath, Route!Call, Route!Using
  <2>3. CASE Route!UpdateMixer
    BY <1>3, <2>3 DEF Route!UpdateMixer, Route!Using
  <2>4. CASE Route!Reset
    BY <1>2, <2>4 DEF Route!Reset
  <2> QED
    BY <1>7, <2>1, <2>2, <2>3, <2>4 DEF Route!Use
<1> QED
  BY <1>5, <1>6, <1>7 DEF Route!Next

-----------------------------------------------------------------------------
(* Theorems *)

LibraryVars ==
  <<vars, routeVars, parcelVars, echoVars, alsaVars, ioVars, windowVars, bufferVars, used>>

(* What one library does is nothing to the others.                         *)
LEMMA EachIsAlone ==
  ASSUME [LibrariesNext]_LibraryVars
  PROVE  /\ [Window!Next]_windowVars /\ [Graphics!Next]_bufferVars
         /\ [Echo!Next]_echoVars /\ [Route!Next]_routeVars
  BY DEF LibrariesNext, LibraryVars, OfFifo, OfRoute, OfParcel, OfEcho, OfAlsa, OfManager, OfWindow,
    OfGraphics

LEMMA FifoIsAlone == [LibrariesNext]_LibraryVars => [Next]_vars
  BY DEF LibrariesNext, LibraryVars, OfFifo, OfRoute, OfParcel, OfEcho, OfAlsa, OfManager,
    OfWindow, OfGraphics

(* fifo.c, for every size of the ring and width of its indices and however *)
(* the writer's and the reader's steps interleave: its assertions hold, no *)
(* slot is the reader's and the writer's at once, and the writer overwrites*)
(* no frame that has not been read.  The one exception is a ring of 2^31   *)
(* frames: audio_utils_fifo_diff() takes a full one's difference, which is *)
(* then INT32_MIN, for a negative one.                                     *)
THEOREM FramesAreExclusiveAlways ==
  FrameCount # Wrap \div 2 => (LibrariesSpec => []FramesAreExclusive)
<1>1. SUFFICES ASSUME FrameCount # Wrap \div 2
               PROVE  LibrariesSpec => []FramesAreExclusive
  OBVIOUS
<1>2. LibrariesInit => FifoInv
  BY FifoBegins DEF LibrariesInit
<1>3. FifoInv /\ [LibrariesNext]_LibraryVars => FifoInv'
  BY <1>1, FifoIsAlone, FifoStep
<1>4. FifoInv => FramesAreExclusive
  BY <1>1, FifoTypes, FifoIndices, FifoSlots DEF FramesAreExclusive
<1> QED
  BY <1>2, <1>3, <1>4, PTL DEF LibrariesSpec, LibraryVars

(* fifo.h's promise: what is written is read in order, once and untorn, and*)
(* the ring never has more than FrameCount frames.                         *)
THEOREM IsAFrameQueueAlways ==
  FrameCount # Wrap \div 2 => (LibrariesSpec => IsAFrameQueue)
<1>1. SUFFICES ASSUME FrameCount # Wrap \div 2
               PROVE  LibrariesSpec => IsAFrameQueue
  OBVIOUS
<1>2. LibrariesInit => FifoInv /\ Abstract!Init
  BY <1>1, FifoBegins, AbstractBegins DEF LibrariesInit
<1>3. FifoInv /\ [LibrariesNext]_LibraryVars => FifoInv'
  BY <1>1, FifoIsAlone, FifoStep
<1>4. FifoInv /\ FifoInv' /\ [LibrariesNext]_LibraryVars
        => [Abstract!Next]_<<Queue, written, delivered>>
  BY <1>1, FifoIsAlone, AbstractStep
<1> QED
  BY <1>2, <1>3, <1>4, PTL DEF LibrariesSpec, LibraryVars, IsAFrameQueue, Abstract!Spec,
    Abstract!vars

(* Whatever its clients do, and however calls on the objects interleave, a *)
(* window's buffer is one client's and none is drawn while it is shown, as *)
(* long as one client dequeues at a time; a graphic buffer's handle is one *)
(* object's, gives access to what the object says and is listed as long as *)
(* the device gives it: FramebufferNativeWindow.cpp, GraphicBuffer.cpp and *)
(* GraphicBufferAllocator.cpp.                                             *)
THEOREM BuffersAreExclusiveAlways == LibrariesSpec => []BuffersAreExclusive
<1>1. LibrariesInit => WindowInv /\ GraphicsInv
  BY WindowBegins, GraphicsBegins
<1>2. WindowInv /\ GraphicsInv /\ [LibrariesNext]_LibraryVars => WindowInv' /\ GraphicsInv'
  BY EachIsAlone, WindowStep, GraphicsStep
<1>3. WindowInv /\ GraphicsInv => BuffersAreExclusive
  BY WindowIsExclusive, GraphicsAreSound DEF BuffersAreExclusive
<1> QED
  BY <1>1, <1>2, <1>3, PTL DEF LibrariesSpec, LibraryVars

(* However reads, waits, corrections of the delay, writes and stops        *)
(* interleave, the echo reference has the newest frames that were written, *)
(* in order, and hands out each of them once: echo_reference.c.            *)
THEOREM FramesAreFreshAlways == LibrariesSpec => []FramesAreFresh
<1>1. LibrariesInit => EchoInv
  BY EchoBegins
<1>2. EchoInv /\ [LibrariesNext]_LibraryVars => EchoInv'
  BY EachIsAlone, EchoStep
<1>3. EchoInv => FramesAreFresh
  BY EchoIsFresh DEF FramesAreFresh
<1> QED
  BY <1>1, <1>2, <1>3, PTL DEF LibrariesSpec, LibraryVars

(* Whatever the file says and whatever is applied and reset after it, in   *)
(* any order: what is to be shown of a control is what the active path     *)
(* that has it says, and its initial value if none has; and a path sets a  *)
(* control once, without which the loops of audio_route.c would not end.   *)
THEOREM RoutesAreIndependentAlways == LibrariesSpec => []RoutesAreIndependent
<1>1. LibrariesInit => RouteInv
  BY RouteBegins
<1>2. RouteInv /\ [LibrariesNext]_LibraryVars => RouteInv'
  BY EachIsAlone, RouteStep
<1>3. RouteInv => RoutesAreIndependent
  BY RoutesAreSound DEF RoutesAreIndependent
<1> QED
  BY <1>1, <1>2, <1>3, PTL DEF LibrariesSpec, LibraryVars

(* Though audio_route.c writes only what differs from what it wrote last,  *)
(* when an update of a path, or of all controls, ends, the mixer shows what*)
(* is wanted of each control the update was for, and no other control and  *)
(* no other call has changed it: it implements the mixer its users see.    *)
THEOREM UpdatesShowAlways == LibrariesSpec => UpdatesShowWhatIsWanted
<1>1. LibrariesInit => RouteInv /\ Route!Mixer!Init
  BY RouteBegins, MixerBegins
<1>2. RouteInv /\ [LibrariesNext]_LibraryVars => RouteInv'
  BY EachIsAlone, RouteStep
<1>3. RouteInv /\ RouteInv' /\ [LibrariesNext]_LibraryVars
        => [Route!Mixer!Next]_<<Wanted, ShownOf, Routes, updated>>
  BY EachIsAlone, MixerStep
<1> QED
  BY <1>1, <1>2, <1>3, PTL DEF LibrariesSpec, LibraryVars, UpdatesShowWhatIsWanted,
    Route!UpdatesShowWhatIsWanted, Route!Mixer!Spec, Wanted, ShownOf, Routes

=============================================================================
