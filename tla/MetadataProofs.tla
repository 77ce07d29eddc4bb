--------------------------- MODULE MetadataProofs ---------------------------
(***************************************************************************)
(* Proofs about the buffers of camera_metadata.c and the objects that own  *)
(* them (CameraMetadata), for any objects, tags and sizes of values.       *)
(*                                                                         *)
(* The argument: the entries tile the area of a buffer, each of its cells  *)
(* one entry's.  An appended buffer's entries move behind the cells that   *)
(* are there; an entry that is deleted, or updated to another size, is     *)
(* taken out of the tiling and the gap closed, and what is new gets the    *)
(* cells at the end.  That find() gives a place of the buffer, whatever    *)
(* its entries are, needs that the binary search ends: its recursion has a *)
(* fixed point, or there would be a least number of places for which it    *)
(* has none.                                                               *)
(***************************************************************************)
EXTENDS CameraMetadata, CountingLemmas

-----------------------------------------------------------------------------
(* The entries at the places D own the first n cells of an area, each cell *)
(* one of them.  Deleting and updating take a place out first and then     *)
(* close the gap, or put the place back with new cells at the end.         *)

Entry == [tag : Tags, count : Nat \ {0}, data : Nat]
Owns(e, k) == e.data < k /\ k <= e.data + CellsOf(e)
Tiles(es, D, n) ==
  /\ \A i \in D, k \in Nat : Owns(es[i], k) => k <= n
  /\ \A k \in 1 .. n : \E i \in D : Owns(es[i], k)
  /\ \A i, j \in D, k \in Nat : Owns(es[i], k) /\ Owns(es[j], k) => i = j

MetadataSizes == Tags \subseteq Nat /\ MinCount \in Nat /\ MinCount > 0 /\ Careless = FALSE

LEMMA CellsAreNat ==
  ASSUME NEW tag, NEW count \in Nat
  PROVE  Cells(tag, count) \in Nat
<1>1. SizeOfType(tag) = 4 \/ SizeOfType(tag) = 8
  BY DEF SizeOfType
<1>2. PICK s \in Nat : s = count * SizeOfType(tag)
  BY <1>1
<1> QED
  BY <1>2 DEF Cells

LEMMA CellsOfIsNat ==
  ASSUME NEW e \in Entry
  PROVE  CellsOf(e) \in Nat /\ e.data \in Nat
  BY CellsAreNat DEF CellsOf, Entry

(* Whose places are, but for their order, the same.                        *)
LEMMA TilesMoved ==
  ASSUME NEW es, NEW D, NEW n \in Nat, NEW C, NEW p \in [C -> D],
         \A i \in D : \E j \in C : p[j] = i, \A i, j \in C : p[i] = p[j] => i = j,
         Tiles(es, D, n), NEW fs, \A j \in C, k \in Nat : Owns(fs[j], k) <=> Owns(es[p[j]], k)
  PROVE  Tiles(fs, C, n)
  BY DEF Tiles

(* A place that owns nothing may be left out, and put in.                  *)
LEMMA TilesBut ==
  ASSUME NEW es, NEW D, NEW n \in Nat, NEW i \in D, Tiles(es, D, n), \A k \in Nat : ~Owns(es[i], k)
  PROVE  Tiles(es, D \ {i}, n)
  BY DEF Tiles

(* A place whose cells are the n next ones.                                *)
LEMMA TilesWith ==
  ASSUME NEW es, NEW D, NEW n \in Nat, NEW i \in D, NEW m \in Nat, NEW fs,
         Tiles(es, D \ {i}, n), \A j \in D \ {i}, k \in Nat : Owns(fs[j], k) <=> Owns(es[j], k),
         \A k \in Nat : Owns(fs[i], k) <=> n < k /\ k <= n + m
  PROVE  Tiles(fs, D, n + m)
<1>1. \A j \in D, k \in Nat : Owns(fs[j], k) => k <= n + m
  BY DEF Tiles
<1>2. ASSUME NEW k \in 1 .. n + m PROVE \E j \in D : Owns(fs[j], k)
  <2>1. CASE k <= n
    <3>1. k \in 1 .. n
      BY <2>1
    <3> QED
      BY <3>1 DEF Tiles
  <2>2. CASE ~(k <= n)
    BY <2>2
  <2> QED
    BY <2>1, <2>2
<1>3. ASSUME NEW j \in D, NEW l \in D, NEW k \in Nat, Owns(fs[j], k), Owns(fs[l], k) PROVE j = l
  BY <1>3 DEF Tiles
<1> QED
  BY <1>1, <1>2, <1>3 DEF Tiles

(* CutOut() of the cells of place i: what is done to the others.           *)
LEMMA ShutOne ==
  ASSUME NEW e \in Entry, NEW o \in Nat, NEW c \in Nat
  PROVE  /\ Shut(e, o, c).tag = e.tag
         /\ CellsOf(e) = 0 \/ e.data <= o => Shut(e, o, c) = e
         /\ CellsOf(e) > 0 /\ e.data > o /\ e.data >= o + c =>
              /\ Shut(e, o, c) \in Entry /\ Shut(e, o, c).data = e.data - c
              /\ CellsOf(Shut(e, o, c)) = CellsOf(e)
<1>1. CellsOf(e) \in Nat /\ e.data \in Nat /\ e \in Entry
  BY CellsOfIsNat
<1>2. CASE CellsOf(e) = 0 \/ e.data <= o
  <2>1. ~(CellsOf(e) > 0 /\ e.data > o)
    BY <1>1, <1>2
  <2>2. Shut(e, o, c) = e
    BY <2>1 DEF Shut
  <2> QED
    BY <1>1, <1>2, <2>2
<1>3. CASE ~(CellsOf(e) = 0 \/ e.data <= o)
  <2> DEFINE x == e.data - c
             f == [e EXCEPT !.data = x]
  <2>1. CellsOf(e) > 0 /\ e.data > o
    BY <1>1, <1>3
  <2>2. Shut(e, o, c) = f
    BY <2>1 DEF Shut
  <2> HIDE DEF x
  <2>3. f.tag = e.tag /\ f.count = e.count /\ f.data = x /\ (x \in Nat => f \in Entry)
    BY DEF Entry
  <2> HIDE DEF f
  <2>4. e.data >= o + c => x \in Nat
    BY <1>1 DEF x
  <2>5. CellsOf(f) = CellsOf(e)
    BY <2>3 DEF CellsOf
  <2> QED
    BY <1>3, <2>2, <2>3, <2>4, <2>5 DEF x
<1> QED
  BY <1>2, <1>3

Cuts(es, D, n, i, o, c, fs) ==
  /\ i \in D /\ n \in Nat /\ Tiles(es, D, n) /\ (\A j \in D : es[j] \in Entry)
  /\ o \in Nat /\ c \in Nat /\ c > 0 /\ CellsOf(es[i]) = c /\ es[i].data = o
  /\ \A j \in D : fs[j] = Shut(es[j], o, c)

LEMMA TilesCut ==
  ASSUME NEW es, NEW D, NEW n, NEW i, NEW o, NEW c, NEW fs, Cuts(es, D, n, i, o, c, fs)
  PROVE  /\ Tiles(fs, D \ {i}, n - c) /\ n - c \in Nat
         /\ \A j \in D : fs[j] \in Entry
<1>0. /\ i \in D /\ n \in Nat /\ Tiles(es, D, n) /\ (\A j \in D : es[j] \in Entry)
      /\ o \in Nat /\ c \in Nat /\ c > 0 /\ CellsOf(es[i]) = c /\ es[i].data = o
      /\ \A j \in D : fs[j] = Shut(es[j], o, c)
  BY DEF Cuts
<1> USE <1>0
<1>1. o + c <= n /\ \A k \in Nat : Owns(es[i], k) <=> o < k /\ k <= o + c
  <2>1. Owns(es[i], o + c) /\ o + c \in Nat
    BY DEF Owns
  <2> QED
    BY <2>1 DEF Tiles, Owns
<1>2. ASSUME NEW j \in D \ {i}
      PROVE  /\ fs[j] \in Entry
             /\ \A k \in Nat : Owns(fs[j], k) <=>
                  (k <= o /\ Owns(es[j], k)) \/ (k > o /\ Owns(es[j], k + c))
  <2>1. PICK d \in Nat, m \in Nat : d = es[j].data /\ m = CellsOf(es[j])
    BY CellsOfIsNat
  <2>2. CASE m = 0
    <3>0. CellsOf(es[j]) = 0 /\ es[j] \in Entry /\ fs[j] = Shut(es[j], o, c)
      BY <2>1, <2>2
    <3>1. fs[j] = es[j]
      BY <3>0, ShutOne
    <3>2. \A k \in Nat : k + c \in Nat /\ ~Owns(es[j], k)
      BY <2>1, <2>2 DEF Owns
    <3> QED
      BY <3>1, <3>2
  <2>3. CASE m > 0 /\ d > o
    <3>1. d >= o + c
      <4>1. SUFFICES ASSUME d < o + c PROVE FALSE
        OBVIOUS
      <4>2. d + 1 \in Nat /\ Owns(es[i], d + 1) /\ Owns(es[j], d + 1)
        BY <1>1, <2>1, <2>3, <4>1 DEF Owns
      <4> QED
        BY <4>2 DEF Tiles
    <3>2. fs[j] \in Entry /\ fs[j].data = d - c /\ CellsOf(fs[j]) = m
      BY <2>1, <2>3, <3>1, ShutOne
    <3> QED
      BY <2>1, <2>3, <3>1, <3>2 DEF Owns
  <2>4. CASE m > 0 /\ ~(d > o)
    <3>1. d + m <= o
      <4>1. SUFFICES ASSUME d + m > o PROVE FALSE
        BY <2>1
      <4>2. o + 1 \in Nat /\ Owns(es[i], o + 1) /\ Owns(es[j], o + 1)
        BY <1>1, <2>1, <2>4, <4>1 DEF Owns
      <4> QED
        BY <4>2 DEF Tiles
    <3>2. fs[j] = es[j]
      BY <2>1, <2>4, ShutOne
    <3>3. \A k \in Nat : k + c \in Nat /\ (Owns(es[j], k) => k <= o)
      BY <2>1, <3>1 DEF Owns
    <3>4. \A k \in Nat : k > o => ~Owns(es[j], k + c)
      BY <2>1, <3>1 DEF Owns
    <3> QED
      BY <3>2, <3>3, <3>4
  <2> QED
    BY <2>1, <2>2, <2>3, <2>4
<1>3. fs[i] \in Entry
  <2>1. fs[i] = es[i]
    BY ShutOne
  <2> QED
    BY <2>1
<1>4. ASSUME NEW j \in D \ {i}, NEW k \in Nat, Owns(fs[j], k) PROVE k <= n - c
  <2>1. (k <= o /\ Owns(es[j], k)) \/ (k > o /\ Owns(es[j], k + c))
    BY <1>2, <1>4
  <2>2. k + c \in Nat
    OBVIOUS
  <2>3. Owns(es[j], k + c) => k + c <= n
    BY <2>2 DEF Tiles
  <2> QED
    BY <1>1, <2>1, <2>3
<1>5. ASSUME NEW k \in 1 .. n - c PROVE \E j \in D \ {i} : Owns(fs[j], k)
  <2>1. CASE k <= o
    <3>1. k \in 1 .. n
      BY <1>1, <2>1
    <3>2. PICK j \in D : Owns(es[j], k)
      BY <3>1 DEF Tiles
    <3>3. j # i
      BY <1>1, <2>1, <3>2
    <3> QED
      BY <1>2, <2>1, <3>2, <3>3
  <2>2. CASE ~(k <= o)
    <3>1. k + c \in 1 .. n
      BY <2>2
    <3>2. PICK j \in D : Owns(es[j], k + c)
      BY <3>1 DEF Tiles
    <3>3. j # i
      BY <1>1, <2>2, <3>1, <3>2
    <3> QED
      BY <1>2, <2>2, <3>2, <3>3
  <2> QED
    BY <2>1, <2>2
<1>6. ASSUME NEW j \in D \ {i}, NEW l \in D \ {i}, NEW k \in Nat, Owns(fs[j], k), Owns(fs[l], k)
      PROVE  j = l
  <2>1. \/ Owns(es[j], k) /\ Owns(es[l], k)
        \/ k + c \in Nat /\ Owns(es[j], k + c) /\ Owns(es[l], k + c)
    BY <1>2, <1>6
  <2> QED
    BY <2>1 DEF Tiles
<1> QED
  BY <1>1, <1>2, <1>3, <1>4, <1>5, <1>6 DEF Tiles

(* Appended(): what the second owns follows.                               *)
LEMMA TilesJoined ==
  ASSUME NEW es, NEW l \in Nat, NEW n \in Nat, Tiles(es, 1 .. l, n),
         NEW fs, NEW m \in Nat, NEW p \in Nat, Tiles(fs, 1 .. m, p), NEW gs,
         \A i \in 1 .. l, k \in Nat : Owns(gs[i], k) <=> Owns(es[i], k),
         \A i \in 1 .. m, k \in Nat : Owns(gs[l + i], k) <=> k > n /\ Owns(fs[i], k - n)
  PROVE  Tiles(gs, 1 .. l + m, n + p)
<1>1. ASSUME NEW i \in 1 .. l + m, NEW k \in Nat, Owns(gs[i], k)
      PROVE  \/ i \in 1 .. l /\ k <= n /\ Owns(es[i], k)
             \/ i - l \in 1 .. m /\ k > n /\ k <= n + p /\ Owns(fs[i - l], k - n)
  <2>1. CASE i <= l
    BY <1>1, <2>1 DEF Tiles
  <2>2. CASE ~(i <= l)
    <3> DEFINE j == i - l
    <3>1. j \in 1 .. m /\ i = l + j
      BY <2>2
    <3> HIDE DEF j
    <3>2. k > n /\ Owns(fs[j], k - n)
      BY <1>1, <3>1
    <3>3. k - n \in Nat
      BY <3>2
    <3>4. k - n <= p
      BY <3>1, <3>2, <3>3 DEF Tiles
    <3> QED
      BY <3>1, <3>2, <3>4 DEF j
  <2> QED
    BY <2>1, <2>2
<1>2. \A i \in 1 .. l + m, k \in Nat : Owns(gs[i], k) => k <= n + p
  BY <1>1
<1>3. ASSUME NEW k \in 1 .. n + p PROVE \E i \in 1 .. l + m : Owns(gs[i], k)
  <2>1. CASE k <= n
    <3>1. k \in 1 .. n
      BY <2>1
    <3>2. PICK i \in 1 .. l : Owns(es[i], k)
      BY <3>1 DEF Tiles
    <3> QED
      BY <3>2
  <2>2. CASE ~(k <= n)
    <3>1. k - n \in 1 .. p
      BY <2>2
    <3>2. PICK i \in 1 .. m : Owns(fs[i], k - n)
      BY <3>1 DEF Tiles
    <3>3. Owns(gs[l + i], k) /\ l + i \in 1 .. l + m
      BY <2>2, <3>2
    <3> QED
      BY <3>3
  <2> QED
    BY <2>1, <2>2
<1>4. ASSUME NEW i \in 1 .. l + m, NEW j \in 1 .. l + m, NEW k \in Nat, Owns(gs[i], k), Owns(gs[j], k)
      PROVE  i = j
  <2>1. CASE k <= n
    <3>1. i \in 1 .. l /\ j \in 1 .. l /\ Owns(es[i], k) /\ Owns(es[j], k)
      BY <1>1, <1>4, <2>1
    <3> QED
      BY <3>1 DEF Tiles
  <2>2. CASE ~(k <= n)
    <3>1. /\ i - l \in 1 .. m /\ j - l \in 1 .. m /\ k - n \in Nat
          /\ Owns(fs[i - l], k - n) /\ Owns(fs[j - l], k - n)
      BY <1>1, <1>4, <2>2
    <3>2. i - l = j - l
      BY <3>1 DEF Tiles
    <3> QED
      BY <3>2
  <2> QED
    BY <2>1, <2>2
<1> QED
  BY <1>2, <1>3, <1>4 DEF Tiles

-----------------------------------------------------------------------------
(* Sequences, and buffers made from others                                 *)

LEMMA FunctionIsSeq ==
  ASSUME NEW S, NEW n \in Nat, NEW f \in [1 .. n -> S]
  PROVE  f \in Seq(S) /\ Len(f) = n
  OBVIOUS

LEMMA NoneIsEmpty ==
  ASSUME NEW S, NEW s \in Seq(S)
  PROVE  s = << >> <=> Len(s) = 0
  BY EmptySeq

LEMMA JoinedSeq ==
  ASSUME NEW S, NEW s \in Seq(S), NEW t \in Seq(S)
  PROVE  /\ s \o t \in Seq(S) /\ Len(s \o t) = Len(s) + Len(t)
         /\ \A i \in 1 .. Len(s) : (s \o t)[i] = s[i]
         /\ \A i \in 1 .. Len(t) : (s \o t)[Len(s) + i] = t[i]
<1> DEFINE u == s \o t
           l == Len(s)
           m == Len(t)
<1>1. /\ u \in Seq(S) /\ Len(u) = l + m /\ l \in Nat /\ m \in Nat
      /\ \A i \in 1 .. l + m : u[i] = IF i <= l THEN s[i] ELSE t[i - l]
  BY ConcatProperties, LenProperties
<1> HIDE DEF u, l, m
<1>2. \A i \in 1 .. l : i \in 1 .. l + m /\ i <= l
  BY <1>1
<1>3. \A i \in 1 .. m : l + i \in 1 .. l + m /\ ~(l + i <= l) /\ l + i - l = i
  BY <1>1
<1>4. (\A i \in 1 .. l : u[i] = s[i]) /\ \A i \in 1 .. m : u[l + i] = t[i]
  BY <1>1, <1>2, <1>3
<1> QED
  BY <1>1, <1>4 DEF u, l, m

(* Appended(): the entries of the second move behind the cells of the first. *)
LEMMA MoveOne ==
  ASSUME NEW e \in Entry, NEW n \in Nat
  PROVE  /\ Move(e, n) \in Entry /\ Move(e, n).tag = e.tag
         /\ \A k \in Nat : Owns(Move(e, n), k) <=> k > n /\ Owns(e, k - n)
<1>1. CellsOf(e) \in Nat /\ e.data \in Nat /\ e \in Entry
  BY CellsOfIsNat
<1>2. CASE CellsOf(e) = 0
  <2>1. Move(e, n) = e
    BY <1>2 DEF Move
  <2>2. \A k \in Int : ~Owns(e, k)
    BY <1>1, <1>2 DEF Owns
  <2> QED
    BY <1>1, <2>1, <2>2
<1>3. CASE CellsOf(e) # 0
  <2> DEFINE x == e.data + n
             f == [e EXCEPT !.data = x]
  <2>1. CellsOf(e) > 0 /\ x \in Nat
    BY <1>1, <1>3
  <2>2. Move(e, n) = f
    BY <2>1 DEF Move
  <2> HIDE DEF x
  <2>3. f.tag = e.tag /\ f.count = e.count /\ f.data = x /\ (x \in Nat => f \in Entry)
    BY DEF Entry
  <2> HIDE DEF f
  <2>4. CellsOf(f) = CellsOf(e)
    BY <2>3 DEF CellsOf
  <2>5. \A k \in Nat : Owns(f, k) <=> k > n /\ Owns(e, k - n)
    BY <1>1, <2>3, <2>4 DEF Owns, x
  <2> QED
    BY <2>1, <2>2, <2>3, <2>5
<1> QED
  BY <1>2, <1>3

(* What validate_camera_metadata_structure() asks of a buffer, and more.   *)
Buffer == [entries : Seq(Entry), data : Seq(Nat), entryCapacity : Nat, dataCapacity : Nat,
           sorted : BOOLEAN]
SoundBuffer(b) ==
  /\ b \in Buffer /\ Len(b.entries) <= b.entryCapacity /\ Len(b.data) <= b.dataCapacity
  /\ Tiles(b.entries, 1 .. Len(b.entries), Len(b.data))
  /\ b.sorted => InOrder(b.entries)

LEMMA BufferTyped ==
  ASSUME NEW b, SoundBuffer(b)
  PROVE  /\ b.entries \in Seq(Entry) /\ b.data \in Seq(Nat) /\ b.sorted \in BOOLEAN
         /\ b.entryCapacity \in Nat /\ b.dataCapacity \in Nat
         /\ Len(b.entries) \in Nat /\ Len(b.data) \in Nat
         /\ DOMAIN b.entries = 1 .. Len(b.entries)
         /\ \A i \in 1 .. Len(b.entries) : b.entries[i] \in Entry
<1>1. /\ b.entries \in Seq(Entry) /\ b.data \in Seq(Nat) /\ b.sorted \in BOOLEAN
      /\ b.entryCapacity \in Nat /\ b.dataCapacity \in Nat
  BY DEF SoundBuffer, Buffer
<1> QED
  BY <1>1, LenProperties, ElementOfSeq

LEMMA AllocatedIsSound ==
  ASSUME NEW n \in Nat, NEW m \in Nat
  PROVE  /\ SoundBuffer(Allocated(n, m))
         /\ Allocated(n, m).sorted = FALSE /\ Allocated(n, m).entries = << >>
<1> DEFINE b == Allocated(n, m)
<1>1. /\ b = [entries |-> << >>, data |-> << >>, entryCapacity |-> n, dataCapacity |-> m, sorted |-> FALSE]
      /\ << >> \in Seq(Entry) /\ << >> \in Seq(Nat) /\ Len(<< >>) = 0
  BY EmptySeq DEF Allocated
<1>2. b \in Buffer
  BY <1>1 DEF Buffer
<1>3. b.entries = << >> /\ b.data = << >> /\ b.entryCapacity = n /\ b.dataCapacity = m /\ b.sorted = FALSE
  BY <1>1
<1> HIDE DEF b
<1>4. Tiles(b.entries, 1 .. Len(b.entries), Len(b.data))
  BY <1>1, <1>3 DEF Tiles
<1>5. SoundBuffer(b)
  BY <1>1, <1>2, <1>3, <1>4 DEF SoundBuffer
<1> QED
  BY <1>3, <1>5 DEF b

LEMMA AppendedIsSound ==
  ASSUME NEW dst, SoundBuffer(dst), NEW src, SoundBuffer(src),
         ~(dst.sorted /\ dst.entries = << >> /\ ~src.sorted)
  PROVE  /\ SoundBuffer(Appended(dst, src))
         /\ Appended(dst, src).sorted /\ Appended(dst, src).entries = << >> =>
              (dst.sorted /\ dst.entries = << >>) \/ (src.sorted /\ src.entries = << >>)
<1>1. CASE ~Fits(dst, Len(src.entries), Len(src.data))
  BY <1>1 DEF Appended
<1>2. CASE Fits(dst, Len(src.entries), Len(src.data))
  <2> DEFINE es == dst.entries
             fs == src.entries
             l == Len(es)
             m == Len(fs)
             n == Len(dst.data)
             p == Len(src.data)
             moved == [i \in 1 .. m |-> Move(fs[i], n)]
             gs == es \o moved
             area == dst.data \o src.data
             sorted == IF es = << >> THEN dst.sorted \/ src.sorted ELSE dst.sorted /\ fs = << >>
             b == Appended(dst, src)
  <2>t. /\ es \in Seq(Entry) /\ dst.data \in Seq(Nat) /\ dst.sorted \in BOOLEAN
        /\ dst.entryCapacity \in Nat /\ dst.dataCapacity \in Nat /\ l \in Nat /\ n \in Nat
        /\ fs \in Seq(Entry) /\ src.data \in Seq(Nat) /\ src.sorted \in BOOLEAN
        /\ m \in Nat /\ p \in Nat /\ DOMAIN fs = 1 .. m
        /\ \A i \in 1 .. m : fs[i] \in Entry
        /\ \A i \in 1 .. l : es[i] \in Entry
    BY BufferTyped
  <2>1. b = [dst EXCEPT !.entries = gs, !.data = area, !.sorted = sorted]
    <3>1. moved = [i \in DOMAIN src.entries |->
                     Move(src.entries[i], Len(dst.data))]
      BY <2>t
    <3> HIDE DEF moved
    <3> QED
      BY <1>2, <3>1 DEF Appended
  <2>2. moved \in Seq(Entry) /\ Len(moved) = m
    <3>1. \A i \in 1 .. m : Move(fs[i], n) \in Entry
      BY <2>t, MoveOne
    <3>2. moved \in [1 .. m -> Entry]
      BY <3>1
    <3> QED
      BY <2>t, <3>2, FunctionIsSeq
  <2>3. /\ gs \in Seq(Entry) /\ Len(gs) = l + m
        /\ \A i \in 1 .. l : gs[i] = es[i]
        /\ \A i \in 1 .. m : gs[l + i] = Move(fs[i], n)
    <3>1. \A i \in 1 .. m : moved[i] = Move(fs[i], n)
      BY DEF moved
    <3>2. /\ es \o moved \in Seq(Entry) /\ Len(es \o moved) = l + Len(moved)
          /\ \A i \in 1 .. l : (es \o moved)[i] = es[i]
          /\ \A i \in 1 .. Len(moved) : (es \o moved)[l + i] = moved[i]
      <4>1. es \in Seq(Entry) /\ moved \in Seq(Entry)
        BY <2>t, <2>2
      <4> HIDE DEF moved, es
      <4> QED
        BY <4>1, JoinedSeq
    <3> HIDE DEF moved
    <3> QED
      BY <2>2, <3>1, <3>2
  <2>4. area \in Seq(Nat) /\ Len(area) = n + p
    BY <2>t, ConcatProperties
  <2> HIDE DEF moved, gs, area
  <2>5. Tiles(gs, 1 .. l + m, n + p)
    <3>1. \A i \in 1 .. l, k \in Nat : Owns(gs[i], k) <=> Owns(es[i], k)
      BY <2>3
    <3>2. \A i \in 1 .. m, k \in Nat : Owns(gs[l + i], k) <=> k > n /\ Owns(fs[i], k - n)
      BY <2>t, <2>3, MoveOne
    <3>3. Tiles(es, 1 .. l, n) /\ Tiles(fs, 1 .. m, p)
      BY DEF SoundBuffer
    <3> HIDE DEF es, fs, l, m, n, p
    <3> QED
      BY <2>t, <3>1, <3>2, <3>3, TilesJoined
  <2>6. sorted => InOrder(gs)
    <3>1. DOMAIN gs = 1 .. l + m
      BY <2>3, LenProperties
    <3>2. CASE es = << >> /\ sorted
      <4>1. l = 0 /\ src.sorted
        BY <3>2, EmptySeq
      <4>2. \A i \in 1 .. m : gs[i].tag = fs[i].tag
        <5>1. \A i \in 1 .. m : l + i = i
          BY <4>1
        <5>2. \A i \in 1 .. m : Move(fs[i], n).tag = fs[i].tag
          BY <2>t, MoveOne
        <5> QED
          BY <2>3, <5>1, <5>2
      <4>3. l + m = m
        BY <2>t, <4>1
      <4>4. InOrder(fs)
        BY <4>1 DEF SoundBuffer
      <4> QED
        BY <2>t, <3>1, <4>2, <4>3, <4>4 DEF InOrder
    <3>3. CASE es # << >> /\ sorted
      <4>1. m = 0 /\ dst.sorted
        BY <3>3, EmptySeq
      <4>2. l + m = l
        BY <2>t, <4>1
      <4>3. InOrder(es) /\ DOMAIN es = 1 .. l
        BY <2>t, <4>1, LenProperties DEF SoundBuffer
      <4> QED
        BY <2>3, <3>1, <4>2, <4>3 DEF InOrder
    <3> QED
      BY <3>2, <3>3
  <2>7. sorted \in BOOLEAN
    BY <2>t
  <2>8. sorted /\ gs = << >> => (dst.sorted /\ dst.entries = << >>) \/ (src.sorted /\ src.entries = << >>)
    <3>1. gs = << >> => l + m = 0
      BY <2>3, EmptySeq
    <3>2. l + m = 0 => l = 0 /\ m = 0
      <4>1. l \in Nat /\ m \in Nat
        BY <2>t
      <4> HIDE DEF l, m
      <4> QED
        BY <4>1
    <3>3. (l = 0 => es = << >>) /\ (m = 0 => fs = << >>)
      <4>1. es \in Seq(Entry) /\ fs \in Seq(Entry)
        BY <2>t
      <4> HIDE DEF es, fs
      <4> QED
        BY <4>1, NoneIsEmpty
    <3> QED
      BY <3>1, <3>2, <3>3
  <2>9. l + m <= dst.entryCapacity /\ n + p <= dst.dataCapacity
    BY <1>2 DEF Fits
  <2> HIDE DEF sorted, b
  <2>10. /\ b.entries = gs /\ b.data = area /\ b.sorted = sorted /\ b \in Buffer
         /\ b.entryCapacity = dst.entryCapacity /\ b.dataCapacity = dst.dataCapacity
    BY <2>1, <2>3, <2>4, <2>7 DEF SoundBuffer, Buffer
  <2>11. SoundBuffer(b)
    BY <2>3, <2>4, <2>5, <2>6, <2>9, <2>10 DEF SoundBuffer
  <2> QED
    BY <2>8, <2>10, <2>11 DEF b
<1> QED
  BY <1>1, <1>2

LEMMA CopiedIsSound ==
  ASSUME NEW b, SoundBuffer(b)
  PROVE  SoundBuffer(Copied(b))
<1> DEFINE c == Copied(b)
<1>t. b \in Buffer /\ Len(b.entries) \in Nat /\ Len(b.data) \in Nat
  BY BufferTyped DEF SoundBuffer
<1>1. c = [b EXCEPT !.entryCapacity = Len(b.entries), !.dataCapacity = Len(b.data)]
  BY DEF Copied
<1> HIDE DEF c
<1>2. /\ c \in Buffer /\ c.entries = b.entries /\ c.data = b.data /\ c.sorted = b.sorted
      /\ c.entryCapacity = Len(b.entries) /\ c.dataCapacity = Len(b.data)
  BY <1>t, <1>1 DEF Buffer
<1>3. SoundBuffer(c)
  BY <1>t, <1>2 DEF SoundBuffer
<1> QED
  BY <1>3 DEF c

LEMMA ArrayIs ==
  ASSUME NEW v \in Nat, NEW n \in Nat
  PROVE  Array(v, n) \in Seq(Nat) /\ Len(Array(v, n)) = n
<1>1. Array(v, n) \in [1 .. n -> Nat]
  BY DEF Array
<1> QED
  BY <1>1, FunctionIsSeq

LEMMA AddedIsSound ==
  ASSUME NEW b, SoundBuffer(b), MetadataSizes, NEW tag \in Tags, NEW count \in Nat \ {0}
  PROVE  SoundBuffer(Added(b, tag, count))
<1> DEFINE n == Cells(tag, count)
           l == Len(b.entries)
           m == Len(b.data)
           at == IF n > 0 THEN m ELSE tag
           x == [tag |-> tag, count |-> count, data |-> at]
           es == Append(b.entries, x)
           area == b.data \o Array(tag, n)
           c == Added(b, tag, count)
<1>t. /\ b.entries \in Seq(Entry) /\ b.data \in Seq(Nat) /\ b \in Buffer /\ l \in Nat /\ m \in Nat
      /\ n \in Nat /\ tag \in Nat
  BY BufferTyped, CellsAreNat DEF SoundBuffer, MetadataSizes
<1>0. ~Fits(b, 1, n) => c = b
  BY DEF Added
<1> SUFFICES ASSUME Fits(b, 1, n) PROVE SoundBuffer(c)
  BY <1>0
<1>1. c = [b EXCEPT !.entries = es, !.data = area, !.sorted = FALSE]
  BY DEF Added
<1>2. l + 1 <= b.entryCapacity /\ m + n <= b.dataCapacity
  BY DEF Fits
<1>3. x \in Entry /\ CellsOf(x) = n /\ x.data = at
  BY <1>t DEF Entry, CellsOf
<1>4. area \in Seq(Nat) /\ Len(area) = m + n
  <2> DEFINE as == Array(tag, n)
  <2>1. as \in Seq(Nat) /\ Len(as) = n /\ b.data \in Seq(Nat)
    BY <1>t, ArrayIs
  <2> HIDE DEF as
  <2>2. b.data \o as \in Seq(Nat) /\ Len(b.data \o as) = m + Len(as)
    BY <2>1, JoinedSeq
  <2>3. area = b.data \o as
    BY DEF as
  <2> HIDE DEF area, m, n
  <2> QED
    BY <2>1, <2>2, <2>3
<1> HIDE DEF x, n
<1>5. /\ es \in Seq(Entry) /\ Len(es) = l + 1 /\ es[l + 1] = x
      /\ \A j \in 1 .. l : es[j] = b.entries[j]
  BY <1>t, <1>3, AppendProperties
<1>6. \A k \in Nat : Owns(x, k) <=> m < k /\ k <= m + n
  BY <1>t, <1>3 DEF Owns
<1> HIDE DEF es, area, c, at
<1>7. Tiles(es, 1 .. l + 1, m + n)
  <2>1. l + 1 \in 1 .. l + 1 /\ 1 .. l = (1 .. l + 1) \ {l + 1}
    BY <1>t
  <2>2. Tiles(b.entries, (1 .. l + 1) \ {l + 1}, m)
    BY <2>1 DEF SoundBuffer
  <2>3. \A j \in (1 .. l + 1) \ {l + 1}, k \in Nat : Owns(es[j], k) <=> Owns(b.entries[j], k)
    BY <1>5, <2>1
  <2>4. \A k \in Nat : Owns(es[l + 1], k) <=> m < k /\ k <= m + n
    BY <1>5, <1>6
  <2> HIDE DEF l, m
  <2> QED
    BY <1>t, <2>1, <2>2, <2>3, <2>4, TilesWith
<1>8. /\ c \in Buffer /\ c.entries = es /\ c.data = area /\ c.sorted = FALSE
      /\ c.entryCapacity = b.entryCapacity /\ c.dataCapacity = b.dataCapacity
  BY <1>t, <1>1, <1>4, <1>5 DEF Buffer
<1> QED
  BY <1>2, <1>4, <1>5, <1>7, <1>8 DEF SoundBuffer

LEMMA SortedIsSound ==
  ASSUME NEW b, SoundBuffer(b), NEW c \in Sortings(b)
  PROVE  SoundBuffer(c)
<1> DEFINE l == Len(b.entries)
           D == 1 .. l
<1>t. /\ b.entries \in Seq(Entry) /\ b \in Buffer /\ l \in Nat /\ DOMAIN b.entries = D
      /\ \A i \in D : b.entries[i] \in Entry
  BY BufferTyped DEF SoundBuffer
<1>0. b.sorted => c = b
  BY DEF Sortings
<1> SUFFICES ASSUME ~b.sorted PROVE SoundBuffer(c)
  BY <1>0
<1>1. PICK p \in Bijection(D, D) :
        /\ InOrder([i \in D |-> b.entries[p[i]]])
        /\ c = [b EXCEPT !.entries = [i \in D |-> b.entries[p[i]]], !.sorted = TRUE]
  BY <1>t DEF Sortings
<1>2. p \in [D -> D] /\ (\A i \in D : \E j \in D : p[j] = i) /\ (\A i, j \in D : p[i] = p[j] => i = j)
  BY <1>1 DEF Bijection, Injection, Surjection, IsInjective
<1> DEFINE es == [i \in D |-> b.entries[p[i]]]
<1>3. es \in [1 .. l -> Entry] /\ \A i \in D : es[i] = b.entries[p[i]]
  BY <1>t, <1>2
<1>4. InOrder(es) /\ c = [b EXCEPT !.entries = es, !.sorted = TRUE]
  BY <1>1
<1> HIDE DEF es
<1>5. es \in Seq(Entry) /\ Len(es) = l
  BY <1>t, <1>3, FunctionIsSeq
<1>6. Tiles(es, D, Len(b.data))
  <2>1. \A j \in D, k \in Nat : Owns(es[j], k) <=> Owns(b.entries[p[j]], k)
    BY <1>3
  <2>2. Tiles(b.entries, D, Len(b.data)) /\ Len(b.data) \in Nat
    BY BufferTyped DEF SoundBuffer
  <2> HIDE DEF D
  <2> QED
    BY <1>2, <2>1, <2>2, TilesMoved
<1>7. /\ c \in Buffer /\ c.entries = es /\ c.data = b.data /\ c.sorted = TRUE
      /\ c.entryCapacity = b.entryCapacity /\ c.dataCapacity = b.dataCapacity
  BY <1>t, <1>4, <1>5 DEF Buffer
<1> QED
  BY <1>4, <1>5, <1>6, <1>7 DEF SoundBuffer

-----------------------------------------------------------------------------
(* find(): the binary search                                                *)

(* Binary search: one step of it, and what the search is a fixed point of. *)
Places(es) == (1 .. Len(es) + 1) \X (0 .. Len(es))
Half(es, tag, f, r) ==
  IF r[1] > r[2] THEN 0
  ELSE LET m == (r[1] + r[2]) \div 2 IN
       IF es[m].tag = tag THEN m
       ELSE IF tag < es[m].tag THEN f[<<r[1], m - 1>>] ELSE f[<<m + 1, r[2]>>]
Search(es, tag) == CHOOSE f : f = [r \in Places(es) |-> Half(es, tag, f, r)]

LEMMA BisectIsSearch ==
  ASSUME NEW es, NEW tag
  PROVE  Bisect(es, tag) = Search(es, tag)[<<1, Len(es)>>]
  BY Zenon DEF Bisect, Search, Places, Half

(* A step ends the search, or leaves fewer places.                         *)
Ends(es, tag, r) == \E x \in 0 .. Len(es) : \A f : Half(es, tag, f, r) = x
GoesOn(es, tag, r, q) ==
  q \in Places(es) /\ q[2] - q[1] < r[2] - r[1] /\ r[1] <= r[2] /\ \A f : Half(es, tag, f, r) = f[q]

LEMMA HalfIs ==
  ASSUME NEW es, Len(es) \in Nat, NEW tag, NEW r \in Places(es)
  PROVE  Ends(es, tag, r) \/ \E q : GoesOn(es, tag, r, q)
<1>1. PICK l \in 1 .. Len(es) + 1, u \in 0 .. Len(es) : r = <<l, u>>
  BY DEF Places
<1>2. r[1] = l /\ r[2] = u
  BY <1>1
<1>3. CASE l > u
  <2>1. 0 \in 0 .. Len(es) /\ \A f : Half(es, tag, f, r) = 0
    BY <1>2, <1>3 DEF Half
  <2> QED
    BY <2>1 DEF Ends
<1>4. CASE ~(l > u)
  <2>1. PICK m \in Nat : m = (l + u) \div 2 /\ l <= m /\ m <= u
    BY <1>4
  <2>2. \A f : Half(es, tag, f, r) = IF es[m].tag = tag THEN m
          ELSE IF tag < es[m].tag THEN f[<<l, m - 1>>] ELSE f[<<m + 1, u>>]
    BY <1>2, <1>4, <2>1 DEF Half
  <2>3. CASE es[m].tag = tag
    <3>1. m \in 0 .. Len(es) /\ \A f : Half(es, tag, f, r) = m
      BY <2>1, <2>2, <2>3
    <3> QED
      BY <3>1 DEF Ends
  <2>4. CASE es[m].tag # tag /\ tag < es[m].tag
    <3> DEFINE q == <<l, m - 1>>
    <3>1. q \in Places(es) /\ q[1] = l /\ q[2] = m - 1
      BY <2>1, m - 1 \in 0 .. Len(es) DEF Places
    <3>2. \A f : Half(es, tag, f, r) = f[q]
      BY <2>2, <2>4
    <3> HIDE DEF q
    <3>3. q[2] - q[1] < r[2] - r[1] /\ r[1] <= r[2]
      BY <1>2, <1>4, <2>1, <3>1
    <3> QED
      BY <3>1, <3>2, <3>3 DEF GoesOn
  <2>5. CASE es[m].tag # tag /\ ~(tag < es[m].tag)
    <3> DEFINE q == <<m + 1, u>>
    <3>1. q \in Places(es) /\ q[1] = m + 1 /\ q[2] = u
      BY <2>1, m + 1 \in 1 .. Len(es) + 1 DEF Places
    <3>2. \A f : Half(es, tag, f, r) = f[q]
      BY <2>2, <2>5
    <3> HIDE DEF q
    <3>3. q[2] - q[1] < r[2] - r[1] /\ r[1] <= r[2]
      BY <1>2, <1>4, <2>1, <3>1
    <3> QED
      BY <3>1, <3>2, <3>3 DEF GoesOn
  <2> QED
    BY <2>3, <2>4, <2>5
<1> QED
  BY <1>3, <1>4

(* Functions that are a search where at most k places are left.            *)
SearchesUpTo(es, tag, f, k) ==
  /\ f \in [Places(es) -> 0 .. Len(es)]
  /\ \A r \in Places(es) : r[2] - r[1] < k => f[r] = Half(es, tag, f, r)

LEMMA OneMorePlace ==
  ASSUME NEW es, Len(es) \in Nat, NEW tag, NEW k \in Nat, NEW f, SearchesUpTo(es, tag, f, k)
  PROVE  \E g : SearchesUpTo(es, tag, g, k + 1)
<1> DEFINE D == Places(es)
           g == [r \in D |-> Half(es, tag, f, r)]
<1>0. \A r \in D : g[r] = Half(es, tag, f, r) /\ r[1] \in Int /\ r[2] \in Int
  BY DEF Places
<1>1. g \in [D -> 0 .. Len(es)]
  <2>1. ASSUME NEW r \in D PROVE Half(es, tag, f, r) \in 0 .. Len(es)
    <3>1. f \in [D -> 0 .. Len(es)]
      BY DEF SearchesUpTo
    <3>2. CASE Ends(es, tag, r)
      BY <3>2 DEF Ends
    <3>3. CASE \E q : GoesOn(es, tag, r, q)
      BY <3>1, <3>3 DEF GoesOn
    <3> QED
      BY <3>2, <3>3, HalfIs
  <2> QED
    BY <2>1
<1> HIDE DEF g
<1>2. ASSUME NEW r \in D, r[2] - r[1] < k + 1 PROVE g[r] = Half(es, tag, g, r)
  <2>1. CASE Ends(es, tag, r)
    BY <1>0, <2>1 DEF Ends
  <2>2. CASE \E q : GoesOn(es, tag, r, q)
    <3>1. PICK q \in D : GoesOn(es, tag, r, q)
      BY <2>2 DEF GoesOn
    <3>2. Half(es, tag, g, r) = g[q] /\ Half(es, tag, f, r) = f[q] /\ q[2] - q[1] < r[2] - r[1]
      BY <3>1 DEF GoesOn
    <3>3. q[2] - q[1] < k
      BY <1>0, <1>2, <3>2
    <3>4. f[q] = Half(es, tag, f, q)
      BY <3>3 DEF SearchesUpTo
    <3> QED
      BY <1>0, <3>2, <3>4
  <2> QED
    BY <2>1, <2>2, HalfIs
<1>3. SearchesUpTo(es, tag, g, k + 1)
  BY <1>1, <1>2 DEF SearchesUpTo
<1> QED
  BY <1>3

LEMMA SearchIsSearch ==
  ASSUME NEW es, Len(es) \in Nat, NEW tag
  PROVE  Search(es, tag) = [r \in Places(es) |-> Half(es, tag, Search(es, tag), r)]
<1> DEFINE P(k) == \E f : SearchesUpTo(es, tag, f, k)
           T == {k \in Nat : ~P(k)}
           D == Places(es)
<1>0. \A r \in D : r[1] \in 1 .. Len(es) + 1 /\ r[2] \in 0 .. Len(es)
  BY DEF Places
<1>1. P(0)
  <2> DEFINE f == [r \in D |-> 0]
  <2>1. ASSUME NEW r \in D, r[2] - r[1] < 0 PROVE f[r] = Half(es, tag, f, r)
    <3>1. r[1] > r[2]
      BY <1>0, <2>1
    <3> QED
      BY <3>1 DEF Half
  <2>2. f \in [D -> 0 .. Len(es)]
    OBVIOUS
  <2> HIDE DEF f
  <2>3. SearchesUpTo(es, tag, f, 0)
    BY <2>1, <2>2 DEF SearchesUpTo
  <2> QED
    BY <2>3
<1>2. \A k \in Nat : P(k) => P(k + 1)
  BY OneMorePlace
<1> HIDE DEF P
<1>3. P(Len(es))
  <2>1. SUFFICES ASSUME Len(es) \in T PROVE FALSE
    OBVIOUS
  <2>2. T \subseteq Nat /\ T # {}
    BY <2>1
  <2>3. PICK x \in T : \A y \in T : x <= y
    <3> HIDE DEF T
    <3> QED
      BY <2>2, Least
  <2>4. x \in Nat /\ ~P(x)
    BY <2>3
  <2>5. x # 0
    BY <1>1, <2>4
  <2>6. x - 1 \in Nat /\ x - 1 + 1 = x
    BY <2>4, <2>5
  <2>7. ~P(x - 1)
    BY <1>2, <2>4, <2>6
  <2>8. x - 1 \in T
    BY <2>6, <2>7
  <2>9. x <= x - 1
    BY <2>3, <2>8
  <2> QED
    BY <2>4, <2>9
<1>4. PICK f : SearchesUpTo(es, tag, f, Len(es))
  BY <1>3 DEF P
<1>5. ASSUME NEW r \in D PROVE f[r] = Half(es, tag, f, r)
  <2>1. r[2] - r[1] < Len(es)
    BY <1>0
  <2> QED
    BY <1>4, <2>1 DEF SearchesUpTo
<1>6. f = [r \in Places(es) |-> Half(es, tag, f, r)]
  BY <1>4, <1>5 DEF SearchesUpTo
<1> QED
  BY <1>6, Zenon DEF Search

LEMMA BisectIs ==
  ASSUME NEW es, Len(es) \in Nat, NEW tag
  PROVE  Bisect(es, tag) \in 0 .. Len(es)
<1> DEFINE f == Search(es, tag)
           D == Places(es)
           T == {k \in Nat : \E r \in D : r[2] - r[1] < k /\ f[r] \notin 0 .. Len(es)}
<1>0. \A r \in D : r[1] \in 1 .. Len(es) + 1 /\ r[2] \in 0 .. Len(es)
  BY DEF Places
<1>1. \A r \in D : f[r] = Half(es, tag, f, r)
  BY SearchIsSearch
<1> HIDE DEF f
<1>2. T = {}
  <2>1. SUFFICES ASSUME T # {} PROVE FALSE
    OBVIOUS
  <2>2. PICK x \in T : \A y \in T : x <= y
    <3>1. T \subseteq Nat
      OBVIOUS
    <3> HIDE DEF T
    <3> QED
      BY <2>1, <3>1, Least
  <2>3. PICK r \in D : x \in Nat /\ r[2] - r[1] < x /\ f[r] \notin 0 .. Len(es)
    BY <2>2
  <2>4. ~Ends(es, tag, r)
    BY <1>1, <2>3 DEF Ends
  <2>5. PICK q \in D : GoesOn(es, tag, r, q)
    BY <2>4, HalfIs DEF GoesOn
  <2>6. f[r] = f[q] /\ q[2] - q[1] < r[2] - r[1] /\ r[1] <= r[2]
    BY <1>1, <2>5 DEF GoesOn
  <2>7. x - 1 \in Nat /\ q[2] - q[1] < x - 1
    BY <1>0, <2>3, <2>6
  <2>8. x - 1 \in T
    BY <2>3, <2>6, <2>7
  <2>9. x <= x - 1
    BY <2>2, <2>8
  <2> QED
    BY <2>3, <2>9
<1>3. <<1, Len(es)>> \in D
  BY DEF Places
<1>4. Bisect(es, tag) = f[<<1, Len(es)>>]
  BY BisectIsSearch DEF f
<1>5. f[<<1, Len(es)>>] \in 0 .. Len(es)
  <2> DEFINE r == <<1, Len(es)>>
  <2>1. r[2] - r[1] < Len(es)
    OBVIOUS
  <2>2. r \in D
    BY <1>3
  <2> HIDE DEF r
  <2>3. f[r] \in 0 .. Len(es)
    BY <1>2, <2>1, <2>2
  <2> QED
    BY <2>3 DEF r
<1> QED
  BY <1>4, <1>5

-----------------------------------------------------------------------------
(* Deleting and updating                                                   *)

(* A sequence without n of its elements.                                   *)
Cut(s, o, n) == SubSeq(s, 1, o) \o SubSeq(s, o + n + 1, Len(s))

LEMMA CutIs ==
  ASSUME NEW S, NEW s \in Seq(S), NEW o \in Nat, NEW n \in Nat, o + n <= Len(s)
  PROVE  /\ Cut(s, o, n) \in Seq(S) /\ Len(Cut(s, o, n)) = Len(s) - n
         /\ \A j \in 1 .. o : Cut(s, o, n)[j] = s[j]
         /\ \A j \in 1 .. Len(s) - n - o : Cut(s, o, n)[o + j] = s[o + n + j]
<1> DEFINE a == SubSeq(s, 1, o)
           b == SubSeq(s, o + n + 1, Len(s))
<1>0. Len(s) \in Nat
  BY LenProperties
<1>1. a \in Seq(S) /\ Len(a) = o /\ \A j \in 1 .. o : a[j] = s[j]
  <2>1. \A j \in 1 .. o : s[j] \in S
    BY <1>0, ElementOfSeq
  <2> QED
    BY <1>0, <2>1, SubSeqProperties
<1>2. b \in Seq(S) /\ Len(b) = Len(s) - n - o /\ \A j \in 1 .. Len(s) - n - o : b[j] = s[o + n + j]
  <2>1. \A j \in o + n + 1 .. Len(s) : s[j] \in S
    BY <1>0, ElementOfSeq
  <2> QED
    BY <1>0, <2>1, SubSeqProperties
<1>3. Cut(s, o, n) = a \o b
  BY DEF Cut
<1> HIDE DEF a, b
<1>4. /\ a \o b \in Seq(S) /\ Len(a \o b) = Len(a) + Len(b)
      /\ \A j \in 1 .. Len(a) : (a \o b)[j] = a[j]
      /\ \A j \in 1 .. Len(b) : (a \o b)[Len(a) + j] = b[j]
  BY <1>1, <1>2, JoinedSeq
<1>5. Len(a) + Len(b) = Len(s) - n
  BY <1>0, <1>1, <1>2
<1> QED
  BY <1>1, <1>2, <1>3, <1>4, <1>5

(* And one without its i-th: what comes behind it is one place nearer.     *)
Skip(i, j) == IF j < i THEN j ELSE j + 1

LEMMA SkipIs ==
  ASSUME NEW l \in Nat, NEW i \in 1 .. l
  PROVE  /\ \A j \in 1 .. l - 1 : Skip(i, j) \in (1 .. l) \ {i}
         /\ \A k \in (1 .. l) \ {i} : \E j \in 1 .. l - 1 : Skip(i, j) = k
         /\ \A j, k \in 1 .. l - 1 : j < k => Skip(i, j) < Skip(i, k)
<1>1. \A j \in 1 .. l - 1 : Skip(i, j) \in (1 .. l) \ {i}
  BY DEF Skip
<1>2. ASSUME NEW k \in (1 .. l) \ {i} PROVE \E j \in 1 .. l - 1 : Skip(i, j) = k
  <2>1. CASE k < i
    <3>1. k \in 1 .. l - 1 /\ Skip(i, k) = k
      BY <2>1 DEF Skip
    <3> QED
      BY <3>1
  <2>2. CASE ~(k < i)
    <3>1. k - 1 \in 1 .. l - 1 /\ ~(k - 1 < i) /\ k - 1 + 1 = k
      BY <2>2
    <3>2. Skip(i, k - 1) = k
      BY <3>1 DEF Skip
    <3> QED
      BY <3>1, <3>2
  <2> QED
    BY <2>1, <2>2
<1>3. \A j, k \in 1 .. l - 1 : j < k => Skip(i, j) < Skip(i, k)
  BY DEF Skip
<1> QED
  BY <1>1, <1>2, <1>3

LEMMA RemovedIs ==
  ASSUME NEW S, NEW s \in Seq(S), NEW i \in 1 .. Len(s)
  PROVE  /\ RemoveAt(s, i) \in Seq(S) /\ Len(RemoveAt(s, i)) = Len(s) - 1
         /\ \A j \in 1 .. Len(s) - 1 : RemoveAt(s, i)[j] = s[Skip(i, j)]
<1> DEFINE r == RemoveAt(s, i)
           l == Len(s)
           o == i - 1
<1>0. l \in Nat /\ o \in Nat /\ o + 1 <= l /\ i \in Nat /\ o + 1 = i
  BY LenProperties
<1>1. r = Cut(s, o, 1)
  BY <1>0 DEF RemoveAt, Cut
<1> HIDE DEF r, o, l
<1>a. o + 1 <= Len(s) /\ 1 \in Nat
  BY <1>0 DEF l
<1>b. /\ r \in Seq(S) /\ Len(r) = Len(s) - 1
      /\ \A j \in 1 .. o : r[j] = s[j]
      /\ \A j \in 1 .. Len(s) - 1 - o : r[o + j] = s[o + 1 + j]
  <2>1. o \in Nat /\ o + 1 <= Len(s) /\ 1 \in Nat /\ s \in Seq(S)
    BY <1>0, <1>a
  <2>2. /\ Cut(s, o, 1) \in Seq(S) /\ Len(Cut(s, o, 1)) = Len(s) - 1
        /\ \A j \in 1 .. o : Cut(s, o, 1)[j] = s[j]
        /\ \A j \in 1 .. Len(s) - 1 - o : Cut(s, o, 1)[o + j] = s[o + 1 + j]
    <3> HIDE DEF l
    <3> QED
      BY ONLY <2>1, CutIs
  <2> QED
    BY <1>1, <2>2
<1>2. /\ r \in Seq(S) /\ Len(r) = l - 1
      /\ \A j \in 1 .. o : r[j] = s[j]
      /\ \A j \in 1 .. l - 1 - o : r[o + j] = s[o + 1 + j]
  BY <1>b DEF l
<1>3. ASSUME NEW j \in 1 .. l - 1 PROVE r[j] = s[Skip(i, j)]
  <2>1. CASE j < i
    <3>1. j \in 1 .. o
      BY <1>0, <2>1
    <3> QED
      BY <1>2, <2>1, <3>1 DEF Skip
  <2>2. CASE ~(j < i)
    <3>1. j - o \in 1 .. l - 1 - o /\ o + (j - o) = j /\ o + 1 + (j - o) = j + 1
      BY <1>0, <2>2
    <3>2. r[j] = s[j + 1]
      BY <1>2, <3>1
    <3> QED
      BY <2>2, <3>2 DEF Skip
  <2> QED
    BY <2>1, <2>2
<1> QED
  BY <1>2, <1>3 DEF r, l

(* The buffer d is b after the cells of entry i were taken out.            *)
Freed(d, b, i) ==
  /\ d \in Buffer /\ Len(d.entries) = Len(b.entries)
  /\ Len(d.data) + CellsOf(b.entries[i]) = Len(b.data)
  /\ Tiles(d.entries, (1 .. Len(b.entries)) \ {i}, Len(d.data))
  /\ \A j \in 1 .. Len(b.entries) : d.entries[j].tag = b.entries[j].tag
  /\ d.sorted = b.sorted /\ d.entryCapacity = b.entryCapacity /\ d.dataCapacity = b.dataCapacity

LEMMA NothingIsFreed ==
  ASSUME NEW b, SoundBuffer(b), NEW i \in 1 .. Len(b.entries), CellsOf(b.entries[i]) = 0
  PROVE  Freed(b, b, i)
<1>1. b \in Buffer /\ Len(b.data) \in Nat /\ b.entries[i] \in Entry
  BY BufferTyped DEF SoundBuffer
<1>2. \A k \in Nat : ~Owns(b.entries[i], k)
  <2>1. b.entries[i].data \in Nat
    BY <1>1, CellsOfIsNat
  <2> QED
    BY <2>1 DEF Owns
<1>3. Tiles(b.entries, (1 .. Len(b.entries)) \ {i}, Len(b.data))
  <2>1. Tiles(b.entries, 1 .. Len(b.entries), Len(b.data))
    BY DEF SoundBuffer
  <2> QED
    BY <1>1, <1>2, <2>1, TilesBut
<1> QED
  BY <1>1, <1>3 DEF Freed

LEMMA CellsAreFreed ==
  ASSUME NEW b, SoundBuffer(b), NEW i \in 1 .. Len(b.entries), CellsOf(b.entries[i]) # 0
  PROVE  Freed(CutOut(b, b.entries[i].data, CellsOf(b.entries[i])), b, i)
<1> DEFINE es == b.entries
           l == Len(es)
           m == Len(b.data)
<1>t. /\ b \in Buffer /\ es \in Seq(Entry) /\ b.data \in Seq(Nat) /\ l \in Nat /\ m \in Nat
      /\ DOMAIN es = 1 .. l /\ \A j \in 1 .. l : es[j] \in Entry
  BY BufferTyped DEF SoundBuffer
<1>1. PICK o \in Nat, c \in Nat : o = es[i].data /\ c = CellsOf(es[i]) /\ c > 0
  BY <1>t, CellsOfIsNat
<1> DEFINE fs == [j \in 1 .. l |-> Shut(es[j], o, c)]
           area == Cut(b.data, o, c)
           d == CutOut(b, o, c)
<1>2. d = [b EXCEPT !.data = area, !.entries = fs]
  <2>1. fs = [j \in DOMAIN b.entries |->
                Shut(b.entries[j], o, c)]
    BY <1>t
  <2> HIDE DEF fs
  <2> QED
    BY <2>1 DEF CutOut, Cut
<1>3. \A j \in 1 .. l : fs[j] = Shut(es[j], o, c)
  OBVIOUS
<1> HIDE DEF fs
<1>4. o + c <= m
  <2>1. Owns(es[i], o + c) /\ o + c \in Nat
    BY <1>1 DEF Owns
  <2> QED
    BY <2>1 DEF SoundBuffer, Tiles
<1>5. /\ Tiles(fs, (1 .. l) \ {i}, m - c) /\ m - c \in Nat
      /\ \A j \in 1 .. l : fs[j] \in Entry
  <2>1. Tiles(es, 1 .. l, m)
    BY DEF SoundBuffer
  <2> DEFINE D == 1 .. l
  <2>3. /\ i \in D /\ Tiles(es, D, m) /\ (\A j \in D : es[j] \in Entry) /\ (\A j \in D : fs[j] = Shut(es[j], o, c))
        /\ CellsOf(es[i]) = c /\ es[i].data = o /\ c > 0 /\ o \in Nat /\ c \in Nat /\ m \in Nat
    BY <1>t, <1>1, <1>3, <2>1
  <2> HIDE DEF D, es, m, l, area, d
  <2>4. Cuts(es, D, m, i, o, c, fs)
    BY <2>3 DEF Cuts
  <2>5. Tiles(fs, D \ {i}, m - c) /\ m - c \in Nat /\ \A j \in D : fs[j] \in Entry
    BY <2>4, TilesCut
  <2> QED
    BY <2>5 DEF D
<1>6. fs \in Seq(Entry) /\ Len(fs) = l
  <2>1. fs \in [1 .. l -> Entry]
    BY <1>5 DEF fs
  <2> QED
    BY <1>t, <2>1, FunctionIsSeq
<1>7. area \in Seq(Nat) /\ Len(area) = m - c
  <2> DEFINE s == b.data
  <2>1. s \in Seq(Nat) /\ o + c <= Len(s)
    BY <1>t, <1>4
  <2> HIDE DEF s
  <2>2. Cut(s, o, c) \in Seq(Nat) /\ Len(Cut(s, o, c)) = Len(s) - c
    BY <2>1, CutIs
  <2> QED
    BY <2>2 DEF s
<1> HIDE DEF area, d
<1>8. /\ d.data = area /\ d.entries = fs /\ d.sorted = b.sorted /\ d \in Buffer
      /\ d.entryCapacity = b.entryCapacity /\ d.dataCapacity = b.dataCapacity
  BY <1>t, <1>2, <1>6, <1>7 DEF Buffer
<1>9. \A j \in 1 .. l : fs[j].tag = es[j].tag
  <2>1. ASSUME NEW x \in Entry PROVE Shut(x, o, c).tag = x.tag
    BY ShutOne
  <2> QED
    BY <1>t, <1>3, <2>1
<1>10. m - c + CellsOf(es[i]) = m
  BY <1>t, <1>1
<1>11. Freed(d, b, i)
  BY <1>5, <1>6, <1>7, <1>8, <1>9, <1>10 DEF Freed
<1> QED
  BY <1>1, <1>11 DEF d

LEMMA DeletedIsSound ==
  ASSUME NEW b, SoundBuffer(b), NEW i \in 1 .. Len(b.entries)
  PROVE  SoundBuffer(Deleted(b, i))
<1> DEFINE e == b.entries[i]
           d == IF CellsOf(e) = 0 THEN b ELSE CutOut(b, e.data, CellsOf(e))
           l == Len(b.entries)
           c == Deleted(b, i)
           p == [j \in 1 .. l - 1 |-> Skip(i, j)]
<1>1. Freed(d, b, i)
  BY NothingIsFreed, CellsAreFreed
<1>2. c = [d EXCEPT !.entries = RemoveAt(d.entries, i)]
  BY DEF Deleted
<1>t. /\ l \in Nat /\ Len(b.data) \in Nat /\ CellsOf(e) \in Nat /\ i \in 1 .. l
      /\ DOMAIN b.entries = 1 .. l
  BY BufferTyped, CellsOfIsNat
<1> HIDE DEF d, e, c
<1>3. /\ d.entries \in Seq(Entry) /\ Len(d.entries) = l /\ d.data \in Seq(Nat) /\ Len(d.data) \in Nat
      /\ d.sorted = b.sorted /\ d.entryCapacity = b.entryCapacity /\ d.dataCapacity = b.dataCapacity
      /\ Len(d.data) <= Len(b.data) /\ d \in Buffer
      /\ Tiles(d.entries, (1 .. l) \ {i}, Len(d.data))
      /\ \A j \in 1 .. l : d.entries[j].tag = b.entries[j].tag
  <2>1. d.data \in Seq(Nat) /\ d.entries \in Seq(Entry)
    BY <1>1 DEF Freed, Buffer
  <2>2. Len(d.data) \in Nat
    BY <2>1, LenProperties
  <2>3. Len(d.data) + CellsOf(e) = Len(b.data)
    BY <1>1 DEF Freed, e
  <2>4. Len(d.data) <= Len(b.data)
    BY <1>t, <2>2, <2>3
  <2> QED
    BY <1>1, <2>1, <2>2, <2>4 DEF Freed
<1> DEFINE es == RemoveAt(d.entries, i)
<1>4. /\ es \in Seq(Entry) /\ Len(es) = l - 1
      /\ \A j \in 1 .. l - 1 : es[j] = d.entries[Skip(i, j)]
  BY <1>t, <1>3, RemovedIs
<1>5. DOMAIN es = 1 .. l - 1
  BY <1>4, LenProperties
<1> HIDE DEF es, l
<1>6. /\ p \in [1 .. l - 1 -> (1 .. l) \ {i}] /\ (\A j \in 1 .. l - 1 : p[j] = Skip(i, j))
      /\ \A k \in (1 .. l) \ {i} : \E j \in 1 .. l - 1 : p[j] = k
      /\ \A j, k \in 1 .. l - 1 : p[j] = p[k] => j = k
  <2>0. \A j \in 1 .. l - 1 : p[j] = Skip(i, j)
    OBVIOUS
  <2>1. p \in [1 .. l - 1 -> (1 .. l) \ {i}]
    BY <1>t, SkipIs
  <2> HIDE DEF p
  <2>2. \A k \in (1 .. l) \ {i} : \E j \in 1 .. l - 1 : p[j] = k
    <3>1. \A k \in (1 .. l) \ {i} : \E j \in 1 .. l - 1 : Skip(i, j) = k
      BY <1>t, SkipIs
    <3> QED
      BY <2>0, <3>1
  <2>3. \A j, k \in 1 .. l - 1 : j < k => Skip(i, j) < Skip(i, k)
    BY <1>t, SkipIs
  <2>4. \A j, k \in 1 .. l - 1 : p[j] = p[k] => j = k
    <3>1. SUFFICES ASSUME NEW j \in 1 .. l - 1, NEW k \in 1 .. l - 1, p[j] = p[k], j # k PROVE FALSE
      OBVIOUS
    <3>2. Skip(i, j) = Skip(i, k) /\ Skip(i, j) \in Int
      BY <2>0, <2>1, <3>1
    <3>3. j < k \/ k < j
      BY <3>1
    <3> QED
      BY <2>3, <3>2, <3>3
  <2> QED
    BY <2>0, <2>1, <2>2, <2>4
<1> HIDE DEF p
<1>7. Tiles(es, 1 .. l - 1, Len(d.data))
  <2> DEFINE C == 1 .. l - 1
             D == (1 .. l) \ {i}
             n == Len(d.data)
  <2>1. \A j \in C, k \in Nat : Owns(es[j], k) <=> Owns(d.entries[p[j]], k)
    BY <1>4, <1>6
  <2>2. /\ p \in [C -> D] /\ (\A k \in D : \E j \in C : p[j] = k) /\ (\A j, k \in C : p[j] = p[k] => j = k)
        /\ Tiles(d.entries, D, n) /\ n \in Nat
    BY <1>3, <1>6
  <2> HIDE DEF C, D, n
  <2>3. Tiles(es, C, n)
    BY <2>1, <2>2, TilesMoved
  <2> QED
    BY <2>3 DEF C, n
<1>8. c.sorted => InOrder(es)
  <2>1. c.sorted = b.sorted /\ (b.sorted => InOrder(b.entries))
    BY <1>2, <1>3 DEF SoundBuffer, Buffer
  <2>2. \A j \in 1 .. l - 1 : es[j].tag = b.entries[Skip(i, j)].tag /\ Skip(i, j) \in 1 .. l
    BY <1>t, <1>3, <1>4, SkipIs
  <2>3. \A j, k \in 1 .. l - 1 : j < k => Skip(i, j) < Skip(i, k)
    BY <1>t, SkipIs
  <2> QED
    BY <1>t, <1>5, <2>1, <2>2, <2>3 DEF InOrder
<1>9. /\ c \in Buffer /\ c.entries = es /\ c.data = d.data
      /\ c.entryCapacity = b.entryCapacity /\ c.dataCapacity = b.dataCapacity
  BY <1>2, <1>3, <1>4 DEF Buffer, es
<1>10. l - 1 <= b.entryCapacity /\ Len(d.data) <= b.dataCapacity
  <2>1. b.entryCapacity \in Nat /\ b.dataCapacity \in Nat /\ Len(b.data) <= b.dataCapacity /\ l <= b.entryCapacity
    BY BufferTyped DEF SoundBuffer, l
  <2> QED
    BY <1>t, <1>3, <2>1
<1>11. SoundBuffer(c)
  BY <1>4, <1>7, <1>8, <1>9, <1>10 DEF SoundBuffer
<1> QED
  BY <1>11 DEF c

(* Tiles() where the same cells are owned.                                 *)
LEMMA TilesSame ==
  ASSUME NEW es, NEW D, NEW n \in Nat, NEW fs, Tiles(es, D, n),
         \A j \in D, k \in Nat : Owns(fs[j], k) <=> Owns(es[j], k)
  PROVE  Tiles(fs, D, n)
  BY DEF Tiles

(* The entries with a new one at place i.                                  *)
LEMMA ReplacedIs ==
  ASSUME NEW S, NEW s \in Seq(S), NEW i \in 1 .. Len(s), NEW x \in S
  PROVE  /\ [s EXCEPT ![i] = x] \in Seq(S) /\ Len([s EXCEPT ![i] = x]) = Len(s)
         /\ [s EXCEPT ![i] = x][i] = x
         /\ \A j \in (1 .. Len(s)) \ {i} : [s EXCEPT ![i] = x][j] = s[j]
<1> DEFINE r == [s EXCEPT ![i] = x]
           l == Len(s)
<1>0. l \in Nat /\ DOMAIN s = 1 .. l /\ s \in [1 .. l -> S] /\ i \in 1 .. l
  BY LenProperties
<1> HIDE DEF l
<1>1. r \in [1 .. l -> S] /\ r[i] = x /\ \A j \in (1 .. l) \ {i} : r[j] = s[j]
  BY <1>0
<1> HIDE DEF r
<1>2. r \in Seq(S) /\ Len(r) = l
  BY <1>0, <1>1, FunctionIsSeq
<1> QED
  BY <1>1, <1>2 DEF r, l

(* Room for n cells at the end or within, which become those of one value. *)
Written(s, at, n, v) == SubSeq(s, 1, at) \o Array(v, n) \o SubSeq(s, at + n + 1, Len(s))

LEMMA WrittenIs ==
  ASSUME NEW s \in Seq(Nat), NEW at \in Nat, NEW n \in Nat, NEW v \in Nat,
         at + n <= Len(s) \/ at = Len(s)
  PROVE  /\ Written(s, at, n, v) \in Seq(Nat)
         /\ Len(Written(s, at, n, v)) = IF at + n <= Len(s) THEN Len(s) ELSE at + n
<1> DEFINE a == SubSeq(s, 1, at)
           b == Array(v, n)
           c == SubSeq(s, at + n + 1, Len(s))
<1>0. PICK l \in Nat : l = Len(s)
  BY LenProperties
<1>1. a \in Seq(Nat) /\ Len(a) = at
  <2>1. \A j \in 1 .. at : s[j] \in Nat
    BY <1>0, ElementOfSeq
  <2> QED
    BY <1>0, <2>1, SubSeqProperties
<1>2. b \in Seq(Nat) /\ Len(b) = n
  BY ArrayIs
<1>3. c \in Seq(Nat) /\ Len(c) = IF at + n <= l THEN l - at - n ELSE 0
  <2>1. \A j \in at + n + 1 .. Len(s) : s[j] \in Nat
    BY <1>0, ElementOfSeq
  <2> QED
    BY <1>0, <2>1, SubSeqProperties
<1>4. Written(s, at, n, v) = (a \o b) \o c
  BY DEF Written
<1> HIDE DEF a, b, c
<1>5. a \o b \in Seq(Nat) /\ Len(a \o b) = at + n
  BY <1>1, <1>2, JoinedSeq
<1> DEFINE d == a \o b
<1> HIDE DEF d
<1>6. d \in Seq(Nat) /\ Len(d) = at + n
  BY <1>5 DEF d
<1>7. d \o c \in Seq(Nat) /\ Len(d \o c) = at + n + Len(c)
  <2>1. d \in Seq(Nat) /\ c \in Seq(Nat)
    BY <1>3, <1>6
  <2>2. d \o c \in Seq(Nat) /\ Len(d \o c) = Len(d) + Len(c)
    BY <2>1, JoinedSeq
  <2> QED
    BY <1>6, <2>2
<1>8. Written(s, at, n, v) = d \o c
  BY <1>4 DEF d
<1>9. /\ Written(s, at, n, v) \in Seq(Nat)
      /\ Len(Written(s, at, n, v)) = IF at + n <= l THEN l ELSE at + n
  <2>1. at + n <= l \/ at = l
    BY <1>0
  <2>2. Len(d \o c) = IF at + n <= l THEN l ELSE at + n
    <3>1. PICK k \in Nat : k = Len(c)
      BY <1>3, LenProperties
    <3>2. k = IF at + n <= l THEN l - at - n ELSE 0
      BY <1>3, <3>1
    <3>3. at + n + k = IF at + n <= l THEN l ELSE at + n
      BY <3>2
    <3> QED
      BY <1>7, <3>1, <3>3
  <2> QED
    BY <1>7, <1>8, <2>2
<1> QED
  BY <1>0, <1>9

(* The buffer after the new value was written: d is what was cut.          *)
Put(d, e, i, count, at, field) ==
  LET n == Cells(e.tag, count) IN
  [d EXCEPT !.entries = [@ EXCEPT ![i] = [tag |-> e.tag, count |-> count, data |-> field]],
            !.data = IF n = 0 THEN @ ELSE Written(@, at, n, e.tag)]

IsPut(c, d, e, i, n, at) ==
  /\ c \in Buffer /\ Len(c.entries) = Len(d.entries)
  /\ \A j \in (1 .. Len(d.entries)) \ {i} : c.entries[j] = d.entries[j]
  /\ c.entries[i].tag = e.tag
  /\ \A k \in Nat : Owns(c.entries[i], k) <=> at < k /\ k <= at + n
  /\ Len(c.data) = IF n = 0 \/ at + n <= Len(d.data) THEN Len(d.data) ELSE at + n
  /\ c.sorted = d.sorted /\ c.entryCapacity = d.entryCapacity /\ c.dataCapacity = d.dataCapacity

LEMMA PutIs ==
  ASSUME NEW d \in Buffer, NEW e \in Entry, NEW i \in 1 .. Len(d.entries), NEW count \in Nat \ {0},
         NEW at \in Nat, NEW n, n = Cells(e.tag, count), MetadataSizes,
         n = 0 \/ at + n <= Len(d.data) \/ at = Len(d.data),
         NEW f \in Nat, n > 0 => f = at
  PROVE  IsPut(Put(d, e, i, count, at, f), d, e, i, n, at)
<1> DEFINE x == [tag |-> e.tag, count |-> count, data |-> f]
           es == [d.entries EXCEPT ![i] = x]
           area == IF n = 0 THEN d.data ELSE Written(d.data, at, n, e.tag)
           c == Put(d, e, i, count, at, f)
<1>0. /\ d.entries \in Seq(Entry) /\ d.data \in Seq(Nat) /\ Len(d.entries) \in Nat /\ Len(d.data) \in Nat
      /\ n \in Nat /\ e.tag \in Tags /\ e.tag \in Nat
  <2>1. d.entries \in Seq(Entry) /\ d.data \in Seq(Nat)
    BY DEF Buffer
  <2>2. e.tag \in Tags /\ e.tag \in Nat
    BY DEF Entry, MetadataSizes
  <2>3. n \in Nat
    BY <2>2, CellsAreNat
  <2> QED
    BY <2>1, <2>2, <2>3, LenProperties
<1>1. c = [d EXCEPT !.entries = es, !.data = area]
  BY DEF Put
<1>2. x \in Entry /\ x.tag = e.tag /\ x.data = f /\ CellsOf(x) = n
  BY <1>0 DEF Entry, CellsOf
<1> HIDE DEF x
<1>3. /\ es \in Seq(Entry) /\ Len(es) = Len(d.entries) /\ es[i] = x
      /\ \A j \in (1 .. Len(d.entries)) \ {i} : es[j] = d.entries[j]
  <2> DEFINE s == d.entries
  <2>1. s \in Seq(Entry) /\ i \in 1 .. Len(s)
    BY <1>0
  <2> HIDE DEF s
  <2>2. /\ [s EXCEPT ![i] = x] \in Seq(Entry) /\ Len([s EXCEPT ![i] = x]) = Len(s)
        /\ [s EXCEPT ![i] = x][i] = x
        /\ \A j \in (1 .. Len(s)) \ {i} : [s EXCEPT ![i] = x][j] = s[j]
    BY <1>2, <2>1, ReplacedIs
  <2> QED
    BY <2>2 DEF s
<1>4. area \in Seq(Nat) /\ Len(area) = IF n = 0 \/ at + n <= Len(d.data) THEN Len(d.data) ELSE at + n
  <2>1. CASE n = 0
    BY <1>0, <2>1
  <2>2. CASE n # 0
    <3> DEFINE s == d.data
               t == e.tag
    <3>1. s \in Seq(Nat) /\ (at + n <= Len(s) \/ at = Len(s)) /\ t \in Nat /\ n \in Nat
      BY <1>0, <2>2
    <3> HIDE DEF s, t
    <3>2. Written(s, at, n, t) \in Seq(Nat) /\ Len(Written(s, at, n, t)) = IF at + n <= Len(s) THEN Len(s) ELSE at + n
      BY <3>1, WrittenIs
    <3>3. area = Written(s, at, n, t)
      BY <2>2 DEF s, t
    <3>4. ~(n = 0)
      BY <2>2
    <3>5. area \in Seq(Nat) /\ Len(area) = IF at + n <= Len(d.data) THEN Len(d.data) ELSE at + n
      BY <3>2, <3>3 DEF s
    <3> HIDE DEF area
    <3> QED
      BY <3>4, <3>5
  <2> QED
    BY <2>1, <2>2
<1> HIDE DEF es, area, c
<1>5. /\ c \in Buffer /\ c.entries = es /\ c.data = area /\ c.sorted = d.sorted
      /\ c.entryCapacity = d.entryCapacity /\ c.dataCapacity = d.dataCapacity
  BY <1>1, <1>3, <1>4 DEF Buffer
<1>6. \A k \in Nat : Owns(x, k) <=> at < k /\ k <= at + n
  BY <1>0, <1>2 DEF Owns
<1>7. IsPut(c, d, e, i, n, at)
  BY <1>2, <1>3, <1>4, <1>5, <1>6 DEF IsPut
<1> QED
  BY <1>7 DEF c

LEMMA UpdatedIsSound ==
  ASSUME NEW b, SoundBuffer(b), MetadataSizes, NEW i \in 1 .. Len(b.entries), NEW count \in Nat \ {0}
  PROVE  SoundBuffer(Updated(b, i, count))
<1> DEFINE e == b.entries[i]
           D == 1 .. Len(b.entries)
           c == Updated(b, i, count)
           cut == IF CellsOf(e) \in {0, Cells(e.tag, count)} THEN b ELSE CutOut(b, e.data, CellsOf(e))
           at == IF CellsOf(e) = Cells(e.tag, count) THEN e.data ELSE Len(cut.data)
           field == IF Cells(e.tag, count) > 0 THEN at
                    ELSE IF count = 0 THEN cut.entries[i].data ELSE e.tag
<1>t. /\ b \in Buffer /\ Len(b.entries) \in Nat /\ Len(b.data) \in Nat /\ DOMAIN b.entries = D
      /\ e \in Entry /\ b.dataCapacity \in Nat /\ Len(b.entries) <= b.entryCapacity
      /\ Len(b.data) <= b.dataCapacity /\ Tiles(b.entries, D, Len(b.data))
      /\ (b.sorted => InOrder(b.entries))
  BY BufferTyped DEF SoundBuffer
<1>0. PICK n \in Nat, o \in Nat, old \in Nat : n = Cells(e.tag, count) /\ o = e.data /\ old = CellsOf(e)
  <2>1. Cells(e.tag, count) \in Nat
    BY CellsAreNat
  <2> QED
    BY <1>t, <2>1, CellsOfIsNat
<1>1. b.dataCapacity < Len(b.data) + n - old => c = b
  BY <1>0 DEF Updated
<1> SUFFICES ASSUME ~(b.dataCapacity < Len(b.data) + n - old) PROVE SoundBuffer(c)
  BY <1>1
<1>2. c = Put(cut, e, i, count, at, field)
  BY <1>0 DEF Updated, Put, Written
<1>3. e.tag \in Nat
  BY <1>t DEF Entry, MetadataSizes
<1>4. field = IF n > 0 THEN at ELSE e.tag
  BY <1>0
<1> HIDE DEF c, field
<1>a. CASE old = n
  <2>1. cut = b /\ at = o
    BY <1>0, <1>a
  <2> HIDE DEF cut, at
  <2>2. n = 0 \/ o + n <= Len(b.data)
    <3>1. SUFFICES ASSUME n > 0 PROVE o + n <= Len(b.data)
      OBVIOUS
    <3>2. Owns(e, o + n) /\ o + n \in Nat
      <4> HIDE DEF e
      <4>1. e.data = o /\ CellsOf(e) = n
        BY <1>0, <1>a
      <4> QED
        BY <3>1, <4>1 DEF Owns
    <3> QED
      BY <1>t, <3>2 DEF Tiles
  <2>3. IsPut(c, b, e, i, n, o)
    <3>1. field \in Nat /\ (n > 0 => field = o)
      BY <1>3, <1>4, <2>1
    <3> HIDE DEF e
    <3>2. /\ b \in Buffer /\ e \in Entry /\ n = Cells(e.tag, count)
          /\ n = 0 \/ o + n <= Len(b.data) \/ o = Len(b.data)
      BY <1>t, <1>0, <2>2
    <3>3. IsPut(Put(b, e, i, count, o, field), b, e, i, n, o)
      BY <3>1, <3>2, PutIs
    <3> QED
      BY <1>2, <2>1, <3>3
  <2> DEFINE es == c.entries
  <2>4. /\ c \in Buffer /\ Len(es) = Len(b.entries) /\ Len(c.data) = Len(b.data)
        /\ c.sorted = b.sorted /\ c.entryCapacity = b.entryCapacity /\ c.dataCapacity = b.dataCapacity
    BY <2>2, <2>3 DEF IsPut
  <2>5. \A j \in D, k \in Nat : Owns(es[j], k) <=> Owns(b.entries[j], k)
    <3>1. \A k \in Nat : Owns(es[i], k) <=> o < k /\ k <= o + n
      BY <2>3 DEF IsPut
    <3>2. \A k \in Nat : Owns(e, k) <=> o < k /\ k <= o + n
      BY <1>0, <1>a DEF Owns
    <3>3. \A j \in D \ {i} : es[j] = b.entries[j]
      BY <2>3 DEF IsPut
    <3> QED
      BY <3>1, <3>2, <3>3
  <2>6. \A j \in D : es[j].tag = b.entries[j].tag
    BY <2>3 DEF IsPut
  <2> HIDE DEF es
  <2>7. Tiles(es, D, Len(b.data))
    <3> DEFINE m == Len(b.data)
               fs == b.entries
    <3>1. Tiles(fs, D, m) /\ m \in Nat /\ \A j \in D, k \in Nat : Owns(es[j], k) <=> Owns(fs[j], k)
      BY <1>t, <2>5
    <3> HIDE DEF m, fs, D
    <3>2. Tiles(es, D, m)
      BY <3>1, TilesSame
    <3> QED
      BY <3>2 DEF m
  <2>8. es \in Seq(Entry)
    BY <2>4 DEF Buffer, es
  <2>9. DOMAIN es = D
    BY <1>t, <2>4, <2>8, LenProperties
  <2>10. c.sorted => InOrder(es)
    BY <1>t, <2>4, <2>6, <2>9 DEF InOrder
  <2> QED
    BY <1>t, <2>4, <2>7, <2>10 DEF SoundBuffer, es
<1>b. CASE old # n
  <2>1. Freed(cut, b, i) /\ at = Len(cut.data)
    <3>1. at = Len(cut.data)
      BY <1>0, <1>b
    <3>2. CASE old = 0
      <4>1. cut = b
        BY <1>0, <3>2
      <4> HIDE DEF cut
      <4>2. Freed(b, b, i)
        BY <1>0, <3>2, NothingIsFreed
      <4> QED
        BY <3>1, <4>1, <4>2
    <3>3. CASE old # 0
      <4>1. cut = CutOut(b, e.data, CellsOf(e))
        BY <1>0, <1>b, <3>3
      <4> HIDE DEF cut
      <4>2. Freed(CutOut(b, e.data, CellsOf(e)), b, i)
        BY <1>0, <3>3, CellsAreFreed
      <4> QED
        BY <3>1, <4>1, <4>2
    <3> QED
      BY <3>2, <3>3
  <2> HIDE DEF cut, at
  <2>2. /\ cut \in Buffer /\ Len(cut.entries) = Len(b.entries) /\ Len(cut.data) + old = Len(b.data)
        /\ Tiles(cut.entries, D \ {i}, Len(cut.data))
        /\ (\A j \in D : cut.entries[j].tag = b.entries[j].tag)
        /\ cut.sorted = b.sorted /\ cut.entryCapacity = b.entryCapacity /\ cut.dataCapacity = b.dataCapacity
    BY <1>0, <2>1 DEF Freed
  <2>3. PICK m \in Nat : m = Len(cut.data)
    <3>1. cut.data \in Seq(Nat)
      BY <2>2 DEF Buffer
    <3> QED
      BY <3>1, LenProperties
  <2>4. IsPut(c, cut, e, i, n, m)
    <3>1. field \in Nat /\ (n > 0 => field = m)
      BY <1>3, <1>4, <2>1, <2>3
    <3> HIDE DEF e
    <3>2. IsPut(Put(cut, e, i, count, m, field), cut, e, i, n, m)
      BY <1>t, <1>0, <2>2, <2>3, <3>1, PutIs
    <3> QED
      BY <1>2, <2>1, <2>3, <3>2
  <2> DEFINE es == c.entries
  <2>5. /\ c \in Buffer /\ Len(es) = Len(b.entries)
        /\ c.sorted = b.sorted /\ c.entryCapacity = b.entryCapacity /\ c.dataCapacity = b.dataCapacity
    BY <2>2, <2>4 DEF IsPut
  <2>6. Len(c.data) = m + n
    BY <2>3, <2>4 DEF IsPut
  <2>7. m + n <= b.dataCapacity
    <3>1. PICK p \in Nat, q \in Nat : p = Len(b.data) /\ q = b.dataCapacity
      BY <1>t
    <3>2. m + old = p /\ ~(q < p + n - old)
      BY <2>2, <2>3, <3>1
    <3>3. m + n <= q
      BY <3>2
    <3> QED
      BY <3>1, <3>3
  <2>8. Tiles(es, D, m + n)
    <3> DEFINE fs == cut.entries
    <3>1. /\ Tiles(fs, D \ {i}, m) /\ (\A j \in D \ {i}, k \in Nat : Owns(es[j], k) <=> Owns(fs[j], k))
          /\ (\A k \in Nat : Owns(es[i], k) <=> m < k /\ k <= m + n) /\ i \in D
      BY <2>2, <2>3, <2>4 DEF IsPut
    <3> HIDE DEF es, fs, D
    <3> QED
      BY <3>1, TilesWith
  <2>9. \A j \in D : es[j].tag = b.entries[j].tag
    BY <2>2, <2>4 DEF IsPut
  <2>10. es \in Seq(Entry)
    BY <2>5 DEF Buffer
  <2> HIDE DEF es
  <2>11. DOMAIN es = D
    BY <1>t, <2>5, <2>10, LenProperties
  <2>12. c.sorted => InOrder(es)
    BY <1>t, <2>5, <2>9, <2>11 DEF InOrder
  <2> QED
    BY <1>t, <2>5, <2>6, <2>7, <2>8, <2>12 DEF SoundBuffer, es
<1> QED
  BY <1>a, <1>b

-----------------------------------------------------------------------------
(* CameraMetadata.cpp: the objects                                          *)

LEMMA ClonedIsSound ==
  ASSUME NEW b, SoundBuffer(b)
  PROVE  SoundBuffer(Cloned(b))
<1> DEFINE a == Allocated(Len(b.entries), Len(b.data))
<1>1. SoundBuffer(a) /\ a.sorted = FALSE
  BY BufferTyped, AllocatedIsSound
<1> HIDE DEF a
<1>2. SoundBuffer(Appended(a, b))
  BY <1>1, AppendedIsSound
<1> QED
  BY <1>2 DEF Cloned, a

LEMMA ResizedIsSound ==
  ASSUME NEW b, b = NULL \/ SoundBuffer(b), NEW n \in Nat, NEW m \in Nat
  PROVE  SoundBuffer(Resized(b, n, m)) /\ (EmptyAndSorted(Resized(b, n, m)) => EmptyAndSorted(b))
<1>1. CASE b = NULL
  <2> DEFINE a == Allocated(2 * n, 2 * m)
  <2>1. SoundBuffer(a) /\ a.sorted = FALSE
    BY 2 * n \in Nat, 2 * m \in Nat, AllocatedIsSound
  <2>2. Resized(b, n, m) = a
    BY <1>1 DEF Resized
  <2> HIDE DEF a
  <2> QED
    BY <2>1, <2>2 DEF EmptyAndSorted
<1>2. CASE b # NULL /\ Fits(b, n, m)
  BY <1>2 DEF Resized
<1>3. CASE b # NULL /\ ~Fits(b, n, m)
  <2> DEFINE x == Doubled(Len(b.entries) + n, b.entryCapacity)
             y == Doubled(Len(b.data) + m, b.dataCapacity)
             a == Allocated(x, y)
  <2>1. x \in Nat /\ y \in Nat
    BY <1>3, BufferTyped DEF Doubled
  <2>2. Resized(b, n, m) = Appended(a, b)
    BY <1>3 DEF Resized
  <2> HIDE DEF x, y
  <2>3. SoundBuffer(a) /\ a.sorted = FALSE
    BY <2>1, AllocatedIsSound
  <2> HIDE DEF a
  <2>4. /\ SoundBuffer(Appended(a, b))
        /\ Appended(a, b).sorted /\ Appended(a, b).entries = << >> => b.sorted /\ b.entries = << >>
    BY <1>3, <2>3, AppendedIsSound
  <2> QED
    BY <1>3, <2>2, <2>4 DEF EmptyAndSorted
<1> QED
  BY <1>1, <1>2, <1>3

LEMMA FindIs ==
  ASSUME NEW b, SoundBuffer(b), NEW tag
  PROVE  Find(b, tag) \in 0 .. Len(b.entries)
<1>1. Len(b.entries) \in Nat /\ DOMAIN b.entries = 1 .. Len(b.entries)
  BY BufferTyped
<1>2. CASE b.sorted
  <2>1. Bisect(b.entries, tag) \in 0 .. Len(b.entries)
    BY <1>1, BisectIs
  <2> QED
    BY <1>2, <2>1 DEF Find
<1>3. CASE ~b.sorted
  <2> DEFINE found == {i \in DOMAIN b.entries : b.entries[i].tag = tag}
  <2>1. found \subseteq Nat /\ found \subseteq 1 .. Len(b.entries)
    BY <1>1
  <2>2. Find(b, tag) = IF found = {} THEN 0 ELSE CHOOSE i \in found : \A j \in found : i <= j
    BY <1>3 DEF Find
  <2> HIDE DEF found
  <2>3. found # {} => \E i \in found : \A j \in found : i <= j
    BY <2>1, Least
  <2>4. found # {} => Find(b, tag) \in found
    BY <2>2, <2>3
  <2>5. found = {} => Find(b, tag) = 0
    BY <2>2
  <2>6. CASE found = {}
    BY <1>1, <2>5, <2>6
  <2>7. CASE found # {}
    <3>1. Find(b, tag) \in 1 .. Len(b.entries)
      BY <2>1, <2>4, <2>7
    <3> QED
      BY <1>1, <3>1
  <2> QED
    BY <2>6, <2>7
<1> QED
  BY <1>2, <1>3

(* The buffers of all objects are sound.                                   *)
MetadataInv == mBuffer \in [Objects -> {b \in Buffer : SoundBuffer(b)} \union {NULL}]

LEMMA InvOf ==
  ASSUME MetadataInv, NEW o \in Objects
  PROVE  mBuffer[o] = NULL \/ SoundBuffer(mBuffer[o])
  BY DEF MetadataInv

LEMMA BecomesKeepsInv ==
  ASSUME MetadataInv, NEW o \in Objects, NEW b, b = NULL \/ SoundBuffer(b), Becomes(o, b)
  PROVE  MetadataInv'
<1>1. b \in {c \in Buffer : SoundBuffer(c)} \union {NULL}
  BY DEF SoundBuffer
<1> QED
  BY <1>1 DEF Becomes, MetadataInv

LEMMA AppendToKeepsInv ==
  ASSUME MetadataSizes, NULL \notin Buffer, MetadataInv, NEW o \in Objects, NEW p \in Objects,
         AppendTo(o, p)
  PROVE  MetadataInv'
<1> DEFINE src == mBuffer[p]
           r == Resized(mBuffer[o], Len(src.entries), Len(src.data))
<1>1. /\ SoundBuffer(src) /\ (~EmptyAndSorted(mBuffer[o]) \/ src.sorted)
      /\ (mBuffer[o] = NULL \/ SoundBuffer(mBuffer[o])) /\ Becomes(o, Appended(r, src))
  BY InvOf DEF AppendTo, MetadataSizes
<1>2. SoundBuffer(r) /\ (EmptyAndSorted(r) => src.sorted)
  BY <1>1, BufferTyped, ResizedIsSound
<1> HIDE DEF r, src
<1>3. SoundBuffer(Appended(r, src))
  <2>1. CASE r # NULL
    <3>1. ~(r.sorted /\ r.entries = << >> /\ ~src.sorted)
      BY <1>2, <2>1 DEF EmptyAndSorted
    <3> QED
      BY <1>1, <1>2, <3>1, AppendedIsSound
  <2>2. r # NULL
    BY <1>2 DEF SoundBuffer
  <2> QED
    BY <2>1, <2>2
<1> QED
  BY <1>1, <1>3, BecomesKeepsInv

LEMMA UpdateKeepsInv ==
  ASSUME MetadataSizes, MetadataInv, NEW o \in Objects, NEW tag \in Tags, NEW count \in Nat \ {0},
         Update(o, tag, count)
  PROVE  MetadataInv'
<1> DEFINE b == Resized(mBuffer[o], 1, Cells(tag, count))
           i == Find(b, tag)
           c == IF i = 0 THEN Added(b, tag, count) ELSE Updated(b, i, count)
<1>1. Becomes(o, c)
  BY DEF Update
<1>2. SoundBuffer(b)
  BY InvOf, CellsAreNat, ResizedIsSound
<1> HIDE DEF b
<1>3. i \in 0 .. Len(b.entries)
  BY <1>2, FindIs
<1> HIDE DEF i
<1>4. SoundBuffer(c)
  <2>1. CASE i = 0
    BY <1>2, <2>1, AddedIsSound
  <2>2. CASE i # 0
    <3>1. i \in 1 .. Len(b.entries)
      BY <1>3, <2>2
    <3> QED
      BY <1>2, <2>2, <3>1, UpdatedIsSound
  <2> QED
    BY <2>1, <2>2
<1> HIDE DEF c
<1> QED
  BY <1>1, <1>4, BecomesKeepsInv

LEMMA EraseKeepsInv ==
  ASSUME MetadataInv, NEW o \in Objects, NEW tag, Erase(o, tag)
  PROVE  MetadataInv'
<1> DEFINE b == mBuffer[o]
           i == Find(b, tag)
<1>1. i # 0 /\ Becomes(o, Deleted(b, i)) /\ SoundBuffer(b)
  BY InvOf DEF Erase
<1> HIDE DEF b
<1>2. i \in 1 .. Len(b.entries)
  BY <1>1, FindIs
<1>3. SoundBuffer(Deleted(b, i))
  BY <1>1, <1>2, DeletedIsSound
<1> QED
  BY <1>1, <1>3, BecomesKeepsInv

LEMMA OperationKeepsInv ==
  ASSUME MetadataSizes, NULL \notin Buffer, MetadataInv, NEW o \in Objects, Operation(o)
  PROVE  MetadataInv'
<1>1. ASSUME NEW n \in 0 .. 1, Construct(o, n, n) PROVE MetadataInv'
  <2>1. SoundBuffer(Allocated(n, n))
    BY n \in Nat, AllocatedIsSound
  <2>2. Allocated(n, n) \in {c \in Buffer : SoundBuffer(c)}
    BY <2>1 DEF SoundBuffer
  <2> QED
    BY <1>1, <2>2 DEF Construct, MetadataInv
<1>2. ASSUME GetAndLock(o) \/ Unlock(o) PROVE MetadataInv'
  BY <1>2 DEF GetAndLock, Unlock, MetadataInv
<1>3. ASSUME Clear(o) PROVE MetadataInv'
  <2>1. Becomes(o, NULL)
    BY <1>3 DEF Clear
  <2> QED
    BY <2>1, BecomesKeepsInv
<1>4. ASSUME Sort(o) PROVE MetadataInv'
  <2>1. SoundBuffer(mBuffer[o])
    BY <1>4, InvOf DEF Sort
  <2>2. PICK b \in Sortings(mBuffer[o]) : Becomes(o, b)
    BY <1>4 DEF Sort
  <2>3. SoundBuffer(b)
    BY <2>1, SortedIsSound
  <2> QED
    BY <2>2, <2>3, BecomesKeepsInv
<1>5. ASSUME NEW p \in Objects, Assign(o, p) PROVE MetadataInv'
  <2>1. Becomes(o, IF mBuffer[p] = NULL THEN NULL ELSE Cloned(mBuffer[p]))
    BY <1>5 DEF Assign
  <2>2. mBuffer[p] # NULL => SoundBuffer(Cloned(mBuffer[p]))
    BY InvOf, ClonedIsSound
  <2>3. CASE mBuffer[p] = NULL
    BY <2>1, <2>3, BecomesKeepsInv
  <2>4. CASE mBuffer[p] # NULL
    BY <2>1, <2>2, <2>4, BecomesKeepsInv
  <2> QED
    BY <2>3, <2>4
<1>6. ASSUME NEW p \in Objects, Acquire(o, p) PROVE MetadataInv'
  BY <1>6 DEF Acquire, MetadataInv
<1>7. ASSUME NEW p \in Objects, Swap(o, p) PROVE MetadataInv'
  BY <1>7 DEF Swap, MetadataInv
<1>8. ASSUME NEW p \in Objects, Send(o, p) PROVE MetadataInv'
  <2>1. CASE mBuffer[o] = NULL
    <3>1. Becomes(p, NULL)
      BY <1>8, <2>1 DEF Send
    <3> QED
      BY <3>1, BecomesKeepsInv
  <2>2. CASE mBuffer[o] # NULL
    <3>1. Becomes(p, Copied(mBuffer[o]))
      BY <1>8, <2>2 DEF Send
    <3>2. SoundBuffer(Copied(mBuffer[o]))
      BY <2>2, InvOf, CopiedIsSound
    <3> QED
      BY <3>1, <3>2, BecomesKeepsInv
  <2> QED
    BY <2>1, <2>2
<1>9. ASSUME NEW tag \in Tags, NEW n \in Counts(tag), Update(o, tag, n) PROVE MetadataInv'
  <2>1. SizeOfType(tag) = 4 \/ SizeOfType(tag) = 8
    BY DEF SizeOfType
  <2>2. MaxBytes \in Nat /\ MinCount \in Nat /\ MinCount > 0
    BY CameraMetadataAssumption DEF MetadataSizes
  <2>3. n \in Nat \ {0}
    BY <2>1, <2>2 DEF Counts
  <2> QED
    BY <1>9, <2>3, UpdateKeepsInv
<1> QED
  BY <1>1, <1>2, <1>3, <1>4, <1>5, <1>6, <1>7, <1>8, <1>9, AppendToKeepsInv, EraseKeepsInv DEF Operation

(* What the invariant says of each buffer is what is promised of it.       *)
LEMMA OwnedIs ==
  ASSUME NEW e \in Entry
  PROVE  Owned(e) = {k \in Nat : Owns(e, k)}
<1>1. PICK o \in Nat, c \in Nat : o = e.data /\ c = CellsOf(e)
  BY CellsOfIsNat
<1>2. Owned(e) = {o + i : i \in 1 .. c}
  BY <1>1 DEF Owned
<1>3. \A k \in Nat : Owns(e, k) <=> o < k /\ k <= o + c
  BY <1>1 DEF Owns
<1>4. {o + i : i \in 1 .. c} = {k \in Nat : o < k /\ k <= o + c}
  <2>1. ASSUME NEW k \in Nat, o < k, k <= o + c PROVE k \in {o + i : i \in 1 .. c}
    <3>1. k - o \in 1 .. c /\ k = o + (k - o)
      BY <2>1
    <3> QED
      BY <3>1
  <2>2. ASSUME NEW i \in 1 .. c PROVE o + i \in {k \in Nat : o < k /\ k <= o + c}
    OBVIOUS
  <2> QED
    BY <2>1, <2>2
<1> QED
  BY <1>2, <1>3, <1>4

LEMMA SoundIsValid ==
  ASSUME NEW b, SoundBuffer(b)
  PROVE  /\ Valid(b)
         /\ UNION {Owned(e) : e \in ToSet(b.entries)} = DOMAIN b.data
         /\ \A i, j \in DOMAIN b.entries : i # j => Owned(b.entries[i]) \intersect Owned(b.entries[j]) = {}
<1> DEFINE es == b.entries
           D == 1 .. Len(es)
<1>1. /\ DOMAIN es = D /\ (\A i \in D : es[i] \in Entry) /\ Len(b.data) \in Nat
      /\ DOMAIN b.data = 1 .. Len(b.data) /\ Tiles(es, D, Len(b.data))
      /\ Len(es) <= b.entryCapacity /\ Len(b.data) <= b.dataCapacity /\ b.dataCapacity \in Nat
  BY BufferTyped, LenProperties DEF SoundBuffer
<1>2. ToSet(es) = {es[i] : i \in D}
  BY <1>1 DEF ToSet
<1> HIDE DEF es, D
<1>3. ASSUME NEW i \in D PROVE Owned(es[i]) = {k \in Nat : Owns(es[i], k)}
  BY <1>1, OwnedIs
<1>4. ASSUME NEW i \in D, CellsOf(es[i]) > 0
      PROVE  es[i].data + CellsOf(es[i]) <= b.dataCapacity
  <2>1. PICK o \in Nat, c \in Nat : o = es[i].data /\ c = CellsOf(es[i]) /\ c > 0
    BY <1>1, <1>4, CellsOfIsNat
  <2>2. Owns(es[i], o + c) /\ o + c \in Nat
    BY <2>1 DEF Owns
  <2>3. o + c <= Len(b.data)
    BY <1>1, <2>2 DEF Tiles
  <2> QED
    BY <1>1, <2>1, <2>3
<1>5. \A i \in D : es[i].count # 0
  BY <1>1 DEF Entry
<1>6. Valid(b)
  BY <1>1, <1>2, <1>4, <1>5 DEF Valid, es
<1>7. UNION {Owned(e) : e \in ToSet(es)} = DOMAIN b.data
  <2>1. ASSUME NEW e \in ToSet(es), NEW k \in Owned(e) PROVE k \in DOMAIN b.data
    <3>1. PICK i \in D : e = es[i]
      BY <1>2
    <3>2. k \in Nat /\ Owns(es[i], k) /\ es[i] \in Entry
      BY <1>1, <1>3, <2>1, <3>1
    <3>3. k > 0
      <4>1. es[i].data \in Nat
        BY <3>2, CellsOfIsNat
      <4> QED
        BY <3>2, <4>1 DEF Owns
    <3>4. k <= Len(b.data)
      BY <1>1, <3>2 DEF Tiles
    <3> QED
      BY <1>1, <3>2, <3>3, <3>4
  <2>2. ASSUME NEW k \in DOMAIN b.data PROVE \E e \in ToSet(es) : k \in Owned(e)
    <3>1. PICK i \in D : Owns(es[i], k)
      BY <1>1 DEF Tiles
    <3>2. k \in Owned(es[i]) /\ es[i] \in ToSet(es)
      BY <1>1, <1>2, <1>3, <3>1
    <3> QED
      BY <3>2
  <2> QED
    BY <2>1, <2>2
<1>8. ASSUME NEW i \in D, NEW j \in D, i # j PROVE Owned(es[i]) \intersect Owned(es[j]) = {}
  BY <1>1, <1>3, <1>8 DEF Tiles
<1> QED
  BY <1>1, <1>6, <1>7, <1>8 DEF es

LEMMA InvImpliesSound ==
  ASSUME MetadataInv
  PROVE  BuffersAreSound
<1>1. ASSUME NEW b \in Buffers PROVE SoundBuffer(b)
  BY InvOf DEF Buffers
<1>2. BuffersAreValid
  BY <1>1, SoundIsValid DEF BuffersAreValid
<1>3. SortedIsInOrder
  BY <1>1 DEF SortedIsInOrder, SoundBuffer
<1> QED
  BY <1>2, <1>3 DEF BuffersAreSound

(* What a value of the constants must be: values have elements, and nothing*)
(* unsorted is appended to an empty buffer that is marked as sorted.       *)
MetadataConstants == MinCount > 0 /\ Careless = FALSE /\ NULL \notin Buffer

LEMMA MetadataBegins == Init => MetadataInv
  BY DEF Init, MetadataInv

LEMMA MetadataKept ==
  ASSUME MetadataConstants, MetadataInv, [Next]_vars
  PROVE  MetadataInv'
<1>0. MetadataSizes /\ NULL \notin Buffer
  BY CameraMetadataAssumption DEF MetadataSizes, MetadataConstants, Tags
<1>1. CASE Next
  BY <1>0, <1>1, OperationKeepsInv DEF Next
<1>2. CASE UNCHANGED vars
  BY <1>2 DEF vars, MetadataInv
<1> QED
  BY <1>1, <1>2

=============================================================================
