------------------------------- MODULE Region -------------------------------
(***************************************************************************)
(* libui's Region: a set of pixels kept as a list of rectangles, in spans  *)
(* of one top and one bottom, followed by their bounds if it has more than *)
(* one; and Rect, of which it is made.                                     *)
(***************************************************************************)
EXTENDS Integers, Sequences, FiniteSets, FiniteSetsExt, SequencesExt

CONSTANTS
  Width, Height,  \* bound: the grid on which rectangles are placed
  Shifts,         \* bound: offsets by which a right-hand side is moved
  MaxRects        \* bound: rectangles of a region that is a right-hand side

RegionAssumption ==
  {Width, Height, MaxRects} \subseteq Nat /\ Shifts \subseteq Nat

VARIABLES
  mStorage,   \* of a region
  rhs,        \* mStorage of another region, the next right-hand side
  points,     \* the pixels that the two should have: ghosts
  rhsPoints

regionVars == <<mStorage, rhs, points, rhsPoints>>

max_value == 134217727

-----------------------------------------------------------------------------
(* Rect.cpp *)

Rect(l, t, r, b) == [left |-> l, top |-> t, right |-> r, bottom |-> b]
Rects == {Rect(l, t, r, b) : l, r \in 0 .. Width, t, b \in 0 .. Height}
IsValid(c) == c.left <= c.right /\ c.top <= c.bottom
RectIsEmpty(c) == c.right <= c.left \/ c.bottom <= c.top
OffsetBy(c, x, y) == Rect(c.left + x, c.top + y, c.right + x, c.bottom + y)

(* operator <: an order of tops, lefts, bottoms and rights.                *)
Less(a, b) ==
  \/ a.top < b.top
  \/ a.top = b.top /\ a.left < b.left
  \/ a.top = b.top /\ a.left = b.left /\ a.bottom < b.bottom
  \/ a.top = b.top /\ a.left = b.left /\ a.bottom = b.bottom /\ a.right < b.right

(* intersect() *)
Smaller(a, b) == IF a < b THEN a ELSE b
Larger(a, b) == IF a > b THEN a ELSE b
Intersected(a, b) ==
  Rect(Larger(a.left, b.left), Larger(a.top, b.top),
       Smaller(a.right, b.right), Smaller(a.bottom, b.bottom))

(* reduce() *)
Reduced(c, exclude) ==
  LET mask == {s \in {"left", "top"} : exclude[s] > c[s]}
              \union {s \in {"right", "bottom"} : exclude[s] < c[s]}
  IN CASE mask = {} -> Rect(0, 0, 0, 0)
       [] mask = {"left"} -> [c EXCEPT !.right = exclude.left]
       [] mask = {"top"} -> [c EXCEPT !.bottom = exclude.top]
       [] mask = {"right"} -> [c EXCEPT !.left = exclude.right]
       [] mask = {"bottom"} -> [c EXCEPT !.top = exclude.bottom]
       [] OTHER -> c

-----------------------------------------------------------------------------
(* RegionHelper.h: two sorted lists of intervals are walked together.      *)

Interval(head, tail, of) == [head |-> head, tail |-> tail, of |-> of]

(* What is inside a piece: the operand's bit of the truth table.           *)
lhs_before_rhs == 0
lhs_after_rhs == 1
lhs_coincide_rhs == 2

(* SpannerBase::next(): a piece, with what it is part of on either side,   *)
(* of the lists that are left.                                             *)
NextPiece(st) ==
  LET lh == IF st.l = <<>> THEN Interval(max_value, max_value, <<>>) ELSE st.l[1]
      rh == IF st.r = <<>> THEN Interval(max_value, max_value, <<>>) ELSE st.r[1]
      head == Smaller(lh.head, rh.head)
      tail == IF lh.head = rh.head THEN Smaller(lh.tail, rh.tail)
              ELSE IF head = lh.head THEN Smaller(lh.tail, rh.head) ELSE Smaller(rh.tail, lh.head)
      inside == IF lh.head = rh.head THEN lhs_coincide_rhs
                ELSE IF head = lh.head THEN lhs_before_rhs ELSE lhs_after_rhs
      From(list) == IF list[1].tail <= tail THEN Tail(list)
                    ELSE <<[list[1] EXCEPT !.head = tail]>> \o Tail(list)
  IN [l |-> IF lh.head = head THEN From(st.l) ELSE st.l,
      r |-> IF rh.head = head THEN From(st.r) ELSE st.r,
      pieces |-> Append(st.pieces, [inside |-> inside, head |-> head, tail |-> tail,
                                    lhs |-> lh.of, rhs |-> rh.of])]

(* Until both are at their end: a piece ends where an interval begins or   *)
(* ends.                                                                   *)
Pieces(l, r) ==
  LET Walk(st, i) == IF st.l = <<>> /\ st.r = <<>> THEN st ELSE NextPiece(st)
  IN FoldLeft(Walk, [l |-> l, r |-> r, pieces |-> <<>>],
              [i \in 1 .. 2 * (Len(l) + Len(r)) |-> i]).pieces

(* getArray(): the rectangles without the bounds.                          *)
Array(storage) == IF Len(storage) = 1 THEN storage ELSE Front(storage)

(* Spanner::advance(): the spans of a list of rectangles.                  *)
Spans(array, dx, dy) ==
  LET tops == SetToSortSeq({c.top : c \in ToSet(array)}, <)
      Span(t) == SelectSeq(array, LAMBDA c : c.top = t)
      Sides(c) == Interval(c.left + dx, c.right + dx, <<>>)
  IN [i \in DOMAIN tops |->
        LET span == Span(tops[i]) IN
        Interval(tops[i] + dy, span[1].bottom + dy, [j \in DOMAIN span |-> Sides(span[j])])]

op_nand == {lhs_before_rhs}
op_and == {lhs_coincide_rhs}
op_or == {lhs_before_rhs, lhs_after_rhs, lhs_coincide_rhs}
op_xor == {lhs_before_rhs, lhs_after_rhs}

(* rasterizer::operator(): a rectangle that begins where the last ends is  *)
(* added to it.                                                            *)
Joined(span, c) ==
  IF span # <<>> /\ Last(span).right = c.left
  THEN Append(Front(span), [Last(span) EXCEPT !.right = c.right]) ELSE Append(span, c)

(* SpannerInner::prepare() and next(), for one piece of the Spanner.       *)
Row(op, piece) ==
  LET inner == Pieces(IF piece.inside = lhs_after_rhs THEN <<>> ELSE piece.lhs,
                      IF piece.inside = lhs_before_rhs THEN <<>> ELSE piece.rhs)
      Wanted(p) == p.inside \in op /\ p.head < p.tail /\ piece.head < piece.tail
      Add(span, p) == Joined(span, Rect(p.head, piece.head, p.tail, piece.tail))
  IN FoldLeft(Add, <<>>, SelectSeq(inner, Wanted))

(* rasterizer::flushSpan(): a span that goes on with the rectangles of the *)
(* last one is added to that; and with as many, in a variant.              *)
SameNumber(p, q) == Len(p) = Len(q)
SameSides(p, q) ==
  Len(p) = Len(q) /\ \A i \in DOMAIN p : p[i].left = q[i].left /\ p[i].right = q[i].right
Flushed(spans, span) ==
  IF span = <<>> THEN spans
  ELSE IF spans = <<>> \/ ~SameSides(span, Last(spans)) \/ span[1].top # Last(spans)[1].bottom
  THEN Append(spans, span)
  ELSE Append(Front(spans),
              [i \in DOMAIN span |-> [Last(spans)[i] EXCEPT !.bottom = span[i].bottom]])

(* ~rasterizer(): the bounds.                                              *)
Bounds(array) ==
  IF array = <<>> THEN Rect(0, 0, 0, 0)
  ELSE Rect(Min({c.left : c \in ToSet(array)}), array[1].top,
            Max({c.right : c \in ToSet(array)}), Last(array).bottom)
WithBounds(array) == IF Len(array) = 1 THEN array ELSE Append(array, Bounds(array))

(* boolean_operation() *)
BooleanOperation(op, l, r, dx, dy) ==
  LET pieces == Pieces(Spans(Array(l), 0, 0), Spans(Array(r), dx, dy))
      Flush(spans, piece) == Flushed(spans, Row(op, piece))
  IN WithBounds(FlattenSeq(FoldLeft(Flush, <<>>, pieces)))

-----------------------------------------------------------------------------
(* Region.cpp *)

GetBounds(storage) == Last(storage)
RegionIsEmpty(storage) == RectIsEmpty(GetBounds(storage))
IsRect(storage) == Len(storage) = 1

Translated(storage, dx, dy) ==
  IF RegionIsEmpty(storage) THEN storage
  ELSE [i \in DOMAIN storage |-> OffsetBy(storage[i], dx, dy)]

Pixels(c) == (c.left .. c.right - 1) \X (c.top .. c.bottom - 1)

(* What contains() says is inside.                                         *)
PointsOf(storage) == UNION {Pixels(c) : c \in ToSet(Array(storage))}

(* validate() *)
Validate(storage) ==
  LET array == Array(storage) b == GetBounds(storage) IN
  /\ Len(storage) # 2
  /\ \A c \in ToSet(array) : IsValid(c) /\ c.right <= max_value /\ c.bottom <= max_value
  /\ \A i \in 2 .. Len(array) :
       LET prev == array[i - 1] cur == array[i] IN
       /\ Less(prev, cur)
       /\ IF cur.top = prev.top THEN cur.bottom = prev.bottom /\ prev.right <= cur.left
          ELSE prev.bottom <= cur.top
  /\ b = Rect(Min({c.left : c \in ToSet(array)}), Min({c.top : c \in ToSet(array)}),
              Max({c.right : c \in ToSet(array)}), Max({c.bottom : c \in ToSet(array)}))

(* reverseRectsResolvingJunctions(): the places of the span before, which  *)
(* is in dst, are begin .. end; edge by edge a rectangle is cut where a    *)
(* rectangle of that span begins or ends.  Spans that do not touch are not *)
(* looked at.                                                              *)
direction_LTR == "LTR"
direction_RTL == "RTL"

(* A rectangle left to right, seen from the right if the direction is RTL. *)
Split(st, prev, direction) ==
  LET Cut(s, edge) ==
        IF ~(s.left < edge /\ edge < s.right) THEN s
        ELSE IF direction = direction_RTL
        THEN [s EXCEPT !.out = Append(@, Rect(edge, s.top, s.right, s.bottom)), !.right = edge]
        ELSE [s EXCEPT !.out = Append(@, Rect(s.left, s.top, edge, s.bottom)), !.left = edge]
  IN IF direction = direction_RTL THEN Cut(Cut(st, prev.right), prev.left)
     ELSE Cut(Cut(st, prev.left), prev.right)

(* Whether the rectangles of the span before are behind a rectangle, or    *)
(* still ahead of it.                                                      *)
TooFar(st, prev, direction) ==
  IF direction = direction_RTL THEN prev.right <= st.left ELSE prev.left >= st.right
Passed(st, prev, direction) ==
  IF direction = direction_RTL THEN prev.left >= st.right ELSE prev.right <= st.left

(* The loop over prevIndex, for one rectangle, which breaks off.           *)
Resolve(st, dst, begin, end, direction) ==
  LET Against(s, i) ==
        IF s.done \/ TooFar(s, dst[i], direction) THEN [s EXCEPT !.done = TRUE]
        ELSE LET cut == Split(s, dst[i], direction)
             IN IF Passed(cut, dst[i], direction) THEN [cut EXCEPT !.begin = i] ELSE cut
  IN FoldLeft(Against, st, [k \in 1 .. end - begin + 1 |-> begin + k - 1])

Resolved(acc, cur, below, direction) ==
  LET new == cur.top # below.top
      touching == IF direction = direction_RTL THEN cur.bottom = below.top ELSE cur.top = below.bottom
      end == IF new THEN Len(acc.dst) ELSE acc.end
      begin == IF ~new THEN acc.begin ELSE IF touching THEN acc.end + 1 ELSE Len(acc.dst) + 1
      st == Resolve([left |-> cur.left, right |-> cur.right, top |-> cur.top, bottom |-> cur.bottom,
                     begin |-> begin, out |-> <<>>, done |-> FALSE], acc.dst, begin, end, direction)
      rest == IF st.left < st.right THEN <<Rect(st.left, st.top, st.right, st.bottom)>> ELSE <<>>
  IN [dst |-> acc.dst \o st.out \o rest, begin |-> st.begin, end |-> end]

ReverseRectsResolvingJunctions(array, direction) ==
  LET first == SelectSeq(array, LAMBDA c : c.top = Last(array).top)
      n == Len(array) - Len(first)
      Step(acc, i) == Resolved(acc, array[i], array[i + 1], direction)
  IN FoldLeft(Step, [dst |-> Reverse(first), begin |-> 0, end |-> 0],
              [k \in 1 .. n |-> n + 1 - k]).dst

CreateTJunctionFreeRegion(storage) ==
  IF RegionIsEmpty(storage) \/ IsRect(storage) THEN storage
  ELSE Append(ReverseRectsResolvingJunctions(
                ReverseRectsResolvingJunctions(Array(storage), direction_RTL), direction_LTR),
              GetBounds(storage))

-----------------------------------------------------------------------------
Grid == Pixels(Rect(0, 0, Width, Height))
Moved(P, dx, dy) == {<<p[1] + dx, p[2] + dy>> : p \in P}
Meaning(op, P, Q) ==
  (IF lhs_before_rhs \in op THEN P \ Q ELSE {})
  \union (IF lhs_after_rhs \in op THEN Q \ P ELSE {})
  \union (IF lhs_coincide_rhs \in op THEN P \intersect Q ELSE {})

Init ==
  /\ mStorage = <<Rect(0, 0, 0, 0)>> /\ rhs = <<Rect(0, 0, 0, 0)>>
  /\ points = {} /\ rhsPoints = {}

(* set() and clear(), of a rectangle that may be empty.                    *)
SetRect(c) ==
  IsValid(c) /\ rhs' = <<c>> /\ rhsPoints' = Pixels(c) /\ UNCHANGED <<mStorage, points>>

(* operator=, and a flattened copy.                                        *)
Copy ==
  /\ Len(Array(mStorage)) <= MaxRects
  /\ rhs' = mStorage /\ rhsPoints' = points /\ UNCHANGED <<mStorage, points>>

(* orSelf(), xorSelf(), andSelf() and subtractSelf().                      *)
OperationSelf(op, dx, dy) ==
  /\ mStorage' = BooleanOperation(op, mStorage, rhs, dx, dy)
  /\ points' = Meaning(op, points, Moved(rhsPoints, dx, dy))
  /\ points' \subseteq Grid
  /\ UNCHANGED <<rhs, rhsPoints>>

TranslateSelf(dx, dy) ==
  /\ mStorage' = Translated(mStorage, dx, dy) /\ points' = Moved(points, dx, dy)
  /\ points' \subseteq Grid
  /\ UNCHANGED <<rhs, rhsPoints>>

(* makeBoundsSelf() *)
MakeBoundsSelf ==
  /\ mStorage' = <<GetBounds(mStorage)>> /\ points' = Pixels(GetBounds(mStorage))
  /\ UNCHANGED <<rhs, rhsPoints>>

Next ==
  \/ \E c \in Rects : SetRect(c)
  \/ Copy \/ MakeBoundsSelf
  \/ \E dx, dy \in Shifts :
       TranslateSelf(-dx, -dy) \/ \E op \in {op_nand, op_and, op_or, op_xor} : OperationSelf(op, dx, dy)

Spec == Init /\ [][Next]_regionVars

-----------------------------------------------------------------------------
(* Properties *)

(* VALIDATE_REGIONS, and what it is for: whatever was combined, a region   *)
(* is a list that every reader accepts, of exactly the pixels that the     *)
(* operations on sets of pixels give, and regions of the same pixels that  *)
(* were computed are the same lists.                                       *)
RegionsAreTheirPixels ==
  /\ Validate(mStorage) /\ PointsOf(mStorage) = points
  /\ Validate(rhs) /\ PointsOf(rhs) = rhsPoints
  /\ points = rhsPoints /\ points # {} => mStorage = rhs

(* "Creates a new region with the same data as the argument, but divides   *)
(* rectangles as necessary to remove T-Junctions": the same pixels, and no *)
(* rectangle's corner is inside an edge of one above or below it.          *)
NoTJunction(array) ==
  \A a, b \in ToSet(array) :
    a.bottom = b.top \/ b.bottom = a.top =>
      \A x \in {a.left, a.right} : ~(b.left < x /\ x < b.right)
JunctionsAreResolved ==
  LET free == CreateTJunctionFreeRegion(mStorage) IN
  Validate(free) /\ PointsOf(free) = points /\ NoTJunction(Array(free))

(* Of rectangles: what two have in common is what their pixels have, and   *)
(* reduce(), which does not always give the bounds of a difference, never  *)
(* loses a pixel of it.                                                    *)
RectsKeepTheirPixels ==
  \A c \in ToSet(mStorage), e \in ToSet(rhs) :
    /\ Pixels(Intersected(c, e)) = Pixels(c) \intersect Pixels(e)
    /\ Pixels(c) \ Pixels(e) \subseteq Pixels(Reduced(c, e))

=============================================================================
