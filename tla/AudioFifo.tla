----------------------------- MODULE AudioFifo -----------------------------
(***************************************************************************)
(* The lock-free FIFO of audio_utils/fifo.c: one writer and one reader, on *)
(* two threads, over a ring of FrameCount frames.                          *)
(*                                                                         *)
(* mFront and mRear are 32-bit indices that run on and wrap around; their  *)
(* low bits, modulo FrameCountP2, are an offset into the ring, and the     *)
(* high bits count the rounds.  When FrameCount is no power of two the     *)
(* indices skip the offsets past the ring's end.  Each side loads the      *)
(* other's index once (acquire), copies in one or two parts and stores its *)
(* own index (release): these are the steps.  Subtracting the indices      *)
(* wraps as the machine's subtraction does.                                *)
(***************************************************************************)
EXTENDS Integers, Sequences, FiniteSets, FiniteSetsExt

CONSTANTS
  FrameCount,  \* mFrameCount
  Width,       \* bits of an index: 32 in the code
  MaxCount,    \* bound: frames asked for by one call
  NumFrames    \* bound: frames told apart, more than twice FrameCount

Wrap == 2 ^ Width

(* roundup(): FrameCount rounded up to a power of two.                     *)
FrameCountP2 == CHOOSE p \in {2 ^ k : k \in 0 .. Width} :
                  p >= FrameCount /\ p < 2 * FrameCount

FudgeFactor == FrameCountP2 - FrameCount

(* "We would need a 64-bit roundup to support larger frameCount."          *)
ASSUME AudioFifoAssumption ==
  /\ FrameCount \in Nat \ {0} /\ Width \in Nat \ {0} /\ FrameCount <= 2 ^ (Width - 1)
  /\ MaxCount \in Nat
  /\ NumFrames \in Nat /\ NumFrames > 2 * FrameCount

(* What the proofs need to know of powers, of which provers know nothing.  *)
ASSUME PowersOfTwo ==
  2 ^ 0 = 1 /\ \A k \in 0 .. Width - 1 : 2 ^ (k + 1) = 2 * 2 ^ k

VARIABLES
  front,      \* mFront
  rear,       \* mRear
  buffer,     \* mBuffer, one frame a slot
  writer,     \* where audio_utils_fifo_write() is, with how many frames
  reader,     \* where audio_utils_fifo_read() is, and what it has copied
  written,    \* history: the number of the next frame to write
  delivered   \* history: the frames the last read has returned

vars == <<front, rear, buffer, writer, reader, written, delivered>>

Slots == 0 .. FrameCount - 1
Frames == 0 .. NumFrames - 1
Indices == 0 .. Wrap - 1

(* audio_utils_fifo_init() *)
Init ==
  /\ front = 0 /\ rear = 0
  /\ buffer = [s \in Slots |-> 0]
  /\ writer = [pc |-> "idle", n |-> 0]
  /\ reader = [pc |-> "idle", n |-> 0, got |-> <<>>]
  /\ written = 0 /\ delivered = <<>>

-----------------------------------------------------------------------------
(* Indices *)

Offset(index) == index % FrameCountP2
Round(index) == index - Offset(index)

(* audio_utils_fifo_sum()                                                  *)
Sum(index, increment) ==
  (index + increment
     + IF Offset(index) + increment >= FrameCount THEN FudgeFactor ELSE 0) % Wrap

(* audio_utils_fifo_diff(): a difference of int32_t, less what was skipped *)
(* if the indices are in different rounds; a variant forgets that.         *)
Signed(x) == IF x % Wrap >= Wrap \div 2 THEN (x % Wrap) - Wrap ELSE x % Wrap
DiffUnfudged(r, f) == Signed(r - f)
Diff(r, f) == Signed(Signed(r - f) - IF Round(r) # Round(f) THEN FudgeFactor ELSE 0)

(* Part one of a copy of n frames ends at the end of the ring.             *)
Part1(index, n) == Min({n, FrameCount - Offset(index)})

-----------------------------------------------------------------------------
(* audio_utils_fifo_write() *)

(* As many frames as there is room for; and a variant that does not look.  *)
WriteBeginBlindly(count) ==
  LET n == Min({FrameCount, count}) IN
  /\ writer.pc = "idle" /\ n > 0
  /\ writer' = [pc |-> "part1", n |-> n]
  /\ UNCHANGED <<front, rear, buffer, reader, written, delivered>>
WriteBegin(count) ==
  LET n == Min({FrameCount - Diff(rear, front), count}) IN
  /\ writer.pc = "idle" /\ n > 0
  /\ writer' = [pc |-> "part1", n |-> n]
  /\ UNCHANGED <<front, rear, buffer, reader, written, delivered>>

(* Frames first, first + 1, ... of the caller's into n slots from slot s.  *)
Filled(s, first, n) ==
  [x \in Slots |-> IF x \in s .. s + n - 1 THEN (written + first + x - s) % NumFrames
                   ELSE buffer[x]]

WritePart1 ==
  LET k == Part1(rear, writer.n) IN
  /\ writer.pc = "part1"
  /\ buffer' = Filled(Offset(rear), 0, k)
  /\ writer' = [writer EXCEPT !.pc = IF writer.n > k THEN "part2" ELSE "store"]
  /\ UNCHANGED <<front, rear, reader, written, delivered>>

(* The rest goes to the ring's start.                                       *)
WritePart2 ==
  LET k == Part1(rear, writer.n) IN
  /\ writer.pc = "part2"
  /\ buffer' = Filled(0, k, writer.n - k)
  /\ writer' = [writer EXCEPT !.pc = "store"]
  /\ UNCHANGED <<front, rear, reader, written, delivered>>

WriteStore ==
  /\ writer.pc = "store"
  /\ rear' = Sum(rear, writer.n)
  /\ writer' = [pc |-> "idle", n |-> 0]
  /\ written' = (written + writer.n) % NumFrames
  /\ UNCHANGED <<front, buffer, reader, delivered>>

-----------------------------------------------------------------------------
(* audio_utils_fifo_read()                                                  *)
ReadBegin(count) ==
  LET n == Min({Diff(rear, front), count}) IN
  /\ reader.pc = "idle" /\ n > 0
  /\ reader' = [pc |-> "part1", n |-> n, got |-> <<>>]
  /\ UNCHANGED <<front, rear, buffer, writer, written, delivered>>

ReadPart1 ==
  LET k == Part1(front, reader.n) IN
  /\ reader.pc = "part1"
  /\ reader' = [reader EXCEPT !.pc = IF reader.n > k THEN "part2" ELSE "store",
                              !.got = [i \in 1 .. k |-> buffer[Offset(front) + i - 1]]]
  /\ UNCHANGED <<front, rear, buffer, writer, written, delivered>>

ReadPart2 ==
  LET k == Part1(front, reader.n) IN
  /\ reader.pc = "part2"
  /\ reader' = [reader EXCEPT !.pc = "store",
                              !.got = @ \o [i \in 1 .. reader.n - k |-> buffer[i - 1]]]
  /\ UNCHANGED <<front, rear, buffer, writer, written, delivered>>

ReadStore ==
  /\ reader.pc = "store"
  /\ front' = Sum(front, reader.n)
  /\ delivered' = reader.got
  /\ reader' = [pc |-> "idle", n |-> 0, got |-> <<>>]
  /\ UNCHANGED <<rear, buffer, writer, written>>

-----------------------------------------------------------------------------
Writing == (\E count \in 1 .. MaxCount : WriteBegin(count)) \/ WritePart1 \/ WritePart2 \/ WriteStore
Reading == (\E count \in 1 .. MaxCount : ReadBegin(count)) \/ ReadPart1 \/ ReadPart2 \/ ReadStore

Next == Writing \/ Reading

Spec == Init /\ [][Next]_vars

-----------------------------------------------------------------------------
(* Properties *)

TypeOK ==
  /\ front \in Indices /\ rear \in Indices
  /\ buffer \in [Slots -> Frames]
  /\ writer \in [pc : {"idle", "part1", "part2", "store"}, n : 0 .. FrameCount]
  /\ reader \in [pc : {"idle", "part1", "part2", "store"}, n : 0 .. FrameCount, got : Seq(Frames)]
  /\ written \in Frames
  /\ delivered \in Seq(Frames)

(* The assertions of audio_utils_fifo_sum() and audio_utils_fifo_diff():   *)
(* offsets are in the ring, the writer is at most a round ahead, and       *)
(* "FIFO should not be overfull".                                          *)
IndicesAreSane ==
  /\ Offset(front) < FrameCount /\ Offset(rear) < FrameCount
  /\ (Round(rear) - Round(front)) % Wrap \in {0, FrameCountP2}
  /\ Diff(rear, front) \in 0 .. FrameCount

(* The slots a call under way copies from or to.                           *)
Ring(index, n) == {(Offset(index) + i) % FrameCount : i \in 0 .. n - 1}

(* Writer and reader never touch one slot at once, and the writer never    *)
(* touches a frame that has not been read.                                 *)
SlotsAreExclusive ==
  /\ Ring(rear, writer.n) \intersect Ring(front, reader.n) = {}
  /\ Ring(rear, writer.n) \intersect Ring(front, Diff(rear, front)) = {}

(* The frames between the indices, in order, are the abstract queue: calls *)
(* take effect when they store their index, no frame is lost, repeated,    *)
(* torn or read out of order, and never more than FrameCount are there.    *)
Queue == [i \in 1 .. Diff(rear, front) |-> buffer[(Offset(front) + i - 1) % FrameCount]]

Abstract == INSTANCE FrameQueue WITH queue <- Queue
IsAFrameQueue == Abstract!Spec

=============================================================================
