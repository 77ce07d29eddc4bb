----------------------------- MODULE FrameQueue -----------------------------
(* What audio_utils/fifo.h promises of the FIFO: "single writer, single    *)
(* reader non-blocking", at most FrameCount frames, read in the order they *)
(* were written.  The frames are numbered in that order, modulo NumFrames. *)
EXTENDS Naturals, Sequences

CONSTANTS FrameCount, NumFrames

VARIABLES
  queue,     \* the frames written and not yet read
  written,   \* the number of the next frame to be written
  delivered  \* the frames the last read has returned

vars == <<queue, written, delivered>>

Numbered(first, n) == [i \in 1 .. n |-> (first + i - 1) % NumFrames]

Init ==
  /\ queue = <<>>
  /\ written = 0
  /\ delivered = <<>>

Write(n) ==
  /\ Len(queue) + n <= FrameCount
  /\ queue' = queue \o Numbered(written, n)
  /\ written' = (written + n) % NumFrames
  /\ UNCHANGED delivered

Read(n) ==
  /\ n <= Len(queue)
  /\ delivered' = SubSeq(queue, 1, n)
  /\ queue' = SubSeq(queue, n + 1, Len(queue))
  /\ UNCHANGED written

Next == \E n \in 1 .. FrameCount : Write(n) \/ Read(n)

Spec == Init /\ [][Next]_vars

=============================================================================
