--------------------------- MODULE EchoReference ---------------------------
(* The buffer between the thread that plays and the one that records       *)
(* (echo_reference.c): the reader takes what the writer put in, aligned in *)
(* time with what it records.  Both hold the lock but while the reader     *)
(* waits for frames.  Frames are numbered as they are written; 0 is        *)
(* silence.  A delay is a number of frames, and a deviation is one from    *)
(* MIN_DELAY_DELTA on.                                                     *)
EXTENDS Integers, SequencesExt

CONSTANTS
  Counts,           \* frames of a call
  Delays,           \* expected delays; 0 if it is not known or negative
  MIN_DELAY_DELTA, MIN_DELTA_NUM,
  DELTA_COUNTS,     \* delta_count wraps around at it: 2^16 in the code
  Resampling,       \* reader and writer have different rates
  MaxWritten, MaxFrames  \* bounds: frames written, and frames in the buffer

EchoReferenceAssumption ==
  /\ Counts \subseteq Nat \ {0} /\ Delays \subseteq Nat
  /\ MIN_DELAY_DELTA \in Nat \ {0} /\ MIN_DELTA_NUM \in Nat
  /\ DELTA_COUNTS \in Nat \ {0}
  /\ Resampling \in BOOLEAN

VARIABLES
  reading, writing,  \* the two bits of state
  buffer,            \* the frames_in frames in the buffer
  buf_size,
  rendered,          \* there is a wr_render_time
  delta_count, prev_delta_sign,
  waiting,           \* frames the reader waits for, 0 if it does not
  written, read,     \* the last frame written and the last one read
  since              \* the last frame written before the buffer was reset

echoVars == <<reading, writing, buffer, buf_size, rendered, delta_count,
              prev_delta_sign, waiting, written, read, since>>

Silence(n) == [i \in 1 .. n |-> 0]
Grown(size, n) == IF n > size THEN n ELSE size

Init ==
  /\ reading = FALSE /\ writing = FALSE
  /\ buffer = <<>> /\ buf_size = 0 /\ rendered = FALSE
  /\ delta_count = 0 /\ prev_delta_sign = 0
  /\ waiting = 0 /\ written = 0 /\ read = 0 /\ since = 0

(* echo_reference_reset_l(), and one that forgets frames_in.               *)
ResetKeeping ==
  /\ buf_size' = 0 /\ rendered' = FALSE
  /\ delta_count' = 0 /\ prev_delta_sign' = 0
  /\ since' = written
  /\ UNCHANGED buffer
Reset ==
  /\ buffer' = <<>> /\ buf_size' = 0 /\ rendered' = FALSE
  /\ delta_count' = 0 /\ prev_delta_sign' = 0
  /\ since' = written
-----------------------------------------------------------------------------
StopWrite ==
  /\ writing' = FALSE
  /\ Reset
  /\ UNCHANGED <<reading, waiting, written, read>>

(* A resampler keeps some frames back and returns them later.              *)
Produced(n) == IF Resampling THEN 0 .. n + 1 ELSE {n}

(* Nothing is stored before there is a time stamp and a reader.            *)
Write(n, stamped) ==
  /\ rendered \/ stamped
  /\ writing' = TRUE
  /\ \/ /\ ~ reading
        /\ UNCHANGED <<buffer, buf_size, rendered, written>>
     \/ /\ reading
        /\ rendered' = stamped
        /\ \E k \in Produced(n) :
             /\ written' = written + k
             /\ buffer' = buffer \o [i \in 1 .. k |-> written + i]
        /\ buf_size' = Grown(buf_size, Len(buffer'))
  /\ UNCHANGED <<reading, delta_count, prev_delta_sign, waiting, read, since>>
-----------------------------------------------------------------------------
StopRead ==
  /\ waiting = 0 /\ reading
  /\ reading' = FALSE
  /\ UNCHANGED <<writing, buffer, buf_size, rendered, delta_count,
                 prev_delta_sign, waiting, written, read, since>>

Sign(delta) == IF delta >= 0 THEN 1 ELSE -1
Deviates(delta) == delta >= MIN_DELAY_DELTA \/ delta <= - MIN_DELAY_DELTA

(* The deviations of the same direction with this one.                     *)
DeltaCount(delta) ==
  IF ~ Deviates(delta) THEN 0
  ELSE IF Sign(delta) = prev_delta_sign
         THEN (delta_count + 1) % DELTA_COUNTS ELSE 1

(* The buffer with as many frames as the delay takes: silence after those  *)
(* there are, or without the oldest.                                       *)
Aligned(delay) ==
  IF delay > Len(buffer)
    THEN buffer \o Silence(delay - Len(buffer))
    ELSE SubSeq(buffer, Len(buffer) - delay + 1, Len(buffer))

Corrected(delay) ==
  IF DeltaCount(Len(buffer) - delay) > MIN_DELTA_NUM
    THEN Aligned(delay) ELSE buffer

(* What follows the wait: the delay is taken into account if both time     *)
(* stamps are there, then the frames are taken, with silence after them.   *)
(* (The rest moves down by memcpy(), though it may overlap: it is taken to *)
(* copy upwards.)                                                          *)
Take(n, delay) ==
  LET known   == rendered /\ delay > 0
      delta   == Len(buffer) - delay
      aligned == IF known THEN Corrected(delay) ELSE buffer
      filled  == IF Len(aligned) < n
                   THEN aligned \o Silence(n - Len(aligned)) ELSE aligned
  IN /\ delta_count' = IF known THEN DeltaCount(delta) ELSE delta_count
     /\ prev_delta_sign' =
          IF ~ known THEN prev_delta_sign
          ELSE IF Deviates(delta) THEN Sign(delta) ELSE 0
     /\ buf_size' = Grown(buf_size, Len(filled))
     /\ read' = Max({read} \union {filled[i] : i \in 1 .. n})
     /\ buffer' = SubSeq(filled, n + 1, Len(filled))
     /\ waiting' = 0

(* A first read resets the buffer; without a writer it returns silence.    *)
StartRead(n) ==
  /\ ~ reading
  /\ reading' = TRUE
  /\ Reset
  /\ waiting' = IF writing THEN n ELSE 0
  /\ UNCHANGED <<writing, written, read>>

(* Too few frames: the reader waits for a signal or for half their time.   *)
Wait(n) ==
  /\ waiting = 0 /\ reading /\ writing /\ Len(buffer) < n
  /\ waiting' = n
  /\ UNCHANGED <<reading, writing, buffer, buf_size, rendered, delta_count,
                 prev_delta_sign, written, read, since>>

Read(n, delay) ==
  /\ \/ waiting = n
     \/ waiting = 0 /\ reading /\ writing /\ Len(buffer) >= n
  /\ Take(n, delay)
  /\ UNCHANGED <<reading, writing, rendered, written, since>>
-----------------------------------------------------------------------------
WithinBound == written' <= MaxWritten /\ Len(buffer') <= MaxFrames

Next ==
  \/ StopWrite \/ StopRead
  \/ \E n \in Counts :
       \/ (\E stamped \in BOOLEAN : Write(n, stamped) /\ WithinBound)
       \/ StartRead(n) \/ Wait(n)
       \/ (\E delay \in Delays : Read(n, delay) /\ WithinBound)

Spec == Init /\ [][Next]_echoVars
-----------------------------------------------------------------------------
Frames == {buffer[i] : i \in DOMAIN buffer} \ {0}

(* However reads, waits and corrections interleave with writing and        *)
(* stopping, the frames in the buffer fit its size, are in the order of    *)
(* writing, none is there that was read before, and none from before the   *)
(* reader began or the writer stopped.                                     *)
FramesAreFresh ==
  /\ Len(buffer) <= buf_size
  /\ \A i, j \in DOMAIN buffer :
       i < j /\ buffer[i] # 0 /\ buffer[j] # 0 => buffer[i] < buffer[j]
  /\ \A f \in Frames : f > read /\ f > since

=============================================================================
