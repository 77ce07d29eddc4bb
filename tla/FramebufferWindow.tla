------------------------- MODULE FramebufferWindow -------------------------
(* The two or three buffers of the framebuffer as a native window          *)
(* (FramebufferNativeWindow.cpp): a client dequeues a buffer, draws, and   *)
(* queues it, which shows it.  Every function holds the mutex to its end   *)
(* or to its wait, so one action is what it does between the two.          *)
EXTENDS Integers, Sequences, FiniteSets

CONSTANTS
  Clients,   \* the threads that dequeue
  NumFramebuffers  \* what the device may say it has

FramebufferWindowAssumption == NumFramebuffers \subseteq Nat
MIN_NUM_FRAME_BUFFERS == 2
MAX_NUM_FRAME_BUFFERS == 3
None == -1  \* no buffer is shown yet

VARIABLES
  mNumBuffers, mNumFreeBuffers, mBufferHead, mCurrentBufferIndex, front,
  waiting,   \* the index each waiting client has taken
  dequeued,  \* the buffers in the clients' hands, oldest first
  orderly    \* one dequeues at a time and all queue as they dequeued

windowVars == <<mNumBuffers, mNumFreeBuffers, mBufferHead,
                mCurrentBufferIndex, front, waiting, dequeued, orderly>>

Supported(n) ==
  IF n \in MIN_NUM_FRAME_BUFFERS .. MAX_NUM_FRAME_BUFFERS
    THEN n ELSE MIN_NUM_FRAME_BUFFERS

(* As many buffers as the device has and can allocate.                     *)
Init ==
  /\ \E n \in NumFramebuffers : mNumBuffers \in 0 .. Supported(n)
  /\ mNumFreeBuffers = mNumBuffers
  /\ mBufferHead = mNumBuffers - 1
  /\ mCurrentBufferIndex = 0 /\ front = None
  /\ waiting = [c \in {} |-> 0] /\ dequeued = <<>> /\ orderly = TRUE

Advanced == IF mBufferHead + 1 >= mNumBuffers THEN 0 ELSE mBufferHead + 1

Take(index) ==
  /\ mNumFreeBuffers' = mNumFreeBuffers - 1
  /\ mCurrentBufferIndex' = index
  /\ dequeued' = Append(dequeued, index)

(* The front buffer is free and not to be drawn on; a variant takes it.    *)
MustWaitForAny == mNumFreeBuffers < 1
MustWait == mNumFreeBuffers < 2

(* The index is taken before the wait for a free non-front buffer.         *)
DequeueBuffer(c) ==
  /\ c \notin DOMAIN waiting
  /\ mBufferHead' = Advanced
  /\ orderly' = (orderly /\ DOMAIN waiting = {})
  /\ \/ /\ MustWait
        /\ waiting' = [d \in DOMAIN waiting \union {c} |->
                         IF d = c THEN mBufferHead ELSE waiting[d]]
        /\ UNCHANGED <<mNumFreeBuffers, mCurrentBufferIndex, dequeued>>
     \/ /\ ~ MustWait
        /\ Take(mBufferHead)
        /\ UNCHANGED waiting
  /\ UNCHANGED <<mNumBuffers, front>>

(* Any of those that the broadcast woke gets the mutex first.              *)
WakeUp(c) ==
  /\ c \in DOMAIN waiting /\ ~ MustWait
  /\ Take(waiting[c])
  /\ waiting' = [d \in DOMAIN waiting \ {c} |-> waiting[d]]
  /\ UNCHANGED <<mNumBuffers, mBufferHead, front, orderly>>

(* Any client queues a buffer that one of them has dequeued, when its      *)
(* fence has been signalled; the front one is set whatever post() returns. *)
QueueBuffer(i) ==
  /\ i \in DOMAIN dequeued
  /\ front' = dequeued[i]
  /\ dequeued' = SubSeq(dequeued, 1, i - 1)
                   \o SubSeq(dequeued, i + 1, Len(dequeued))
  /\ mNumFreeBuffers' = mNumFreeBuffers + 1
  /\ orderly' = (orderly /\ i = 1)
  /\ UNCHANGED <<mNumBuffers, mBufferHead, mCurrentBufferIndex, waiting>>

Next ==
  \/ \E c \in Clients : DequeueBuffer(c)
  \/ \E c \in Clients : WakeUp(c)
  \/ \E i \in DOMAIN dequeued : QueueBuffer(i)

Spec == Init /\ [][Next]_windowVars
-----------------------------------------------------------------------------
(* Free are the buffers nobody has dequeued, the front one among them, and *)
(* one is always left: it is the one the display shows.                    *)
BuffersAreCounted ==
  /\ mNumFreeBuffers + Len(dequeued) = mNumBuffers
  /\ mNumBuffers > 0 => mNumFreeBuffers > 0

(* "wait for a free non-front buffer": nobody draws on what is shown, nor  *)
(* two on the same buffer.  It takes one thread at a time in               *)
(* dequeueBuffer() and queueing in the order of dequeueing: an index is    *)
(* taken before the wait, and counted but not looked at after it.          *)
BuffersAreExclusive ==
  orderly => /\ front \notin {dequeued[i] : i \in DOMAIN dequeued}
             /\ Cardinality({dequeued[i] : i \in DOMAIN dequeued}) = Len(dequeued)
             /\ \A c \in DOMAIN waiting :
                  MustWait \/ waiting[c] # front

=============================================================================
