---------------------------- MODULE MCLibraries ----------------------------
(* Libraries that share no state and run on their callers' threads; each   *)
(* behaviour is of one of them.                                            *)
(*   - The audio FIFO (AudioFifo), here a ring of 5 frames (3 indices      *)
(*     skipped a round) and 5-bit indices, which wrap around every fourth  *)
(*     round.                                                              *)
(*   - The mixer's paths (AudioRoute), here a control of each kind, two    *)
(*     paths, and files with an element more than two overlapping paths    *)
(*     take.                                                               *)
(*   - The echo reference (EchoReference), here with delays that differ by *)
(*     less and by more than the threshold, and reads that wait.           *)
(*   - The profile and the proxy of an ALSA device (AlsaDevice), here with *)
(*     formats of 8, 24 and 16 bits and one nobody knows, two standard     *)
(*     rates and another, and more channels than are supported.            *)
(*   - The Parcel, here with one binder, descriptors of its own and        *)
(*     somebody else's, and three objects.                                 *)
(*   - The messages of the service manager (BinderIo), here with room for  *)
(*     one object, for texts that fit and that do not, and three items.    *)
(*   - The framebuffer's window (FramebufferWindow), here of two clients   *)
(*     and from one to four buffers.                                       *)
(*   - Graphic buffers (GraphicBuffer), here two objects and two handles,  *)
(*     of a buffer without size and with one.                              *)
EXTENDS AudioFifo, TLC

CONSTANTS
  Ints, Enums, Others, Paths, NumValues, MaxValue, MaxTags,
  Binders, ObjectCells, TakesFds, LentFds, MaxSize, MaxFd,
  Counts, Delays, MIN_DELAY_DELTA, MIN_DELTA_NUM, DELTA_COUNTS, Resampling,
  MaxWritten, MaxFrames,
  Bits, OddRates, Channels, MAX_PROFILE_FORMATS, MAX_PROFILE_SAMPLE_RATES,
  RequestWords, ReplyWords, MaxOffs, ObjectWords, Wide, Lengths, MaxItems,
  Clients, NumFramebuffers,
  Buffers, Addresses, BufferSizes
VARIABLES
  mixer, old, new, reset, path, parsing, tags, active, clash, updated,
  parcel, refs, open, allocSize,
  reading, writing, echoed, buf_size, rendered, delta_count, prev_delta_sign,
  waitingFor, echoWritten, read, since,
  plugged, profile, proxy,
  msg, sent, want, got, answer, reply, toClient, buffers, result,
  mNumBuffers, mNumFreeBuffers, mBufferHead, mCurrentBufferIndex, frontBuffer,
  waiting, dequeued, orderly,
  object, heap, sAllocList, flattened, lost, reused,
  used  \* whose behaviour it is

routeVars == <<mixer, old, new, reset, path, parsing, tags, active, clash, updated>>
parcelVars == <<parcel, refs, open, allocSize>>
echoVars == <<reading, writing, echoed, buf_size, rendered, delta_count,
              prev_delta_sign, waitingFor, echoWritten, read, since>>
alsaVars == <<plugged, profile, proxy>>
ioVars == <<msg, sent, want, got, answer, reply, toClient, buffers, result>>
windowVars == <<mNumBuffers, mNumFreeBuffers, mBufferHead, mCurrentBufferIndex,
                frontBuffer, waiting, dequeued, orderly>>
bufferVars == <<object, heap, sAllocList, flattened, lost, reused>>

Route == INSTANCE AudioRoute
Message == INSTANCE Parcel
Echo == INSTANCE EchoReference WITH
  buffer <- echoed, written <- echoWritten, waiting <- waitingFor
Alsa == INSTANCE AlsaDevice WITH StdRates <- <<96, 48>>
Manager == INSTANCE BinderIo
Window == INSTANCE FramebufferWindow WITH front <- frontBuffer
Graphics == INSTANCE GraphicBuffer
ASSUME LibraryPartsAssumption ==
  /\ Route!AudioRouteAssumption /\ Message!ParcelAssumption
  /\ Echo!EchoReferenceAssumption /\ Alsa!AlsaDeviceAssumption
  /\ Manager!BinderIoAssumption /\ Window!FramebufferWindowAssumption
  /\ Graphics!GraphicBufferAssumption

Symmetric == Permutations(Buffers) \union Permutations(Clients)

(* What is not used begins as it may, but in one way only; the mixer, if   *)
(* it is used, with any value, the same for all controls and their ids.    *)
LibrariesInit ==
  /\ used \in {"fifo", "route", "parcel", "echo", "alsa", "manager", "window",
              "graphics"}
  /\ Init /\ Route!Init /\ Message!Init /\ Echo!Init /\ Alsa!Init
  /\ Manager!Init /\ Window!Init /\ Graphics!Init
  /\ \E v \in IF used = "route" THEN 0 .. MaxValue ELSE {0} :
       \A c \in DOMAIN mixer, i \in 0 .. NumValues - 1 : mixer[c][i] = v
  /\ used # "window" => mNumBuffers = 0

OfFifo(A) == used = "fifo" /\ A /\ UNCHANGED
  <<routeVars, parcelVars, echoVars, alsaVars, ioVars, windowVars,
    bufferVars, used>>
OfRoute(A) == used = "route" /\ A /\ UNCHANGED
  <<vars, parcelVars, echoVars, alsaVars, ioVars, windowVars, bufferVars,
    used>>
OfParcel(A) == used = "parcel" /\ A /\ UNCHANGED
  <<vars, routeVars, echoVars, alsaVars, ioVars, windowVars, bufferVars,
    used>>
OfEcho(A) == used = "echo" /\ A /\ UNCHANGED
  <<vars, routeVars, parcelVars, alsaVars, ioVars, windowVars, bufferVars,
    used>>
OfAlsa(A) == used = "alsa" /\ A /\ UNCHANGED
  <<vars, routeVars, parcelVars, echoVars, ioVars, windowVars, bufferVars,
    used>>
OfManager(A) == used = "manager" /\ A /\ UNCHANGED
  <<vars, routeVars, parcelVars, echoVars, alsaVars, windowVars, bufferVars,
    used>>
OfWindow(A) == used = "window" /\ A /\ UNCHANGED
  <<vars, routeVars, parcelVars, echoVars, alsaVars, ioVars, bufferVars,
    used>>
OfGraphics(A) == used = "graphics" /\ A /\ UNCHANGED
  <<vars, routeVars, parcelVars, echoVars, alsaVars, ioVars, windowVars,
    used>>

LibrariesNext ==
  \/ OfFifo(Next) \/ OfRoute(Route!Next) \/ OfParcel(Message!Next)
  \/ OfEcho(Echo!Next) \/ OfAlsa(Alsa!Next) \/ OfManager(Manager!Next)
  \/ OfWindow(Window!Next) \/ OfGraphics(Graphics!Next)

LibrariesSpec ==
  /\ LibrariesInit
  /\ [][LibrariesNext]_<<vars, routeVars, parcelVars, echoVars, alsaVars, ioVars,
                         windowVars, bufferVars, used>>

(* Reader and writer never have a frame at a time, nor the reader one that *)
(* is not written.  With it the assertions of fifo.c: offsets are in the   *)
(* ring, the writer is at most a round ahead, the FIFO is never overfull.  *)
FramesAreExclusive ==
  used = "fifo" => TypeOK /\ IndicesAreSane /\ SlotsAreExclusive

(* What is to be shown of a control is what the active path that has it    *)
(* says, or its initial value, whatever other paths were applied and reset *)
(* in between.                                                             *)
RoutesAreIndependent ==
  used = "route" => Route!TypeOK /\ Route!RoutesAreIndependent

(* When an update of a path, or of all controls, ends, the mixer shows     *)
(* what is wanted of each control it was for, though it writes only what   *)
(* differs from what it wrote last; and no other call changes the mixer.   *)
UpdatesShowWhatIsWanted == Route!UpdatesShowWhatIsWanted

(* The index of a parcel has the objects of its data in their order, and   *)
(* readObject() finds each; and however the parcel grows, is cut, copied   *)
(* to and received into, it holds a reference for each binder and the      *)
(* descriptors of its own data, and accounts for its memory.  A message of *)
(* the service manager's arrives with its objects, and leaves no buffer.   *)
ObjectsAreKept ==
  /\ used = "parcel" =>
       Message!TypeOK /\ Message!ObjectsAreFound /\ Message!HoldingsAreKept
  /\ used = "manager" => Manager!MessagesArrive

(* The reference has the newest frames that were written, and what is read *)
(* was written after the last reset and is read once.                      *)
FramesAreFresh == used = "echo" => Echo!FramesAreFresh

(* What a proxy is prepared with, the device it was made for can be opened *)
(* with.                                                                   *)
ProxiesCanBeOpened == used = "alsa" => Alsa!ProxiesCanBeOpened

(* A buffer is with one client, and none is drawn while it is shown, as    *)
(* long as one client dequeues at a time; the free ones are counted.  A    *)
(* graphic buffer's handle is one object's, has the size the object says   *)
(* and is listed as long as the device gives it.                           *)
BuffersAreExclusive ==
  /\ used = "window" => Window!BuffersAreCounted /\ Window!BuffersAreExclusive
  /\ used = "graphics" => Graphics!GraphicBuffersAreSound

(* "If we own an ashmem fd, keep track of how much memory it refers to":   *)
(* what getOpenAshmemSize() returns for data of its own.                   *)
AshmemIsCounted == Message!AshmemIsCounted

=============================================================================
