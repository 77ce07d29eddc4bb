---------------------------- MODULE AudioSamples ----------------------------
(***************************************************************************)
(* Conversions of audio samples, media/audio_utils: primitives.c and       *)
(* format.c change the format, channels.c the number of channels and       *)
(* primitives.c their order, minifloat.c packs a gain.  Each is one loop   *)
(* over buffers that may begin at the same address.                        *)
(*                                                                         *)
(* A byte has ByteBits bits, 8 in the code, and what follows from it is    *)
(* scaled.  Samples in floating point are left out.                        *)
(***************************************************************************)
EXTENDS Integers, Sequences, FiniteSets, FiniteSetsExt, SequencesExt

CONSTANTS
  ByteBits,
  Count,         \* bound: samples, or frames, that are converted
  MaxChannels,   \* bound: channels of a frame
  MANTISSA_BITS, EXPONENT_BITS,
  Mono24         \* whether frames of packed 24-bit samples are mixed to mono

AudioSamplesAssumption ==
  /\ ByteBits \in Nat \ {0, 1, 2} /\ Count \in Nat /\ MaxChannels \in Nat
  /\ MANTISSA_BITS \in Nat /\ EXPONENT_BITS \in Nat /\ Mono24 \in BOOLEAN

VARIABLES
  job,      \* the call: what is converted to what, and from where to where
  before,   \* the memory before it
  memory

sampleVars == <<job, before, memory>>

BitsOf(n) == n * ByteBits
Shift(v, k) == v \div 2^k   \* v >> k

(* A number in n bytes, the lowest first, and read again with its sign.    *)
Bytes(v, n) == [i \in 1 .. n |-> Shift(v, BitsOf(i - 1)) % 2^ByteBits]
Unsigned(s) == FoldLeft(LAMBDA v, i : v + s[i] * 2^BitsOf(i - 1), 0, [i \in DOMAIN s |-> i])
Wrapped(v, bits) == LET u == v % 2^bits IN IF u < 2^(bits - 1) THEN u ELSE u - 2^bits
Signed(s) == Wrapped(Unsigned(s), BitsOf(Len(s)))

(* clamp16() and clamp24(): the sign decides when the upper bits are not   *)
(* all the same.                                                           *)
Clamp(v, bits) ==
  IF Shift(v, bits - 1) = Shift(v, BitsOf(4) - 1) THEN v
  ELSE IF v < 0 THEN -(2^(bits - 1)) ELSE 2^(bits - 1) - 1

Loads(m, at, n) == [i \in 1 .. n |-> m[at + i]]
Stored(m, at, s) == [m EXCEPT ![at + 1] = s[1]] \* a sample of one cell
StoredBytes(m, at, s) ==
  [i \in DOMAIN m |-> IF i \in at + 1 .. at + Len(s) THEN s[i - at] ELSE m[i]]

-----------------------------------------------------------------------------
(* format.c and the loops of primitives.c *)

Size(f) ==
  CASE f = "u8" -> 1 [] f = "i16" -> 2 [] f = "p24" -> 3
    [] f \in {"i32", "q8_23", "q4_27", "offload"} -> 4

(* One sample; ditherAndClamp() is the one from q4_27, for a pair.         *)
Converted(dst, src, s) ==
  CASE dst = src -> s
    [] <<dst, src>> = <<"i16", "u8">> -> Bytes((s[1] - 2^(ByteBits - 1)) * 2^ByteBits, 2)
    [] <<dst, src>> = <<"u8", "i16">> -> Bytes(Shift(Signed(s), ByteBits) + 2^(ByteBits - 1), 1)
    [] <<dst, src>> = <<"i16", "p24">> -> <<s[2], s[3]>>
    [] <<dst, src>> = <<"i16", "i32">> -> Bytes(Shift(Signed(s), BitsOf(2)), 2)
    [] <<dst, src>> = <<"i16", "q8_23">> -> Bytes(Clamp(Shift(Signed(s), ByteBits), BitsOf(2)), 2)
    [] <<dst, src>> = <<"i16", "q4_27">> -> Bytes(Clamp(Shift(Signed(s), BitsOf(2) - 4), BitsOf(2)), 2)
    [] <<dst, src>> = <<"p24", "i16">> -> <<0>> \o s
    [] <<dst, src>> = <<"p24", "q8_23">> -> Bytes(Clamp(Signed(s), BitsOf(3)), 3)
    [] <<dst, src>> = <<"p24", "i32">> -> Bytes(Shift(Signed(s), ByteBits), 3)
    [] <<dst, src>> = <<"i32", "i16">> -> Bytes(Signed(s) * 2^BitsOf(2), 4)
    [] <<dst, src>> = <<"i32", "p24">> -> <<0>> \o s
    [] <<dst, src>> = <<"q8_23", "i16">> -> Bytes(Signed(s) * 2^ByteBits, 4)
    [] <<dst, src>> = <<"q8_23", "p24">> -> Bytes(Signed(s), 4)
    [] <<dst, src>> \in {<<"offload", "p24">>, <<"offload", "q8_23">>} -> <<0, s[1], s[2], s[3]>>

Conversions ==
  {<<f, f>> : f \in {"u8", "i16", "p24", "i32", "q8_23"}} \union
  {<<"i16", f>> : f \in {"u8", "p24", "i32", "q8_23", "q4_27"}} \union
  {<<f, "i16">> : f \in {"u8", "p24", "i32", "q8_23"}} \union
  {<<"p24", "q8_23">>, <<"p24", "i32">>, <<"i32", "p24">>, <<"q8_23", "p24">>,
   <<"offload", "p24">>, <<"offload", "q8_23">>}

(* "only if the types shrink on copy, with the exception of                *)
(* memcpy_to_i16_from_u8()": its loop alone goes down; a variant goes up.  *)
Never(dst, src) == FALSE
Down(dst, src) == dst = "i16" /\ src = "u8"
InPlace(dst, src) == Size(dst) <= Size(src) \/ (dst = "i16" /\ src = "u8")

MemcpyByAudioFormat(m, dst, src, to) ==
  LET Index(i) == IF Down(dst, src) THEN Count - i ELSE i - 1
      Step(n, i) == StoredBytes(n, to + Index(i) * Size(dst),
                      Converted(dst, src, Loads(n, Index(i) * Size(src), Size(src))))
  IN FoldLeft(Step, m, [i \in 1 .. Count |-> i])

(* What a sample stands for, in steps of the finest format.                *)
Real(f, s) ==
  CASE f = "u8" -> (s[1] - 2^(ByteBits - 1)) * 2^BitsOf(3)
    [] f \in {"i16", "p24"} -> Signed(s) * 2^BitsOf(4 - Size(f))
    [] f = "q8_23" -> Signed(s) * 2^ByteBits
    [] f = "q4_27" -> Signed(s) * 2^4
    [] f \in {"i32", "offload"} -> Signed(s)
StepOf(f) == IF f \in {"q8_23", "offload"} THEN 2^ByteBits ELSE 2^BitsOf(4 - Size(f))
Limited(r) == Max({-(2^(BitsOf(4) - 1)), Min({r, 2^(BitsOf(4) - 1) - 1})})
RoundedDown(r, step) == (r \div step) * step

-----------------------------------------------------------------------------
(* channels.c; one cell for a sample *)

(* (a & b) + ((a ^ b) >> 1) *)
Bit(v, k) == Shift(v, k) % 2
WithBits(S) == Wrapped(FoldSet(LAMBDA k, v : v + 2^k, 0, S), BitsOf(4))
Mean(a, b) ==
  LET Places == 0 .. BitsOf(4) - 1 IN
  WithBits({k \in Places : Bit(a, k) = 1 /\ Bit(b, k) = 1})
    + Shift(WithBits({k \in Places : Bit(a, k) # Bit(b, k)}), 1)
Mean24(a, b) == Shift(Clamp(a, BitsOf(3)) + Clamp(b, BitsOf(3)), 1)

(* EXPAND_CHANNELS, EXPAND_MONO_TO_MULTI, from back to front.              *)
Expanded(m, ins, outs, to) ==
  LET Cell(n, f, c) == IF ins = 1 /\ c < 2 THEN n[f + 1]
                       ELSE IF c < ins THEN n[f * ins + c + 1] ELSE 0
      Step(n, i) == LET k == Count * outs - i IN
                    Stored(n, to + k, <<Cell(n, k \div outs, k % outs)>>)
  IN FoldLeft(Step, m, [i \in 1 .. Count * outs |-> i])

(* CONTRACT_CHANNELS, from front to back.                                  *)
Contracted(m, ins, outs, to) ==
  LET Step(n, k) == Stored(n, to + k - 1, <<n[((k - 1) \div outs) * ins + ((k - 1) % outs) + 1]>>)
  IN FoldLeft(Step, m, [k \in 1 .. Count * outs |-> k])

(* CONTRACT_TO_MONO, CONTRACT_TO_MONO_24, which does not move on.          *)
ContractedToMono(m, ins, to) ==
  FoldLeft(LAMBDA n, k : Stored(n, to + k - 1, <<Mean(n[(k - 1) * ins + 1], n[(k - 1) * ins + 2])>>),
           m, [k \in 1 .. Count |-> k])
ContractedToMono24(m, ins, to) ==
  FoldLeft(LAMBDA n, k : Stored(n, to, <<Mean24(n[(k - 1) * ins + 1], n[(k - 1) * ins + 2])>>),
           m, [k \in 1 .. Count |-> k])

AdjustChannels(m, size, ins, outs, to) ==
  CASE outs > ins -> Expanded(m, ins, outs, to)
    [] outs < ins /\ outs > 1 -> Contracted(m, ins, outs, to)
    [] outs < ins /\ outs = 1 ->
         IF size = 3 THEN ContractedToMono24(m, ins, to) ELSE ContractedToMono(m, ins, to)
    [] outs = ins -> [i \in DOMAIN m |-> IF i \in to + 1 .. to + Count * ins THEN m[i - to] ELSE m[i]]

-----------------------------------------------------------------------------
(* primitives.c: channels by masks, which are sets of bits *)

Ascending(S) == SetToSortSeq(S, <)

(* memcpy_by_channel_mask(), one frame.                                    *)
CopiedByMask(dmask, smask, frame) ==
  IF dmask = smask THEN frame ELSE
  LET Step(st, bit) ==
        IF bit \notin dmask THEN [st EXCEPT !.src = @ + 1]
        ELSE IF bit \in smask THEN [dst |-> Append(st.dst, frame[st.src]), src |-> st.src + 1]
        ELSE [st EXCEPT !.dst = Append(@, 0)]
  IN FoldLeft(Step, [dst |-> <<>>, src |-> 1], Ascending(dmask \union smask)).dst

(* memcpy_by_index_array(), one frame.                                     *)
CopiedByIndex(idxary, frame) ==
  [i \in DOMAIN idxary |-> IF idxary[i] < 0 THEN 0 ELSE frame[idxary[i] + 1]]

(* memcpy_by_index_array_initialization(): the array, and how much of one  *)
(* is required.                                                            *)
Initialization(idxcount, dmask, smask) ==
  LET Step(st, bit) ==
        IF Len(st.idx) = idxcount THEN [st EXCEPT !.left = @ \union {bit}]
        ELSE IF bit \in dmask \intersect smask
          THEN [st EXCEPT !.idx = Append(@, st.src), !.src = @ + 1]
        ELSE IF bit \in smask THEN [st EXCEPT !.src = @ + 1]
        ELSE [st EXCEPT !.idx = Append(@, -1)]
      end == FoldLeft(Step, [idx |-> <<>>, src |-> 0, left |-> {}], Ascending(dmask \union smask))
  IN [idx |-> end.idx, required |-> Len(end.idx) + Cardinality(end.left \intersect dmask)]

(* ..._src_index() and ..._dst_index().                                    *)
Least(a, b) == IF a < b THEN a ELSE b
SrcIndex(idxcount, dmask, smask) ==
  LET n == Least(Cardinality(dmask), idxcount)
      Before(i) == Cardinality({b \in smask : b < i}) IN
  [idx |-> [i \in 1 .. n |-> IF i - 1 \in smask THEN Before(i - 1) ELSE -1],
   required |-> IF idxcount = 0 THEN Cardinality(dmask) ELSE n]
DstIndex(idxcount, dmask, smask) ==
  LET n == Least(Cardinality(dmask), idxcount)
      bits == Ascending(dmask) IN
  [idx |-> [i \in 1 .. n |-> IF bits[i] < Cardinality(smask) THEN bits[i] ELSE -1],
   required |-> IF idxcount = 0 THEN Cardinality(dmask) ELSE n]

(* ..._from_channel_mask(): a mask is of positions or of indices.          *)
FromChannelMask(idxcount, dmask, drep, smask, srep) ==
  CASE drep = srep -> Initialization(idxcount, dmask, smask)
    [] drep = "index" /\ srep = "position" -> DstIndex(idxcount, dmask, smask)
    [] drep = "position" /\ srep = "index" -> SrcIndex(idxcount, dmask, smask)

-----------------------------------------------------------------------------
(* minifloat.c: gains in steps of 2^-GridBits, which floats hold exactly *)

EXPONENT_MAX == 2^EXPONENT_BITS - 1
EXCESS == 2^EXPONENT_BITS - 2
MINIFLOAT_MAX == 2^(EXPONENT_BITS + MANTISSA_BITS) - 1
GridBits == MANTISSA_BITS + EXCESS + 2

GainFromFloat(v) ==
  LET exp == CHOOSE e \in -GridBits .. 1 : v < 2^(GridBits + e) /\ v >= 2^(GridBits + e - 1)
      e == exp + EXCESS
      mantissa == (v * 2^(MANTISSA_BITS + 1 - exp)) \div 2^GridBits
  IN CASE v <= 0 -> 0
       [] v >= 2 * 2^GridBits -> MINIFLOAT_MAX
       [] OTHER -> IF -e >= MANTISSA_BITS THEN 0
                   ELSE IF e > 0 THEN e * 2^MANTISSA_BITS + (mantissa % 2^MANTISSA_BITS)
                   ELSE Shift(mantissa, 1 - e) % 2^MANTISSA_BITS

FloatFromGain(a) ==
  LET mantissa == a % 2^MANTISSA_BITS
      exponent == Shift(a, MANTISSA_BITS) % 2^EXPONENT_BITS
  IN (IF exponent > 0 THEN 2^MANTISSA_BITS + mantissa ELSE 2 * mantissa)
       * 2^(GridBits - MANTISSA_BITS - 1 + exponent - EXCESS)

-----------------------------------------------------------------------------
(* Every call is made on every one of some samples. *)

Edges(bits) == {-(2^(bits - 1)), -(2^(bits - 2)) - 1, -1, 0, 2^(bits - 2) + 1, 2^(bits - 1) - 1}
Samples(f) ==
  IF f = "u8" THEN {<<b>> : b \in 0 .. 2^ByteBits - 1}
  ELSE {Bytes(v, Size(f)) : v \in Edges(BitsOf(Size(f))) \union Edges(BitsOf(3))}

(* The offload format is made from samples that are not out of range.      *)
Convertible(dst, src, s) == <<dst, src>> = <<"offload", "q8_23">> => Signed(s) = Clamp(Signed(s), BitsOf(3))

Cells(size) ==
  IF size = 1 THEN {0, 1, 2^ByteBits - 1} ELSE {-(2^(BitsOf(size) - 1)), 1, 2^(BitsOf(size) - 1) - 1}
Blank(n) == [i \in 1 .. n |-> 0]

FormatJobs ==
  {[kind |-> "format", dst |-> c[1], src |-> c[2], inPlace |-> p] :
     c \in Conversions, p \in BOOLEAN}
ChannelJobs ==
  {[kind |-> "channels", size |-> n, ins |-> i, outs |-> o, inPlace |-> p] :
     n \in 1 .. 4, i, o \in 1 .. MaxChannels, p \in BOOLEAN}
MaskJobs ==
  {[kind |-> "masks", dmask |-> d, smask |-> s, drep |-> q, srep |-> r, idxcount |-> n] :
     d, s \in SUBSET (0 .. MaxChannels), q, r \in {"position", "index"}, n \in 0 .. MaxChannels + 1}
GainJobs == {[kind |-> "gain", v |-> v] : v \in -1 .. 2^(GridBits + 1) + 1}

(* The input is at the start, the output there too or behind it.           *)
InputSize(j) == IF j.kind = "format" THEN Count * Size(j.src) ELSE Count * j.ins
OutputSize(j) == IF j.kind = "format" THEN Count * Size(j.dst) ELSE Count * j.outs
To(j) == IF j.inPlace THEN 0 ELSE InputSize(j)

Index(j) == FromChannelMask(j.idxcount, j.dmask, j.drep, j.smask, j.srep)

Init == job = [kind |-> "none"] /\ before = <<>> /\ memory = <<>>

(* A call leaves nothing behind for the next, so that one is enough.       *)
Call(j, m, result) ==
  job' = j /\ before' = m /\ memory' = result

ConvertFormat ==
  \E j \in {f \in FormatJobs : f.inPlace => InPlace(f.dst, f.src)} :
  \E s \in [1 .. Count -> {x \in Samples(j.src) : Convertible(j.dst, j.src, x)}] :
    LET m == FlattenSeq(s) \o Blank(OutputSize(j)) IN
    Call(j, m, MemcpyByAudioFormat(m, j.dst, j.src, To(j)))

ConvertChannels ==
  \E j \in {c \in ChannelJobs : c.size = 3 /\ c.outs = 1 /\ c.ins > 1 => Mono24} :
  \E s \in [1 .. InputSize(j) -> Cells(j.size)] :
    LET m == s \o Blank(OutputSize(j)) IN
    Call(j, m, AdjustChannels(m, j.size, j.ins, j.outs, To(j)))

ConvertMasks ==
  \E j \in MaskJobs :
    LET frame == [i \in 1 .. Cardinality(j.smask) |-> i] IN
    Call(j, frame, [byMask |-> CopiedByMask(j.dmask, j.smask, frame),
                    byIndex |-> CopiedByIndex(Index(j).idx, frame),
                    required |-> Index(j).required])

PackGain == \E j \in GainJobs : Call(j, <<j.v>>, <<GainFromFloat(j.v)>>)

Next ==
  job.kind = "none" /\ (ConvertFormat \/ ConvertChannels \/ ConvertMasks \/ PackGain)

Spec == Init /\ [][Next]_sampleVars

-----------------------------------------------------------------------------
(* Properties *)

(* A sample keeps its value, limited to what formats without guard bits    *)
(* can hold and rounded down to the steps of its new format, wherever the  *)
(* buffers are allowed to be.                                              *)
FormatsKeepValues ==
  job.kind = "format" =>
    \A i \in 0 .. Count - 1 :
      LET in == Loads(before, i * Size(job.src), Size(job.src))
          out == Loads(memory, To(job) + i * Size(job.dst), Size(job.dst))
      IN IF job.dst = job.src THEN out = in
         ELSE Real(job.dst, out) = RoundedDown(Limited(Real(job.src, in)), StepOf(job.dst))

(* "Expanded channels are filled with zeros and put at the end of each     *)
(* audio frame. Contracted channels are omitted from the end of each audio *)
(* frame", but that mono is for the first two channels both ways.          *)
Adjusted(frame, outs) ==
  LET ins == Len(frame) IN
  [c \in 1 .. outs |->
     IF outs = 1 /\ ins > 1 THEN (frame[1] + frame[2]) \div 2
     ELSE IF ins = 1 /\ c <= 2 THEN frame[1]
     ELSE IF c <= ins THEN frame[c] ELSE 0]
ChannelsAreAdjusted ==
  job.kind = "channels" =>
    \A f \in 0 .. Count - 1 :
      Loads(memory, To(job) + f * job.outs, job.outs)
        = Adjusted(Loads(before, f * job.ins, job.ins), job.outs)

(* A channel comes from the one with its bit, and the way over an index    *)
(* array does the same.  Between positions and indices, the i-th bit of    *)
(* the indices is the i-th channel of the positions.                       *)
Rank(mask, bit) == Cardinality({b \in mask : b < bit})
SourceOf(j, bit) ==
  LET from == CASE j.drep = j.srep -> bit
                [] j.drep = "index" /\ j.srep = "position" ->
                     IF bit < Cardinality(j.smask) THEN Ascending(j.smask)[bit + 1] ELSE -1
                [] j.drep = "position" /\ j.srep = "index" -> Rank(j.dmask, bit)
  IN IF from \in j.smask THEN Rank(j.smask, from) + 1 ELSE 0
ChannelsAreMatched ==
  job.kind = "masks" =>
    LET bits == Ascending(job.dmask)
        wanted == [i \in DOMAIN bits |-> SourceOf(job, bits[i])]
    IN /\ memory.byIndex = SubSeq(wanted, 1, Least(Len(wanted), job.idxcount))
       /\ job.drep = job.srep =>
            memory.byMask = wanted /\ memory.required = Cardinality(job.dmask)

(* A gain is rounded down to the next that can be packed, and one that can *)
(* be packed is unpacked as it was.                                        *)
GainsAreRoundedDown ==
  job.kind = "gain" =>
    LET a == memory[1] IN
    /\ a \in 0 .. MINIFLOAT_MAX
    /\ job.v \in 0 .. 2 * 2^GridBits - 1 =>
         FloatFromGain(a) <= job.v /\ (a < MINIFLOAT_MAX => job.v < FloatFromGain(a + 1))

=============================================================================
