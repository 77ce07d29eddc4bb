----------------------------- MODULE MtpPackets -----------------------------
(***************************************************************************)
(* What MTP's two sides write into the data of a packet and read from it,  *)
(* av/media/mtp: MtpDataPacket and MtpStringBuffer put and get numbers,    *)
(* strings and arrays, and MtpDeviceInfo, MtpStorageInfo, MtpObjectInfo,   *)
(* MtpProperty, MtpServer and MyMtpDatabase go through the fields of a     *)
(* dataset, each in an order of its own.  The packet may arrive cut short. *)
(*                                                                         *)
(* Types are MTP's.  The texts are UTF-8 whose characters have up to three *)
(* bytes.  The data begins at 1, behind the header.                        *)
(***************************************************************************)
EXTENDS Integers, Sequences, SequencesExt

CONSTANTS
  MTP_STRING_MAX_CHARACTER_NUMBER,  \* 255: what a byte can count
  MaxChars,                         \* bound: characters of a text
  Characters                        \* bound: the characters

MtpPacketsAssumption ==
  /\ MTP_STRING_MAX_CHARACTER_NUMBER \in Nat /\ Characters \subseteq 1 .. 65535
  /\ MaxChars \in 0 .. MTP_STRING_MAX_CHARACTER_NUMBER - 1

VARIABLES
  job,      \* the dataset, what is in it, and how much of it arrives
  packet,   \* the data of the packet that arrives
  result    \* whether all was read, where reading ended, and what was read

packetVars == <<job, packet, result>>

INT8 == 1
UINT8 == 2
UINT16 == 4
UINT32 == 6
UINT64 == 8
UINT128 == 10
STR == 65535
ArrayOf(t) == 16384 + t
IsArray(t) == t > 16384 /\ t # STR
ElementOf(t) == IF IsArray(t) THEN t - 16384 ELSE t

Width(t) == 2^((t - 1) \div 2)
IsSigned(t) == t % 2 = 1

-----------------------------------------------------------------------------
(* MtpDataPacket: numbers, the lowest byte first *)

Bytes(v, n) ==
  LET rest[i \in 0 .. n] == IF i = 0 THEN v ELSE rest[i - 1] \div 256
  IN [i \in 1 .. n |-> rest[i - 1] % 256]

Number(s, signed) ==
  LET n == Len(s)
      Top == IF signed /\ s[n] >= 128 THEN s[n] - 256 ELSE s[n]
      from[i \in 1 .. n] == IF i = n THEN Top ELSE s[i] + 256 * from[i + 1]
  IN from[1]

(* The state of a reader.  get...() takes a number if what is left of the  *)
(* packet has its bytes.                                                   *)
Reading == [ok |-> TRUE, off |-> 0, got |-> <<>>]
Left(p, r) == Len(p) - r.off
GetNumber(p, r, t) ==
  IF ~r.ok \/ Left(p, r) < Width(t) THEN [r EXCEPT !.ok = FALSE]
  ELSE [r EXCEPT !.off = @ + Width(t),
                 !.got = Append(@, Number(SubSeq(p, r.off + 1, r.off + Width(t)), IsSigned(t)))]
Repeated(Step(_), r, n) == FoldLeft(LAMBDA x, i : Step(x), r, [i \in 1 .. n |-> i])

(* getAUInt16() and the others: what was got is one list.                  *)
GetArray(p, r, t) ==
  LET counted == GetNumber(p, r, UINT32) IN
  IF ~counted.ok THEN counted
  ELSE LET all == Repeated(LAMBDA x : GetNumber(p, x, t), [counted EXCEPT !.got = <<>>], Last(counted.got))
       IN [all EXCEPT !.got = Append(r.got, all.got)]

PutArray(list, t) ==
  Bytes(Len(list), 4) \o FlattenSeq([i \in DOMAIN list |-> Bytes(list[i], Width(t))])

-----------------------------------------------------------------------------
(* MtpStringBuffer: UTF-8 here, 16 bits for a character in the packet *)

Utf8(ch) ==
  CASE ch >= 2048 -> <<224 + (ch \div 4096), 128 + ((ch \div 64) % 64), 128 + (ch % 64)>>
    [] ch >= 128 /\ ch < 2048 -> <<192 + (ch \div 64), 128 + (ch % 64)>>
    [] ch < 128 -> <<ch>>
AsText(chars) == FlattenSeq([i \in DOMAIN chars |-> Utf8(chars[i])])

(* How many bytes a character has that begins with this one.               *)
BytesFrom(lead) ==
  CASE lead < 128 -> 1
    [] lead \div 32 = 6 -> 2
    [] OTHER -> 3

(* set(): a character that is cut short is left out.                       *)
BufferOf(src) ==
  LET Step(b, i) ==
        LET n == BytesFrom(src[b.at]) IN
        IF b.at > Len(src) \/ b.mCharCount = MTP_STRING_MAX_CHARACTER_NUMBER THEN b
        ELSE IF b.at + n - 1 > Len(src) THEN [b EXCEPT !.at = Len(src) + 1]
        ELSE [at |-> b.at + n, mCharCount |-> b.mCharCount + 1,
              mBuffer |-> b.mBuffer \o SubSeq(src, b.at, b.at + n - 1)]
  IN FoldLeft(Step, [at |-> 1, mCharCount |-> 0, mBuffer |-> <<>>], [i \in DOMAIN src |-> i])

Character(s) ==
  CASE Len(s) = 1 -> s[1]
    [] Len(s) = 2 -> (s[1] % 32) * 64 + (s[2] % 64)
    [] Len(s) = 3 -> (s[1] % 16) * 4096 + (s[2] % 64) * 64 + (s[3] % 64)

(* writeToPacket(): a count that takes one byte, and a zero at the end.    *)
PutString(src) ==
  LET b == BufferOf(src)
      Step(w, i) ==
        LET n == BytesFrom(b.mBuffer[w.at]) IN
        [at |-> w.at + n,
         put |-> w.put \o Bytes(Character(SubSeq(b.mBuffer, w.at, w.at + n - 1)), 2)]
      chars == FoldLeft(Step, [at |-> 1, put |-> <<>>], [i \in 1 .. b.mCharCount |-> i]).put
  IN IF b.mCharCount = 0 THEN <<0>>
     ELSE <<(b.mCharCount + 1) % (MTP_STRING_MAX_CHARACTER_NUMBER + 1)>> \o chars \o Bytes(0, 2)

(* readFromPacket(), and the text up to its zero.                          *)
UpToZero(s) == IF 0 \in ToSet(s) THEN SubSeq(s, 1, SelectInSeq(s, LAMBDA c : c = 0) - 1) ELSE s
GetString(p, r) ==
  LET counted == GetNumber(p, r, UINT8) IN
  IF ~counted.ok THEN counted
  ELSE LET all == Repeated(LAMBDA x : GetNumber(p, x, UINT16), [counted EXCEPT !.got = <<>>], Last(counted.got))
       IN [all EXCEPT !.got = Append(r.got, UpToZero(AsText(all.got)))]

-----------------------------------------------------------------------------
(* Fields one after the other *)

Put(t, v) ==
  CASE t = STR -> PutString(v)
    [] IsArray(t) -> PutArray(v, ElementOf(t))
    [] OTHER -> Bytes(v, Width(t))
Get(p, r, t) ==
  CASE ~r.ok -> r
    [] r.ok /\ t = STR -> GetString(p, r)
    [] r.ok /\ IsArray(t) -> GetArray(p, r, ElementOf(t))
    [] OTHER -> GetNumber(p, r, t)

PutAll(fields, values) == FlattenSeq([i \in DOMAIN fields |-> Put(fields[i], values[i])])
GetAll(p, r, fields) == FoldLeft(LAMBDA x, t : Get(p, x, t), r, fields)

(* The fields, as one side writes and the other reads them: first versions *)
(* and an extension, lists of what is supported, and names; then a         *)
(* storage's kind and space; then an object.  The server reads of this up  *)
(* to the dates, the variant without the protection status.                *)
DoGetDeviceInfo ==
  <<UINT16, UINT32, UINT16, STR, UINT16, ArrayOf(UINT16), ArrayOf(UINT16),
    ArrayOf(UINT16), ArrayOf(UINT16), ArrayOf(UINT16), STR, STR, STR, STR>>
MtpDeviceInfoRead ==
  <<UINT16, UINT32, UINT16, STR, UINT16>> \o [i \in 1 .. 5 |-> ArrayOf(UINT16)]
    \o [i \in 1 .. 4 |-> STR]

DoGetStorageInfo == <<UINT16, UINT16, UINT16, UINT64, UINT64, UINT32, STR, STR>>
MtpStorageInfoRead == [i \in 1 .. 3 |-> UINT16] \o <<UINT64, UINT64, UINT32, STR, STR>>

DoGetObjectInfo ==
  <<UINT32, UINT16, UINT16, UINT32, UINT16, UINT32, UINT32, UINT32, UINT32,
    UINT32, UINT32, UINT32, UINT16, UINT32, UINT32, STR, STR, STR, STR>>
MtpObjectInfoRead ==
  <<UINT32, UINT16, UINT16, UINT32, UINT16>> \o [i \in 1 .. 7 |-> UINT32]
    \o <<UINT16, UINT32, UINT32>> \o [i \in 1 .. 4 |-> STR]
SendObjectInfo ==
  <<UINT32, UINT16, UINT16, UINT32, UINT16, UINT32, UINT32, UINT32, UINT32,
    UINT32, UINT32, UINT32, UINT16, UINT32, UINT32, STR, STR, STR, STR>>
WithoutProtection ==
  <<UINT32, UINT16, UINT32, UINT16>> \o [i \in 1 .. 7 |-> UINT32]
    \o <<UINT16, UINT32, UINT32, STR, STR, STR>>
DoSendObjectInfo ==
  <<UINT32, UINT16, UINT16, UINT32, UINT16>> \o [i \in 1 .. 7 |-> UINT32]
    \o <<UINT16, UINT32, UINT32, STR, STR, STR>>

Datasets ==
  {[kind |-> "device", fields |-> DoGetDeviceInfo, read |-> MtpDeviceInfoRead],
   [kind |-> "storage", fields |-> DoGetStorageInfo, read |-> MtpStorageInfoRead],
   [kind |-> "object", fields |-> DoGetObjectInfo, read |-> MtpObjectInfoRead],
   [kind |-> "sent", fields |-> SendObjectInfo, read |-> DoSendObjectInfo],
   [kind |-> "handles", fields |-> <<ArrayOf(UINT32)>>, read |-> <<ArrayOf(UINT32)>>]}

-----------------------------------------------------------------------------
(* MtpProperty: what a property is *)

IsDeviceProperty(code) ==
  code \div 4096 = 5 \/ code \div 2048 = 26
kFormNone == 0
kFormRange == 1
kFormEnum == 2
kFormDateTime == 3

(* readArrayValues() wants one value at least.                             *)
GetValues(p, r, t) ==
  IF ~IsArray(t) THEN Get(p, r, t)
  ELSE LET all == GetArray(p, r, ElementOf(t)) IN
       [all EXCEPT !.ok = @ /\ Last(all.got) # <<>>]

MtpPropertyWrite(d) ==
  LET t == d.type
      value == ElementOf(t) IN
  PutAll(<<UINT16, UINT16, UINT8, t>>, <<d.code, t, d.writeable, d.default>>)
    \o (IF IsDeviceProperty(d.code) THEN Put(t, d.current) ELSE Put(UINT32, d.group))
    \o Put(UINT8, d.form)
    \o (CASE d.form = kFormRange -> PutAll(<<value, value, value>>, d.values)
          [] d.form = kFormEnum ->
               Put(UINT16, Len(d.values)) \o PutAll([i \in DOMAIN d.values |-> value], d.values)
          [] d.form \in {kFormNone, kFormDateTime} -> <<>>)

(* Of what type the next field is, and how many there are, by those before *)
(* it: the form tells what comes after it.                                 *)
FieldOf(got) ==
  LET n == Len(got) IN
  CASE n \in {0, 1} \/ (n = 6 /\ got[6] = kFormEnum) -> UINT16
    [] n \in {2, 5} -> UINT8
    [] n = 3 \/ (n = 4 /\ IsDeviceProperty(got[1])) -> got[2]
    [] n = 4 /\ ~IsDeviceProperty(got[1]) -> UINT32
    [] OTHER -> ElementOf(got[2])
FieldCount(got) ==
  CASE Len(got) < 6 -> 6
    [] Len(got) >= 6 /\ got[6] = kFormRange -> 9
    [] Len(got) = 6 /\ got[6] = kFormEnum -> 7
    [] Len(got) > 6 /\ got[6] = kFormEnum -> 7 + got[7]
    [] OTHER -> 6
MtpPropertyRead(p) ==
  LET Step(r) ==
        IF ~r.ok \/ Len(r.got) = FieldCount(r.got) THEN r ELSE GetValues(p, r, FieldOf(r.got))
  IN Repeated(Step, Reading, Len(p) + 1)

(* What there is to read of it.                                            *)
Described(d) ==
  <<d.code, d.type, d.writeable, d.default,
    IF IsDeviceProperty(d.code) THEN d.current ELSE d.group, d.form>>
    \o (IF d.form = kFormEnum THEN <<Len(d.values)>> ELSE <<>>) \o d.values

-----------------------------------------------------------------------------
(* MyMtpDatabase: getObjectPropertyDesc() and getObjectPropertyValue() of  *)
(* the properties it supports, and the same of the device.                 *)

SupportedProperties ==
  {"STORAGE_ID", "OBJECT_FORMAT", "OBJECT_SIZE", "OBJECT_FILE_NAME", "DATE_MODIFIED",
   "PARENT_OBJECT", "DISPLAY_NAME", "PERSISTENT_UID", "ASSOCIATION_TYPE",
   "SYNCHRONIZATION_PARTNER", "DEVICE_FRIENDLY_NAME"}
PropertyType(property) ==
  CASE property \in {"OBJECT_FORMAT", "PROTECTION_STATUS", "ASSOCIATION_TYPE"} -> UINT16
    [] property \in {"STORAGE_ID", "PARENT_OBJECT", "ASSOCIATION_DESC"} -> UINT32
    [] property = "OBJECT_SIZE" -> UINT64
    [] property = "PERSISTENT_UID" -> UINT128
    [] property \in {"NAME", "DISPLAY_NAME", "DESCRIPTION", "DATE_MODIFIED", "DATE_ADDED",
                     "OBJECT_FILE_NAME", "SYNCHRONIZATION_PARTNER", "DEVICE_FRIENDLY_NAME"} -> STR
PutPropertyValue(property, v) ==
  CASE property \in {"STORAGE_ID", "PARENT_OBJECT"} -> Put(UINT32, v)
    [] property \in {"OBJECT_FORMAT", "ASSOCIATION_TYPE"} -> Put(UINT16, v)
    [] property = "OBJECT_SIZE" -> Put(UINT64, v)
    [] property = "PERSISTENT_UID" -> Put(UINT64, v) \o Put(UINT64, 0) \* putUInt128(uint64_t)
    [] property \in {"OBJECT_FILE_NAME", "DISPLAY_NAME", "DATE_MODIFIED",
                     "SYNCHRONIZATION_PARTNER", "DEVICE_FRIENDLY_NAME"} -> Put(STR, v)

-----------------------------------------------------------------------------
(* One field takes each of its values, the others tell where they are.     *)

Texts == {AsText(s) : s \in SeqOf(Characters, MaxChars)}
Highest(t) == IF Width(t) >= 4 THEN 2147483647 ELSE 256^Width(t) - 1
Numbers(t) ==
  IF IsSigned(t) THEN {0, -1, -(Highest(t) \div 2) - 1, Highest(t) \div 2} ELSE {0, 255, Highest(t)}
Lists(t) == {<<>>, <<Highest(t)>>, <<1, Highest(t), 0>>}
ValuesOf(t) ==
  CASE t = STR -> Texts
    [] IsArray(t) -> Lists(ElementOf(t))
    [] OTHER -> Numbers(t)
Plain(t, i) ==
  CASE t = STR -> <<64 + i>>
    [] IsArray(t) -> <<i>>
    [] OTHER -> i

(* An int as a value of type t, which the default and the form are set to  *)
(* by; types above 64 bits have neither.  An array has no values here, but *)
(* may have in the description another device sends.                       *)
FromInt(t, v) == Number(Bytes(v, Width(t)), IsSigned(t))
SetFormRange(t, min, max, step) == <<FromInt(t, min), FromInt(t, max), FromInt(t, step)>>
SetFormEnum(t, values) == [i \in DOMAIN values |-> FromInt(t, values[i])]
Defaults(t) ==
  CASE t = STR -> Texts
    [] IsArray(t) -> {<<>>, <<1>>}
    [] t \in {9, UINT128} -> {0}
    [] OTHER -> ValuesOf(t)
Descriptions(t) ==
  {[code |-> c, type |-> t, writeable |-> w, default |-> v,
    current |-> Plain(t, 1), group |-> 7, form |-> f,
    values |-> CASE f = kFormRange -> SetFormRange(t, 3, 300, 70000)
                 [] f = kFormEnum -> SetFormEnum(t, <<4, 70000>>)
                 [] f \in {kFormNone, kFormDateTime} -> <<>>] :
     c \in {20482, 53249, 56321}, w \in {0, 1}, v \in Defaults(t),
     f \in IF t \in 1 .. 8 THEN kFormNone .. kFormDateTime ELSE {kFormNone, kFormDateTime}}

None == [kind |-> "none"]
Init == job = None /\ packet = <<>> /\ result = Reading

Arrives(j, data, cut) ==
  /\ job' = [kind |-> j.kind, what |-> j, whole |-> cut = Len(data)]
  /\ packet' = SubSeq(data, 1, cut)

(* Only the plain dataset is cut.                                          *)
SendDataset ==
  \E d \in Datasets :
    LET plain == [i \in DOMAIN d.fields |-> Plain(d.fields[i], i)] IN
    \E i \in DOMAIN d.fields : \E v \in ValuesOf(d.fields[i]) \union {plain[i]} :
      LET values == [plain EXCEPT ![i] = v]
          data == PutAll(d.fields, values) IN
      \E cut \in IF v = plain[i] THEN 0 .. Len(data) ELSE {Len(data)} :
        /\ Arrives([kind |-> d.kind, fields |-> d.fields, values |-> values], data, cut)
        /\ result' = GetAll(packet', Reading, d.read)

DescribeProperty ==
  \E t \in 1 .. 10 \union {ArrayOf(e) : e \in 1 .. 10} \union {STR} :
  \E d \in Descriptions(t) :
    LET data == MtpPropertyWrite(d) IN
    \E cut \in IF d.writeable = 1 THEN 0 .. Len(data) ELSE {Len(data)} :
      /\ Arrives([kind |-> "property", desc |-> d], data, cut)
      /\ result' = MtpPropertyRead(packet')

SendPropertyValue ==
  \E property \in SupportedProperties : \E v \in ValuesOf(PropertyType(property)) :
    LET data == PutPropertyValue(property, v) IN
    \E cut \in 0 .. Len(data) :
      /\ Arrives([kind |-> "value", value |-> v], data, cut)
      /\ result' = Get(packet', Reading, PropertyType(property))

Next == job = None /\ (SendDataset \/ DescribeProperty \/ SendPropertyValue)

Spec == Init /\ [][Next]_packetVars

-----------------------------------------------------------------------------
(* Properties *)

(* What the one side wrote is what the other side reads, to the end of the *)
(* packet; the server leaves the keywords alone, and arrays without values *)
(* make a property that is refused.                                        *)
Refused(d) == IsArray(d.type) /\ (d.default = <<>> \/ (IsDeviceProperty(d.code) /\ d.current = <<>>))
Written(j) ==
  CASE j.kind = "property" -> Described(j.what.desc)
    [] j.kind = "value" -> <<j.what.value>>
    [] j.kind = "sent" -> Front(j.what.values)
    [] OTHER -> j.what.values
Unread(j) == IF j.kind = "sent" THEN Len(Put(STR, Last(j.what.values))) ELSE 0
DatasetsArrive ==
  job # None /\ job.whole /\ ~(job.kind = "property" /\ Refused(job.what.desc)) =>
    /\ result.ok /\ result.got = Written(job)
    /\ Left(packet, result) = Unread(job)

(* A packet that ends before its dataset does is refused.                  *)
CutDatasetsAreRefused ==
  job # None /\ ~job.whole /\ result.ok =>
    job.kind = "sent" /\ result.got = Written(job)

=============================================================================
