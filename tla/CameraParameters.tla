-------------------------- MODULE CameraParameters --------------------------
(***************************************************************************)
(* CameraParameters: a map of strings that travels between a camera's      *)
(* client and its service as one string, and the sizes in its values.      *)
(* A string is a sequence of integers: a number stands for the digits that *)
(* strtol() takes, and other characters are negative.                      *)
(***************************************************************************)
EXTENDS Integers, Sequences, FiniteSets, FiniteSetsExt, SequencesExt, TLC

CONSTANTS
  Letters,        \* characters of keys
  Lengths,        \* widths and heights
  MaxKey,         \* bound: characters of a key
  MaxKeys,        \* bound: keys of a map
  MaxSizes        \* bound: sizes of a list

EQUALS == -1
SEMICOLON == -2
X == -3
COMMA == -4

CameraParametersAssumption ==
  Lengths \subseteq Nat /\ {MaxKey, MaxKeys, MaxSizes} \subseteq Nat /\ Letters \subseteq Int

Size == Lengths \X Lengths

VARIABLES
  mMap,   \* of one instance, or of the one it was last sent to
  wanted  \* the sizes set under each key and not removed: a ghost

parameterVars == <<mMap, wanted>>

(* strchr(): the first place of a character from a place on, or 0.         *)
Strchr(s, from, c) ==
  LET at == {i \in from .. Len(s) : s[i] = c} IN IF at = {} THEN 0 ELSE Min(at)

Joined(strings, delimiter) ==
  FlattenSeq([i \in DOMAIN strings |->
    IF i = 1 THEN strings[i] ELSE <<delimiter>> \o strings[i]])

(* flatten(): the keys in their order, which does not matter.              *)
Flatten(map) ==
  LET keys == SetToSeq(DOMAIN map) IN
  Joined([i \in DOMAIN keys |-> keys[i] \o <<EQUALS>> \o map[keys[i]]], SEMICOLON)

(* unflatten(): of two values of a key the last one stays.                 *)
Unflatten(s) ==
  LET from[a \in 1 .. Len(s) + 1] ==
        LET b == Strchr(s, a, EQUALS)
            e == Strchr(s, b + 1, SEMICOLON)
            Pair(last) == SubSeq(s, a, b - 1) :> SubSeq(s, b + 1, last)
        IN IF b = 0 THEN <<>>
           ELSE IF e = 0 THEN Pair(Len(s)) ELSE from[e + 1] @@ Pair(e - 1)
  IN from[1]

(* get() *)
Get(map, k) == IF k \in DOMAIN map THEN map[k] ELSE <<>>

(* strtol(): the number at a place and the place behind it; 0 and the same *)
(* place where there are no digits.                                        *)
Strtol(s, i) ==
  IF i \in DOMAIN s /\ s[i] >= 0 THEN [value |-> s[i], end |-> i + 1] ELSE [value |-> 0, end |-> i]

(* parse_pair(): the set of the pair at a place and of the place behind it *)
ParsePair(s, i, delim) ==
  LET first == Strtol(s, i) second == Strtol(s, first.end + 1) IN
  IF first.end \in DOMAIN s /\ s[first.end] = delim
  THEN {[pair |-> <<first.value, second.value>>, end |-> second.end]} ELSE {}

(* parseSizesList() *)
ParseSizesList(s) ==
  LET from[i \in 1 .. Len(s) + 1] ==
        LET good == {p \in ParsePair(s, i, X) : p.end \in DOMAIN s => s[p.end] = COMMA} IN
        IF good = {} THEN <<>>
        ELSE LET p == CHOOSE q \in good : TRUE IN
             <<p.pair>> \o (IF p.end > Len(s) THEN <<>> ELSE from[p.end + 1])
  IN from[1]

(* What setPreviewSize() and its like, and a HAL with several sizes, write *)
SizeString(size) == <<size[1], X, size[2]>>
SizesString(sizes) == Joined([i \in DOMAIN sizes |-> SizeString(sizes[i])], COMMA)

Init == mMap = <<>> /\ wanted = <<>>

(* set(): a key with a delimiter in it changes nothing.                    *)
Clean(s) == {EQUALS, SEMICOLON} \intersect ToSet(s) = {}
Set(k, sizes) ==
  /\ Cardinality(DOMAIN mMap \union {k}) <= MaxKeys
  /\ IF Clean(k) /\ Clean(SizesString(sizes))
     THEN mMap' = (k :> SizesString(sizes)) @@ mMap /\ wanted' = (k :> sizes) @@ wanted
     ELSE UNCHANGED parameterVars

Without(map, k) == [x \in DOMAIN map \ {k} |-> map[x]]
RemoveItem(k) == mMap' = Without(mMap, k) /\ wanted' = Without(wanted, k)

(* One flattens, another one, in another process, unflattens.              *)
Send == mMap' = Unflatten(Flatten(mMap)) /\ UNCHANGED wanted

Keys == SeqOf(Letters \union {EQUALS, SEMICOLON}, MaxKey)

Next ==
  \/ \E k \in Keys : RemoveItem(k) \/ \E sizes \in SeqOf(Size, MaxSizes) : Set(k, sizes)
  \/ Send

Spec == Init /\ [][Next]_parameterVars

-----------------------------------------------------------------------------
(* Properties *)

(* What a user set is what a reader of the parameters gets, on either side *)
(* and however often they were sent; nothing else is found there.          *)
SizesAreKept ==
  /\ DOMAIN mMap = DOMAIN wanted
  /\ \A k \in DOMAIN mMap : ParseSizesList(Get(mMap, k)) = wanted[k]

=============================================================================
