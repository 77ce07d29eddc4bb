----------------------------- MODULE VendorTags -----------------------------
(***************************************************************************)
(* VendorTagDescriptor: the tags a camera's maker adds, as the HAL         *)
(* enumerates them, as a process keeps them and as they travel in parcels. *)
(* Tags, strings and what a parcel holds are numbers, 0 the empty string;  *)
(* a map is a function.                                                    *)
(***************************************************************************)
EXTENDS Integers, Sequences, FiniteSets, SequencesExt, Functions, TLC

CONSTANTS
  Descriptors,     \* instances
  TagIds,          \* tags a HAL may list
  Boundary,        \* CAMERA_METADATA_VENDOR_TAG_BOUNDARY
  Names, Sections, \* strings
  Types, NUM_TYPES

VendorTagsAssumption ==
  /\ TagIds \union Names \union Sections \subseteq Nat /\ Boundary \in Nat
  /\ Types \subseteq Int /\ NUM_TYPES \in Nat

VARIABLES
  desc,   \* the fields of each descriptor
  hal     \* what the camera's HAL answers for each of its tags

vendorVars == <<desc, hal>>

(* VendorTagDescriptor() *)
NoTags ==
  [tagToName |-> <<>>, tagToSection |-> <<>>, tagToType |-> <<>>,
   sections |-> <<>>, reverse |-> <<>>, tagCount |-> 0]

(* SortedVector::add(): a string that is there is not added again.         *)
SectionsWith(s, new) == SetToSortSeq(ToSet(s) \union new, <)
IndexOf(s, x) == CHOOSE i \in DOMAIN s : s[i] = x

Tags(d) == DOMAIN d.tagToName
SectionOf(d, t) == d.sections[d.tagToSection[t] + 1]

(* The reverse mapping gets the tags in the order of the list: of two with *)
(* the same name and section the last one stays.  A variant takes all for  *)
(* tags of the first one's section.                                        *)
WithReverseOfOne(d, list) ==
  LET Add(rev, t) == (<<SectionOf(d, list[1]), d.tagToName[t]>> :> t) @@ rev
  IN [d EXCEPT !.reverse = FoldLeft(Add, @, list)]
WithReverse(d, list) ==
  LET Add(rev, t) == (<<SectionOf(d, t), d.tagToName[t]>> :> t) @@ rev
  IN [d EXCEPT !.reverse = FoldLeft(Add, @, list)]

(* createDescriptorFromOps(): `table' is what the HAL answers for a tag.   *)
(* The set of the descriptor, empty if there is none.                      *)
FromOps(table, list) ==
  LET known == ToSet(list)
      sections == SectionsWith(<<>>, {table[t].section : t \in known})
  IN
  IF \E t \in known : t < Boundary \/ table[t].type \notin 0 .. NUM_TYPES - 1 THEN {}
  ELSE {WithReverse(
    [tagToName |-> [t \in known |-> table[t].name],
     tagToSection |-> [t \in known |-> IndexOf(sections, table[t].section) - 1],
     tagToType |-> [t \in known |-> table[t].type],
     sections |-> sections, reverse |-> <<>>, tagCount |-> Len(list)], list)}

(* writeToParcel(): a sequence of numbers; the tags in order.              *)
Written(d) ==
  LET Field(t) == <<t, d.tagToType[t], d.tagToName[t], d.tagToSection[t]>>
  IN <<d.tagCount>>
     \o FlattenSeq([i \in 1 .. Cardinality(Tags(d)) |-> Field(SetToSortSeq(Tags(d), <)[i])])
     \o (IF d.sections = <<>> THEN <<>> ELSE <<Len(d.sections)>> \o d.sections)

(* createFromParcel() and readFromParcel(), which differ in the descriptor *)
(* they begin with: the set of it, empty if that fails.                    *)
ReadInto(d0, parcel) ==
  LET count == parcel[1]
      at(i) == 4 * i - 2
      list == [i \in 1 .. count |-> parcel[at(i)]]
      BadTag(i) ==
        \/ at(i) + 3 > Len(parcel) \/ parcel[at(i)] < Boundary
        \/ parcel[at(i) + 1] \notin 0 .. NUM_TYPES - 1 \/ parcel[at(i) + 2] = 0
      d1 == [d0 EXCEPT
        !.tagCount = count,
        !.tagToType = [t \in ToSet(list) |-> parcel[at(IndexOf(list, t)) + 1]] @@ @,
        !.tagToName = [t \in ToSet(list) |-> parcel[at(IndexOf(list, t)) + 2]] @@ @,
        !.tagToSection = [t \in ToSet(list) |-> parcel[at(IndexOf(list, t)) + 3]] @@ @]
      last == at(count + 1)
      names == SubSeq(parcel, last + 1, last + parcel[last])
  IN
  IF \E i \in 1 .. count : BadTag(i) THEN {}
  ELSE IF count = 0 THEN {d1}
  ELSE IF \/ last > Len(parcel) \/ Len(names) < parcel[last] \/ 0 \in ToSet(names)
          \/ \E i \in 1 .. count : parcel[at(i) + 3] >= parcel[last]
       THEN {}
  ELSE {WithReverse([d1 EXCEPT !.sections = SectionsWith(@, ToSet(names))], list)}

(* getTagCount(), getSectionName(), getTagName(), getTagType(), lookupTag() *)
Meaning(d) ==
  [t \in Tags(d) |-> [name |-> d.tagToName[t], section |-> SectionOf(d, t), type |-> d.tagToType[t]]]
LookupTag(d, name, section) ==
  IF <<section, name>> \in DOMAIN d.reverse THEN d.reverse[<<section, name>>] ELSE -1

Tables == UNION {[S -> [name : Names, section : Sections, type : Types]] : S \in SUBSET TagIds}

(* A HAL that knows its tags has no two of one name in a section.          *)
Unambiguous(table) ==
  \A s, t \in DOMAIN table :
    s # t => <<table[s].name, table[s].section>> # <<table[t].name, table[t].section>>

Init ==
  /\ desc = [x \in Descriptors |-> NoTags]
  /\ hal \in {table \in Tables : Unambiguous(table)}

(* What was made or read, if that succeeded.                               *)
Becomes(x, made) == \E d \in made : desc' = [desc EXCEPT ![x] = d] /\ UNCHANGED hal

(* The HAL lists its tags in any order, each once.                         *)
CreateFromOps(x) == \E list \in SetToSeqs(DOMAIN hal) : Becomes(x, FromOps(hal, list))

(* copyFrom() *)
CopyFrom(x, y) == Becomes(x, {desc[y]})

(* createFromParcel(), which makes a new descriptor, of what another one   *)
(* wrote; readFromParcel() does the same to one without tags.              *)
CreateFromParcel(x, y) == Becomes(x, ReadInto(NoTags, Written(desc[y])))
ReadFromParcel(x, y) == Tags(desc[x]) = {} /\ Becomes(x, ReadInto(desc[x], Written(desc[y])))

Next ==
  \E x \in Descriptors :
    CreateFromOps(x) \/ \E y \in Descriptors : CopyFrom(x, y) \/ CreateFromParcel(x, y) \/ ReadFromParcel(x, y)

Spec == Init /\ [][Next]_vendorVars

-----------------------------------------------------------------------------
(* Properties *)

(* However often it was copied and sent, a descriptor says of every tag    *)
(* what the HAL said, finds each tag by the name it gives it, and can be   *)
(* sent again.                                                             *)
TagsAreKept ==
  \A x \in Descriptors :
    LET d == desc[x] IN
    /\ Meaning(d) \in {<<>>, hal}
    /\ \A t \in Tags(d) : LookupTag(d, d.tagToName[t], SectionOf(d, t)) = t
    /\ Cardinality(DOMAIN d.reverse) = Cardinality(Tags(d))
    /\ ReadInto(NoTags, Written(d)) = {d}

=============================================================================
