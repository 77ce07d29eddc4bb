----------------------------- MODULE AudioRoute -----------------------------
(***************************************************************************)
(* The mixer paths of audio_route/audio_route.c: a configuration file      *)
(* gives initial values of controls and named paths, lists of settings of  *)
(* controls; a user applies and resets paths and updates the mixer with    *)
(* what has changed.                                                       *)
(*                                                                         *)
(* Of each control the library keeps three copies: what it has last        *)
(* written, what is to be written, and what to reset to.  One thread.      *)
(***************************************************************************)
EXTENDS Integers, Sequences, FiniteSets, Functions

CONSTANTS
  Ints,       \* controls of type bool, int and byte
  Enums,      \* controls of type enum
  Others,     \* controls of a type that is not supported
  Paths,      \* names of paths
  NumValues,  \* values of each control: mixer_ctl_get_num_values()
  MaxValue,   \* bound: values a control takes
  MaxTags     \* bound: elements of the configuration file

AudioRouteAssumption ==
  /\ NumValues \in Nat \ {0} /\ MaxValue \in Nat /\ MaxTags \in Nat
  /\ Ints \intersect Enums = {} /\ Others \intersect (Ints \union Enums) = {}
  /\ {"top", "done"} \intersect Paths = {}

Supported == Ints \union Enums
Ids == 0 .. NumValues - 1
All == -1   \* the index of an element without an id attribute
Settings == [Ids -> 0 .. MaxValue]
Zero == [i \in Ids |-> 0]

VARIABLES
  mixer,      \* what the mixer shows
  old, new, reset,  \* old_value, new_value and reset_value of each control
  path,       \* the settings of each path that has been created
  parsing,    \* where the parser is: "top", in a path, or "done"
  tags,       \* elements read
  active,     \* history: the paths applied and not reset since
  clash,      \* history: controls of active paths that another path has set
  updated     \* history: the controls the last call was to update

values == <<old, new, reset>>
history == <<active, clash>>
vars == <<mixer, values, path, parsing, tags, history, updated>>

(* alloc_mixer_state(): of an enum only the first value is read.           *)
Read(c) == IF c \in Enums THEN [Zero EXCEPT ![0] = mixer[c][0]] ELSE mixer[c]

Init ==
  /\ mixer \in [Supported -> Settings]
  /\ old = [c \in Supported |-> Read(c)]
  /\ new = old
  /\ reset = [c \in Supported |-> Zero]
  /\ path = [p \in {} |-> <<>>]
  /\ parsing = "top" /\ tags = 0
  /\ active = {} /\ clash = {} /\ updated = {}

-----------------------------------------------------------------------------
(* Writing to the mixer: of an enum only the first value is written.       *)

Changed(cs) == {c \in cs : old[c] # new'[c]}

Shown(c) == IF c \in Enums THEN [mixer[c] EXCEPT ![0] = new'[c][0]] ELSE new'[c]

(* Writing what has changed and forgetting that it was written.            *)
UpdateForgetting(cs) ==
  /\ mixer' = [c \in Supported |-> IF c \in Changed(cs) THEN Shown(c) ELSE mixer[c]]
  /\ old' = old

(* The loops of audio_route_update_mixer() and audio_route_update_path(),  *)
(* after new_value has been set.                                           *)
Update(cs) ==
  /\ mixer' = [c \in Supported |-> IF c \in Changed(cs) THEN Shown(c) ELSE mixer[c]]
  /\ old' = [c \in Supported |-> IF c \in cs THEN new'[c] ELSE old[c]]

-----------------------------------------------------------------------------
(* Parsing: start_tag() and end_tag()                                      *)

Tag ==
  /\ parsing # "done" /\ tags < MaxTags
  /\ tags' = tags + 1
  /\ UNCHANGED <<mixer, old, reset, history, updated>>

With(setting, id, v) == [i \in Ids |-> IF id \in {All, i} THEN v ELSE setting[i]]

(* A control outside of a path: its initial value.                         *)
TopControl(c, id, v) ==
  /\ parsing = "top" /\ Tag
  /\ new' = IF c \in Supported /\ id < NumValues THEN [new EXCEPT ![c] = With(@, id, v)] ELSE new
  /\ UNCHANGED <<path, parsing>>

(* path_create(): files give each name to one path.                        *)
OpenPath(p) ==
  /\ parsing = "top" /\ p \notin DOMAIN path /\ Tag
  /\ path' = [q \in DOMAIN path \union {p} |-> IF q = p THEN <<>> ELSE path[q]]
  /\ parsing' = p
  /\ UNCHANGED new

ClosePath ==
  /\ parsing \in Paths
  /\ parsing' = "top"
  /\ UNCHANGED <<mixer, values, path, tags, history, updated>>

(* find_ctl_index_in_path() *)
Has(s, c) == \E i \in DOMAIN s : s[i].ctl = c

(* path_add_value(): a new setting gets the value as its first, whatever   *)
(* the id; an old one is changed in its place.                             *)
AddValue(s, c, id, v) ==
  IF id >= NumValues \/ (~Has(s, c) /\ c \notin Supported) THEN s
  ELSE IF ~Has(s, c)
    THEN Append(s, [ctl |-> c, value |-> With([Zero EXCEPT ![0] = v], id, v)])
    ELSE [i \in DOMAIN s |-> IF s[i].ctl = c THEN [s[i] EXCEPT !.value = With(@, id, v)]
                             ELSE s[i]]

NestedControl(c, id, v) ==
  /\ parsing \in Paths /\ Tag
  /\ path' = [path EXCEPT ![parsing] = AddValue(@, c, id, v)]
  /\ UNCHANGED <<new, parsing>>

(* path_add_path(): the settings are copied up to the first whose control  *)
(* is in the path already.                                                 *)
AddPath(s, sub) ==
  LET fits == {n \in 0 .. Len(sub) : \A i \in 1 .. n : ~Has(s, sub[i].ctl)} IN
  s \o SubSeq(sub, 1, CHOOSE n \in fits : \A k \in fits : k <= n)

(* A path within a path is looked up among those created so far, the one   *)
(* being parsed included.                                                  *)
NestedPath(p) ==
  /\ parsing \in Paths /\ Tag
  /\ path' = IF p \in DOMAIN path THEN [path EXCEPT ![parsing] = AddPath(@, path[p])] ELSE path
  /\ UNCHANGED <<new, parsing>>

(* The end of audio_route_init(): update_mixer and save_mixer_state().     *)
Parsed ==
  /\ parsing = "top"
  /\ parsing' = "done"
  /\ UNCHANGED new
  /\ updated' = Supported /\ Update(Supported)
  /\ reset' = new
  /\ UNCHANGED <<path, tags, history>>

-----------------------------------------------------------------------------
(* Users *)

Using == parsing = "done" /\ UNCHANGED <<reset, path, parsing, tags>>
ControlsOf(p) == {path[p][i].ctl : i \in DOMAIN path[p]}

SettingOf(p, c) == path[p][CHOOSE i \in DOMAIN path[p] : path[p][i].ctl = c].value

(* Setting what other active paths have set.                               *)
Clashing(p) ==
  clash' = clash \union {c \in ControlsOf(p) : \E q \in active \ {p} : c \in ControlsOf(q)}

(* path_apply() *)
Applied(p) ==
  /\ new' = [c \in Supported |-> IF c \in ControlsOf(p) THEN SettingOf(p, c) ELSE new[c]]
  /\ active' = active \union {p}
  /\ Clashing(p)

(* path_reset(), and one that goes back to what the mixer shows.           *)
Forgotten(p) ==
  /\ active' = active \ {p}
  /\ Clashing(p)
ResetToOld(p) ==
  /\ new' = [c \in Supported |-> IF c \in ControlsOf(p) THEN old[c] ELSE new[c]]
  /\ Forgotten(p)
ResetTo(p) ==
  /\ new' = [c \in Supported |-> IF c \in ControlsOf(p) THEN reset[c] ELSE new[c]]
  /\ Forgotten(p)

(* A call on one path, for an update of the controls cs, {} if it is none; *)
(* a name that is no path's is refused.                                    *)
Call(p, cs) == Using /\ p \in DOMAIN path /\ updated' = cs

ApplyPath(p) == Call(p, {}) /\ Applied(p) /\ UNCHANGED <<mixer, old>>
ResetPath(p) == Call(p, {}) /\ ResetTo(p) /\ UNCHANGED <<mixer, old>>

ApplyAndUpdatePath(p) == Call(p, ControlsOf(p)) /\ Applied(p) /\ Update(ControlsOf(p))
ResetAndUpdatePath(p) == Call(p, ControlsOf(p)) /\ ResetTo(p) /\ Update(ControlsOf(p))

(* audio_route_update_mixer() *)
UpdateMixer ==
  /\ Using /\ UNCHANGED <<new, history>>
  /\ updated' = Supported /\ Update(Supported)

(* audio_route_reset() *)
Reset ==
  /\ Using
  /\ new' = reset
  /\ active' = {} /\ clash' = {} /\ updated' = {}
  /\ UNCHANGED <<mixer, old>>

-----------------------------------------------------------------------------
Parse ==
  \/ \E c \in Supported \union Others, id \in {All} \union 0 .. NumValues, v \in 0 .. MaxValue :
       TopControl(c, id, v) \/ NestedControl(c, id, v)
  \/ \E p \in Paths : OpenPath(p) \/ NestedPath(p)
  \/ ClosePath \/ Parsed

Use ==
  \/ \E p \in Paths : ApplyPath(p) \/ ResetPath(p) \/ ApplyAndUpdatePath(p) \/ ResetAndUpdatePath(p)
  \/ UpdateMixer \/ Reset

Next == Parse \/ Use

Spec == Init /\ [][Next]_vars

-----------------------------------------------------------------------------
(* Properties *)

(* Besides the types: a path sets each control once and only controls of a *)
(* supported type, without which audio_route_update_path() would not end.  *)
TypeOK ==
  /\ mixer \in [Supported -> Settings]
  /\ old \in [Supported -> Settings] /\ new \in [Supported -> Settings]
  /\ reset \in [Supported -> Settings]
  /\ DOMAIN path \subseteq Paths
  /\ \A p \in DOMAIN path :
       /\ path[p] \in Seq([ctl : Supported, value : Settings])
       /\ Cardinality(ControlsOf(p)) = Len(path[p])
  /\ parsing \in Paths \union {"top", "done"} /\ tags \in 0 .. MaxTags
  /\ active \subseteq DOMAIN path /\ clash \subseteq Supported
  /\ updated \subseteq Supported

(* Whatever is applied and reset in between, and in whatever order: what   *)
(* is to be shown of a control is what the active path that has it says,   *)
(* and its initial value if none has, unless another path has set it while *)
(* that one was active.                                                    *)
RoutesAreIndependent ==
  parsing = "done" => \A c \in Supported \ clash :
    LET having == {p \in active : c \in ControlsOf(p)} IN
    IF having = {} THEN new[c] = reset[c]
    ELSE \A p \in having : new[c] = SettingOf(p, c)

(* When an update ends the mixer shows what is wanted of each control the  *)
(* update was for, whatever has been applied, shown and taken back before, *)
(* though it writes only what differs from what it wrote last; no other    *)
(* control and no other call changes the mixer.  Of an enum this is said   *)
(* of the first value.                                                     *)
Seen(v) == [c \in Supported |-> IF c \in Enums THEN [i \in Ids |-> v[c][0]] ELSE v[c]]

Mixer == INSTANCE RouteMixer WITH
  Controls <- Supported,
  routes   <- {Supported} \union {ControlsOf(p) : p \in DOMAIN path},
  wanted   <- Seen(new),
  shown    <- Seen(mixer)
UpdatesShowWhatIsWanted == Mixer!Spec

=============================================================================
