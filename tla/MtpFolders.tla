----------------------------- MODULE MtpFolders -----------------------------
(***************************************************************************)
(* The folders of the MTP daemon, av/media/mtp/MtpMain.cpp: objects with   *)
(* parents, the files and folders they stand for, and the watches of       *)
(* folders, by which the watch thread hears of what others do.  The host   *)
(* sends, renames and deletes (MtpServer.cpp).  MtpDatabase has the races  *)
(* of the host's requests and the watch thread; here the host waits until  *)
(* the thread has read its events.                                         *)
(*                                                                         *)
(* A path is a sequence of names from the storage's root, and a watch has  *)
(* the number of what it watches.  What deleteFile() erases while it goes  *)
(* through the map is read once more, as if it were still there.           *)
(***************************************************************************)
EXTENDS Integers, Sequences, FiniteSets, FiniteSetsExt, SequencesExt, Functions, TLC

CONSTANTS
  FileNames,
  Depth,      \* bound: the length of a path
  MaxInode,   \* bound: files and folders ever made
  MaxHandle,  \* bound: handles given out
  MaxEvents   \* bound: events that wait to be read

MtpFoldersAssumption ==
  {Depth, MaxInode, MaxHandle, MaxEvents} \subseteq Nat

VARIABLES
  tree,       \* the files and folders: each with a name in its folder
  inode,      \* the last of them
  mObjectDb,  \* the objects by their handles
  mHandleId,  \* the next handle
  watches,    \* inotify: the folders that are watched
  events,     \* inotify: what the watch thread has not read yet
  untold      \* history: paths that changed without an event, or out of turn

folderVars == <<tree, inode, mObjectDb, mHandleId, watches, events, untold>>

Root == 0
Nothing == -1         \* no file; a watch that was refused, or never asked for
MTP_PARENT_ROOT == -1
AllPaths == UNION {[1 .. n -> FileNames] : n \in 1 .. Depth}

Init ==
  /\ tree = [i \in {Root} |-> [dir |-> TRUE, up |-> Root, name |-> ""]]
  /\ inode = Root
  /\ mObjectDb = [h \in {} |-> 0] /\ mHandleId = 1
  /\ watches = {} /\ events = <<>> /\ untold = {}

-----------------------------------------------------------------------------
(* The file system *)

Children(i) == {c \in DOMAIN tree \ {Root} : tree[c].up = i}
Within(i, name) == {c \in Children(i) : tree[c].name = name}
Resolve(path) ==
  FoldLeft(LAMBDA i, name : IF Within(i, name) = {} THEN Nothing ELSE Min(Within(i, name)),
           Root, path)
PathOf(i) ==
  LET path[c \in DOMAIN tree] == IF c = Root THEN <<>> ELSE Append(path[tree[c].up], tree[c].name)
  IN path[i]
Below(path) == {p \in AllPaths : IsStrictPrefix(path, p)}
AllBelow(i) == {c \in DOMAIN tree : IsStrictPrefix(PathOf(i), PathOf(c))}
IsFolder(path) == Resolve(path) # Nothing /\ tree[Resolve(path)].dir

Known(path) == {h \in DOMAIN mObjectDb : mObjectDb[h].path = path}

Notice(es, on, type, i, name) ==
  IF i \in on THEN Append(es, [wd |-> i, type |-> type, name |-> name]) ELSE es

Make(path, dir) ==
  LET up == Resolve(Front(path)) IN
  /\ inode < MaxInode
  /\ inode' = inode + 1
  /\ tree' = (inode' :> [dir |-> dir, up |-> up, name |-> Last(path)]) @@ tree
  /\ events' = Notice(events, watches, "create", up, Last(path))
  /\ Len(events') <= MaxEvents

(* What is below goes first, and its folders' watches with them.  `on' are *)
(* the watches that the caller has left.                                   *)
DeletePath(path, on) ==
  LET top == Resolve(path)
      gone == SetToSortSeq({top} \union AllBelow(top),
                           LAMBDA c, d : Len(PathOf(c)) > Len(PathOf(d)))
  IN IF top = Nothing THEN watches' = on /\ UNCHANGED <<tree, events>>
     ELSE /\ tree' = [c \in DOMAIN tree \ ToSet(gone) |-> tree[c]]
          /\ watches' = on \ ToSet(gone)
          /\ events' = FoldLeft(LAMBDA es, c : Notice(es, on, "delete", tree[c].up, tree[c].name),
                                events, gone)
          /\ Len(events') <= MaxEvents

-----------------------------------------------------------------------------
(* The map *)

Object(parent, path, dir, wd) == [parent |-> parent, path |-> path, dir |-> dir, mWd |-> wd]

(* addObjectInfo() and enumDirectory(): a folder is watched, and all that  *)
(* is below it gets the handles that follow.                               *)
Listed(top, handle, parent) ==
  LET order == SetToSortSeq(AllBelow(top), LAMBDA c, d : Len(PathOf(c)) < Len(PathOf(d)))
      HandleOf(c) == handle + SelectInSeq(order, LAMBDA d : d = c)
      At(c) == Object(IF tree[c].up = top THEN parent ELSE HandleOf(tree[c].up),
                      PathOf(c), tree[c].dir, IF tree[c].dir THEN c ELSE Nothing)
  IN [h \in {HandleOf(c) : c \in AllBelow(top)} |-> At(order[h - handle])]

AddObjectInfo(path, parent) ==
  LET i == Resolve(path) IN
  IF i = Nothing THEN
    /\ \E dir \in BOOLEAN :  \* stat64() has set nothing
         mObjectDb' = (mHandleId :> Object(parent, path, dir, Nothing)) @@ mObjectDb
    /\ mHandleId' = mHandleId + 1
    /\ UNCHANGED watches
  ELSE
    LET below == Listed(i, mHandleId, mHandleId) IN
    /\ mObjectDb' =
         (mHandleId :> Object(parent, path, tree[i].dir, IF tree[i].dir THEN i ELSE Nothing))
           @@ below @@ mObjectDb
    /\ mHandleId' = mHandleId + 1 + Cardinality(DOMAIN below)
    /\ watches' = watches \union {c \in {i} \union AllBelow(i) : tree[c].dir}

(* deleteFile(): the objects whose parent it is go with it.                *)
ItAndChildren(handle) ==
  LET with[n \in 0 .. Depth] ==
        IF n = 0 THEN {handle}
        ELSE with[n - 1] \union {h \in DOMAIN mObjectDb : \E up \in with[n - 1] :
                                   mObjectDb[up].dir /\ mObjectDb[h].parent = up}
  IN with[Depth]

DeleteFile(handle) ==
  mObjectDb' = [h \in DOMAIN mObjectDb \ ItAndChildren(handle) |-> mObjectDb[h]]
WatchesAfter(handle) ==
  watches \ {mObjectDb[h].mWd : h \in {g \in ItAndChildren(handle) : mObjectDb[g].dir}}

-----------------------------------------------------------------------------
(* The storage is added: its root is watched and listed.                   *)

AddStorage ==
  LET below == Listed(Root, mHandleId, 0) IN
  /\ DOMAIN mObjectDb = {}
  /\ mObjectDb' = (mHandleId :> Object(MTP_PARENT_ROOT, <<>>, TRUE, Root)) @@ below
  /\ mHandleId' = mHandleId + 1 + Cardinality(DOMAIN below)
  /\ watches' = {c \in DOMAIN tree : tree[c].dir}
  /\ UNCHANGED <<tree, inode, events, untold>>

(* The host *)

ParentPath(parent) == IF parent = MTP_PARENT_ROOT THEN <<>> ELSE mObjectDb[parent].path

(* SendObjectInfo of a folder, or SendObjectInfo and SendObject of a file, *)
(* which is forgotten if it cannot be made; a folder is not.  A folder of  *)
(* the host's is never watched, and nobody tells what others do in it.     *)
SendObject(parent, name, dir) ==
  LET path == Append(ParentPath(parent), name) IN
  /\ DOMAIN mObjectDb # {} /\ events = <<>> /\ mHandleId < MaxHandle
  /\ parent # MTP_PARENT_ROOT => mObjectDb[parent].dir
  /\ Len(path) <= Depth /\ Resolve(path) = Nothing
  /\ IF IsFolder(Front(path)) THEN Make(path, dir) ELSE UNCHANGED <<tree, inode, events>>
  /\ IF IsFolder(Front(path)) \/ dir
       THEN mObjectDb' = (mHandleId :> Object(IF parent = MTP_PARENT_ROOT THEN 0 ELSE parent,
                                              path, dir, Nothing)) @@ mObjectDb
       ELSE UNCHANGED mObjectDb
  /\ mHandleId' = mHandleId + 1
  /\ untold' = untold \union (IF dir THEN Below(path) ELSE {})
                      \union (IF IsFolder(Front(path)) \/ ~dir THEN {} ELSE {path})
  /\ UNCHANGED watches

(* DeleteObject: the objects, and then what is at the path.                *)
DeleteObject(handle) ==
  LET path == mObjectDb[handle].path IN
  /\ path # <<>> /\ events = <<>>
  /\ DeleteFile(handle)
  /\ DeletePath(path, WatchesAfter(handle))
  /\ UNCHANGED <<inode, mHandleId, untold>>

(* SetObjectPropValue of the file name.  rename() makes no event that is   *)
(* watched for, and the objects in a renamed folder keep their paths.      *)
Replaceable(old, i) ==
  i # Nothing => tree[i].dir = tree[old].dir /\ Children(i) = {}
Rename(handle, name) ==
  LET from == mObjectDb[handle].path
      to == Append(Front(from), name)
      old == Resolve(from)
      over == Resolve(to)
  IN
  /\ from # <<>> /\ to # from /\ events = <<>>
  /\ old # Nothing /\ Replaceable(old, over)
  /\ tree' = [c \in DOMAIN tree \ {over} |->
                IF c = old THEN [tree[c] EXCEPT !.name = name] ELSE tree[c]]
  /\ watches' = watches \ {over}
  /\ mObjectDb' = [mObjectDb EXCEPT ![handle].path = to]
  /\ untold' = untold \union Below(from) \union Below(to)
                 \union (IF over = Nothing THEN {} ELSE {to})
  /\ UNCHANGED <<inode, mHandleId, events>>

-----------------------------------------------------------------------------
(* Other programs create and remove, a folder with all that is in it.      *)

OthersMake(path, dir) ==
  /\ Resolve(path) = Nothing /\ IsFolder(Front(path))
  /\ Make(path, dir)
  /\ UNCHANGED <<mObjectDb, mHandleId, watches, untold>>

OthersRemove(path) ==
  /\ Resolve(path) # Nothing
  /\ DeletePath(path, watches)
  /\ UNCHANGED <<inode, mObjectDb, mHandleId, untold>>

-----------------------------------------------------------------------------
(* The watch thread: inotifyWatchHandler() of one event.  The folder is    *)
(* the first whose watch it is; a path that is known is not added again:   *)
(* it was listed with its folder.  The variant adds it.                    *)

Watched(wd) == {h \in DOMAIN mObjectDb : mObjectDb[h].mWd = wd}
IsTold(path) == path \in AllPaths
IsNew(path) == Known(path) = {}

ReadEvent ==
  /\ events # <<>>
  /\ events' = Tail(events)
  /\ LET event == Head(events)
         parent == Min(Watched(event.wd))
         path == Append(mObjectDb[parent].path, event.name)
     IN
     CASE Watched(event.wd) = {} -> UNCHANGED <<mObjectDb, mHandleId, watches>>
       [] Watched(event.wd) # {} /\ event.type = "create" /\ IsNew(path) -> AddObjectInfo(path, parent)
       [] Watched(event.wd) # {} /\ event.type = "delete" /\ Known(path) # {} ->
            /\ DeleteFile(Min(Known(path))) /\ watches' = WatchesAfter(Min(Known(path)))
            /\ UNCHANGED mHandleId
       [] OTHER -> UNCHANGED <<mObjectDb, mHandleId, watches>>
  /\ UNCHANGED <<tree, inode, untold>>

-----------------------------------------------------------------------------
Next ==
  /\ \/ AddStorage
     \/ \E parent \in DOMAIN mObjectDb \union {MTP_PARENT_ROOT}, name \in FileNames,
           dir \in BOOLEAN :
          SendObject(parent, name, dir)
     \/ \E handle \in DOMAIN mObjectDb : DeleteObject(handle)
     \/ \E handle \in DOMAIN mObjectDb, name \in FileNames : Rename(handle, name)
     \/ \E path \in AllPaths, dir \in BOOLEAN : OthersMake(path, dir)
     \/ \E path \in AllPaths : OthersRemove(path)
     \/ ReadEvent
  /\ mHandleId' <= MaxHandle

Spec == Init /\ [][Next]_folderVars

-----------------------------------------------------------------------------
(* Properties *)

(* When all events are read each path has one object if there is something *)
(* at it and none if there is not, unless it is a path nobody was told of. *)
AtRest == events = <<>> /\ DOMAIN mObjectDb # {}
EachPathHasItsObject ==
  AtRest => \A p \in AllPaths \ untold :
              Cardinality(Known(p)) = (IF Resolve(p) = Nothing THEN 0 ELSE 1)

(* An object's parent is the object of the folder its path is in, and a    *)
(* folder's children are found by it; in the root it is none or the        *)
(* storage's.                                                              *)
ParentsAreFolders ==
  AtRest => \A h \in DOMAIN mObjectDb : LET o == mObjectDb[h] IN
    o.path \notin untold \union {<<>>} =>
      IF Len(o.path) = 1 THEN o.parent = 0 \/ o.parent \in Known(<<>>)
      ELSE /\ o.parent \in DOMAIN mObjectDb /\ mObjectDb[o.parent].dir
           /\ mObjectDb[o.parent].path = Front(o.path)

=============================================================================
