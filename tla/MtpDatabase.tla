---------------------------- MODULE MtpDatabase ----------------------------
(***************************************************************************)
(* The objects of the MTP daemon, av/media/mtp/MtpMain.cpp: the map        *)
(* mObjectDb of MyMtpDatabase from handles to paths, and the four who      *)
(* change it or the files it stands for, with no lock between them:        *)
(*   - the server's thread, for a host that sends and deletes objects      *)
(*     (doSendObjectInfo, doSendObject and doDeleteObject of MtpServer);   *)
(*   - the watch thread, which follows the inotify events of the storage;  *)
(*   - the media thread, which lists a storage that is mounted;            *)
(*   - other programs, which create and remove files.                      *)
(* Each reads and writes the map, mHandleId and the file system in steps   *)
(* of its own.  One storage is modelled, whose files are all in its root.  *)
(***************************************************************************)
EXTENDS Naturals, Sequences, FiniteSets, FiniteSetsExt, TLC

CONSTANTS
  HostPaths,  \* the names of the files the host sends
  LocalPaths, \* those of the files other programs create
  Nobody,     \* no path
  MediaFlag,  \* mMediaFlag before the storage is added: 1 if there is another
  MaxHandle,  \* bound: handles given out
  MaxEvents   \* bound: events that wait to be read

MtpDatabaseAssumption ==
  /\ Nobody \notin HostPaths \union LocalPaths /\ MediaFlag \in Nat
  /\ MaxHandle \in Nat \ {0} /\ MaxEvents \in Nat

Paths == HostPaths \union LocalPaths
Handles == 1 .. MaxHandle

VARIABLES
  mObjectDb,  \* the path of each handle
  mHandleId,  \* the next handle
  files,      \* the files of the storage
  events,     \* inotify: what the watch thread has not read yet
  server,     \* where the server's thread is, with the path and the handle
  watcher,    \* the same of the watch thread
  media,      \* the same of the media thread, and what it has yet to list
  mMediaFlag,
  loose,      \* history: what was sent without its data, or changed while listed
  clash       \* history: whether a handle was given to two objects

dbVars == <<mObjectDb, mHandleId, clash>>
vars == <<dbVars, files, events, server, watcher, media, mMediaFlag, loose>>

Idle == [pc |-> "idle", path |-> Nobody, handle |-> 0]

Init ==
  /\ mObjectDb = [h \in Handles |-> Nobody]
  /\ mHandleId = 1
  /\ files \in SUBSET Paths
  /\ events = <<>>
  /\ server = Idle /\ watcher = Idle
  /\ media = [pc |-> "mount", path |-> Nobody, handle |-> 0, todo |-> {}]
  /\ mMediaFlag = MediaFlag
  /\ loose = {} /\ clash = FALSE

-----------------------------------------------------------------------------
(* The map and the file system *)

Known(p) == {h \in Handles : mObjectDb[h] = p}

(* mHandleId++, while the server's thread may have read it to count later. *)
NewHandle ==
  /\ mHandleId < MaxHandle
  /\ mHandleId' = mHandleId + 1
  /\ clash' = (clash \/ (server.pc \in {"insert", "count"} /\ server.handle = mHandleId))

(* std::map::insert(), which leaves an entry that is there.                *)
Insert(h, p) ==
  mObjectDb' = [mObjectDb EXCEPT ![h] = IF @ = Nobody THEN p ELSE @]

Erase(h) == mObjectDb' = [mObjectDb EXCEPT ![h] = Nobody]

(* Once the storage is watched a new or removed file is an event; the      *)
(* variant is for a storage that is watched after it is listed.            *)
NotifyListed(type, p) ==
  IF media.pc \notin {"flag", "idle"} THEN UNCHANGED events
  ELSE /\ Len(events) < MaxEvents
       /\ events' = Append(events, [type |-> type, path |-> p])

Notify(type, p) ==
  IF media.pc = "mount" THEN UNCHANGED events
  ELSE /\ Len(events) < MaxEvents
       /\ events' = Append(events, [type |-> type, path |-> p])

CreateFile(p) ==
  IF p \in files THEN UNCHANGED <<files, events>>
  ELSE files' = files \union {p} /\ Notify("create", p)

RemoveFile(p) ==
  IF p \in files THEN files' = files \ {p} /\ Notify("delete", p)
  ELSE UNCHANGED <<files, events>>

-----------------------------------------------------------------------------
(* The server's thread *)

(* SendObjectInfo: beginSendObject() reads mHandleId, checks that there is *)
(* no such file, inserts the object, and only then counts mHandleId.  The  *)
(* variant does not check.                                                 *)
BeginSendOver(p) ==
  /\ server.pc = "idle" /\ media.pc \in {"flag", "idle"} /\ mHandleId < MaxHandle
  /\ server' = [pc |-> "insert", path |-> p, handle |-> mHandleId]
  /\ UNCHANGED <<dbVars, files, events, watcher, media, mMediaFlag, loose>>

BeginSendObject(p) ==
  /\ server.pc = "idle" /\ media.pc \in {"flag", "idle"}
  /\ p \notin files /\ mHandleId < MaxHandle
  /\ server' = [pc |-> "insert", path |-> p, handle |-> mHandleId]
  /\ UNCHANGED <<dbVars, files, events, watcher, media, mMediaFlag, loose>>

InsertSent ==
  /\ server.pc = "insert"
  /\ Insert(server.handle, server.path)
  /\ server' = [server EXCEPT !.pc = "count"]
  /\ UNCHANGED <<mHandleId, clash, files, events, watcher, media, mMediaFlag, loose>>

CountHandle ==
  /\ server.pc = "count" /\ mHandleId < MaxHandle
  /\ mHandleId' = mHandleId + 1
  /\ server' = [server EXCEPT !.pc = "await"]
  /\ UNCHANGED <<mObjectDb, clash, files, events, watcher, media, mMediaFlag, loose>>

(* handleRequest() of another request forgets the handle.                  *)
Abandon ==
  /\ server.pc = "await"
  /\ server' = Idle
  /\ loose' = loose \union {server.path}
  /\ UNCHANGED <<dbVars, files, events, watcher, media, mMediaFlag>>

(* SendObject: when data comes the file is created and written, and        *)
(* endSendObject() takes note of its size; if something fails it erases    *)
(* the object, after the file is removed.                                  *)
SendObject ==
  /\ server.pc = "await"
  /\ CreateFile(server.path)
  /\ server' = [server EXCEPT !.pc = "write"]
  /\ UNCHANGED <<dbVars, watcher, media, mMediaFlag, loose>>

NoDataComes ==
  /\ server.pc = "await"
  /\ server' = [server EXCEPT !.pc = "end"]
  /\ loose' = loose \union {server.path}
  /\ UNCHANGED <<dbVars, files, events, watcher, media, mMediaFlag>>

SendSucceeds ==
  /\ server.pc = "write"
  /\ server' = Idle
  /\ UNCHANGED <<dbVars, files, events, watcher, media, mMediaFlag, loose>>

SendFails ==
  /\ server.pc = "write"
  /\ RemoveFile(server.path)
  /\ server' = [server EXCEPT !.pc = "end"]
  /\ UNCHANGED <<dbVars, watcher, media, mMediaFlag, loose>>

EndFailedSend ==
  /\ server.pc = "end"
  /\ Erase(server.handle)
  /\ server' = Idle
  /\ UNCHANGED <<mHandleId, clash, files, events, watcher, media, mMediaFlag, loose>>

(* DeleteObject: the object first, then its file.                          *)
DeleteObject(h) ==
  /\ server.pc = "idle" /\ mObjectDb[h] # Nobody
  /\ Erase(h)
  /\ server' = [pc |-> "unlink", path |-> mObjectDb[h], handle |-> h]
  /\ UNCHANGED <<mHandleId, clash, files, events, watcher, media, mMediaFlag, loose>>

DeletePath ==
  /\ server.pc = "unlink"
  /\ RemoveFile(server.path)
  /\ server' = Idle
  /\ UNCHANGED <<dbVars, watcher, media, mMediaFlag, loose>>

Server ==
  \/ \E p \in HostPaths : BeginSendObject(p)
  \/ InsertSent \/ CountHandle \/ Abandon
  \/ SendObject \/ NoDataComes \/ SendSucceeds \/ SendFails \/ EndFailedSend
  \/ \E h \in Handles : DeleteObject(h)
  \/ DeletePath

-----------------------------------------------------------------------------
(* The watch thread: inotifyWatchHandler() of one event *)

(* Events are dropped while mMediaFlag is 0; a file that is known by its   *)
(* path is not added again, one that is not known not deleted.             *)
Lookup(type, p) ==
  CASE mMediaFlag = 0                          -> Idle
    [] type = "create" /\ Known(p) = {}        -> [pc |-> "take", path |-> p, handle |-> 0]
    [] type = "delete" /\ Known(p) # {}        -> [pc |-> "erase", path |-> p, handle |-> Min(Known(p))]
    [] OTHER                                   -> Idle

ReadEvent ==
  /\ watcher.pc = "idle" /\ events # <<>>
  /\ watcher' = Lookup(Head(events).type, Head(events).path)
  /\ events' = Tail(events)
  /\ UNCHANGED <<dbVars, files, server, media, mMediaFlag, loose>>

(* addObjectInfo() *)
TakeHandle ==
  /\ watcher.pc = "take" /\ NewHandle
  /\ watcher' = [watcher EXCEPT !.pc = "insert", !.handle = mHandleId]
  /\ UNCHANGED <<mObjectDb, files, events, server, media, mMediaFlag, loose>>

InsertFound ==
  /\ watcher.pc = "insert"
  /\ Insert(watcher.handle, watcher.path)
  /\ watcher' = Idle
  /\ UNCHANGED <<mHandleId, clash, files, events, server, media, mMediaFlag, loose>>

(* deleteFile() *)
EraseGone ==
  /\ watcher.pc = "erase"
  /\ Erase(watcher.handle)
  /\ watcher' = Idle
  /\ UNCHANGED <<mHandleId, clash, files, events, server, media, mMediaFlag, loose>>

Watcher == ReadEvent \/ TakeHandle \/ InsertFound \/ EraseGone

-----------------------------------------------------------------------------
(* The media thread: addExternalStorage() *)

(* The root is watched before it is listed.                                *)
Mount ==
  /\ media.pc = "mount" /\ mHandleId < MaxHandle
  /\ mHandleId' = mHandleId + 1
  /\ media' = [media EXCEPT !.pc = "readdir"]
  /\ UNCHANGED <<mObjectDb, clash, files, events, server, watcher, mMediaFlag, loose>>

ReadDirectory ==
  /\ media.pc = "readdir"
  /\ media' = [media EXCEPT !.pc = "list", !.todo = files]
  /\ UNCHANGED <<dbVars, files, events, server, watcher, mMediaFlag, loose>>

ListNext(p) ==
  /\ media.pc = "list" /\ p \in media.todo /\ NewHandle
  /\ media' = [media EXCEPT !.pc = "insert", !.path = p, !.handle = mHandleId,
                            !.todo = @ \ {p}]
  /\ UNCHANGED <<mObjectDb, files, events, server, watcher, mMediaFlag, loose>>

InsertListed ==
  /\ media.pc = "insert"
  /\ Insert(media.handle, media.path)
  /\ media' = [media EXCEPT !.pc = "list"]
  /\ UNCHANGED <<mHandleId, clash, files, events, server, watcher, mMediaFlag, loose>>

(* The server gets the storage.                                            *)
AddStorage ==
  /\ media.pc = "list" /\ media.todo = {}
  /\ media' = [media EXCEPT !.pc = "flag", !.path = Nobody, !.handle = 0]
  /\ UNCHANGED <<dbVars, files, events, server, watcher, mMediaFlag, loose>>

(* setMediaFlag(true) lets the events count.                               *)
SetMediaFlag ==
  /\ media.pc = "flag"
  /\ media' = [media EXCEPT !.pc = "idle"]
  /\ mMediaFlag' = mMediaFlag + 1
  /\ UNCHANGED <<dbVars, files, events, server, watcher, loose>>

Media ==
  \/ Mount \/ ReadDirectory \/ InsertListed \/ AddStorage \/ SetMediaFlag
  \/ \E p \in Paths : ListNext(p)

-----------------------------------------------------------------------------
(* Other programs *)

Loosened(p) == IF media.pc \in {"readdir", "list", "insert"} THEN loose \union {p} ELSE loose

OthersCreate(p) ==
  /\ p \notin files /\ CreateFile(p)
  /\ loose' = Loosened(p)
  /\ UNCHANGED <<dbVars, server, watcher, media, mMediaFlag>>

OthersRemove(p) ==
  /\ p \in files /\ RemoveFile(p)
  /\ loose' = Loosened(p)
  /\ UNCHANGED <<dbVars, server, watcher, media, mMediaFlag>>

-----------------------------------------------------------------------------
Next ==
  \/ Server \/ Watcher \/ Media
  \/ \E p \in LocalPaths : OthersCreate(p)
  \/ \E p \in Paths : OthersRemove(p)

Spec == Init /\ [][Next]_vars

-----------------------------------------------------------------------------
(* Properties *)

(* The paths, handles and events are what they should be, a thread with    *)
(* nothing to do holds none, and mMediaFlag counts the storages.           *)
TypeOK ==
  /\ mObjectDb \in [Handles -> Paths \union {Nobody}]
  /\ mHandleId \in 1 .. MaxHandle
  /\ files \subseteq Paths
  /\ \A i \in 1 .. Len(events) :
       events[i] \in [type : {"create", "delete"}, path : Paths]
  /\ \A t \in {server, watcher} :
       /\ t.pc = "idle" <=> t = Idle
       /\ t.path \in Paths \union {Nobody} /\ t.handle \in 0 .. MaxHandle
  /\ media.todo \subseteq Paths
  /\ mMediaFlag \in MediaFlag .. MediaFlag + 1
  /\ loose \subseteq Paths

(* Nothing is under way: what the map says now it will go on saying.       *)
AtRest ==
  /\ server.pc \in {"idle", "await"} /\ watcher = Idle /\ media.pc = "idle"
  /\ events = <<>>

(* Every file of the storage is found by the host in the end, whoever made *)
(* it and whenever, unless its handle had been given to another.           *)
EveryFileIsListed == AtRest /\ ~clash => \A p \in files : Known(p) # {}

(* An object without a file is one whose data the host did not send, or    *)
(* whose file came or went while the storage was listed.                   *)
EveryObjectHasItsFile ==
  AtRest /\ server = Idle => \A p \in Paths \ loose : Known(p) # {} => p \in files

=============================================================================
