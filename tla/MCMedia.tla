------------------------------ MODULE MCMedia ------------------------------
(* What the camera client, MTP, the display and audio keep of a device's   *)
(* media; each behaviour is of one part.                                   *)
(*   - The metadata of a capture (CameraMetadata): two objects, two tags,  *)
(*     three entries in all and values that fit the entry and that do not. *)
(*   - The vendor's tags (VendorTags): two descriptors and four ids, one   *)
(*     below the boundary, one at it and two above.                        *)
(*   - The parameters (CameraParameters): two keys, and sizes that are     *)
(*     zero and not.                                                       *)
(*   - The MTP daemon's database (MtpDatabase): one file of the host's and *)
(*     one of the other programs'; five handles, of which the storage takes *)
(*     one: enough to list both files and to send, lose and add each once  *)
(*     more.  MediaFlag is 1 when another storage is there already and 0  *)
(*     when this one is the first.                                         *)
(*   - Its folders (MtpFolders): paths of two names, two levels deep, three *)
(*     files or folders ever made and four handles: a folder, what is in   *)
(*     it and another to be renamed or removed.                            *)
(*   - A host of MTP (MtpDevice): four requests, two that go wrong and two *)
(*     that come after, and objects of up to three buffers, one more than  *)
(*     the two requests that take turns for them.                          *)
(*   - MTP's datasets (MtpPackets): texts of up to two characters, at both *)
(*     ends of what has one, two and three bytes of UTF-8, where a count   *)
(*     can be at most four.                                                *)
(*   - Regions of the display (Region), here of up to two rectangles, with *)
(*     each operation and an offset, on a grid of three by two pixels.     *)
(*   - The conversions of samples (AudioSamples), here two at a time, of   *)
(*     bytes of three bits, and of frames of up to three channels.         *)
EXTENDS CameraMetadata

CONSTANTS
  Descriptors, TagIds, Boundary, Names, Sections, Types, NUM_TYPES,
  Letters, Lengths, MaxKey, MaxKeys, MaxSizes,
  HostPaths, LocalPaths, Nobody, MediaFlag, MaxHandle, MaxEvents,
  FileNames, Depth, MaxInode, FolderHandles, FolderEvents,
  MaxRequests, MaxLength,
  MTP_STRING_MAX_CHARACTER_NUMBER, MaxChars, Characters,
  GridWidth, GridHeight, Shifts, MaxRects,
  ByteBits, SampleCount, MaxChannels, MANTISSA_BITS, EXPONENT_BITS, Mono24
VARIABLES
  desc, hal,
  mMap, wanted,
  mObjectDb, mHandleId, files, events, server, watcher, media, mMediaFlag,
  loose, clash,
  tree, inode, objects, nextHandle, watches, notices, untold,
  session, transactionId, receivedResponse, response, pipe, broken, result,
  mData, header, outOfStep, op, remaining, queued, toWrite, req, unwritten,
  job, packet, read,
  mStorage, rhs, points, rhsPoints,
  sampleJob, before, memory,
  used  \* whose behaviour it is

tagVars == <<desc, hal>>
parameterVars == <<mMap, wanted>>
databaseVars == <<mObjectDb, mHandleId, files, events, server, watcher, media,
                  mMediaFlag, loose, clash>>
folderVars == <<tree, inode, objects, nextHandle, watches, notices, untold>>
deviceVars == <<session, transactionId, receivedResponse, response, pipe, broken,
                result, mData, header, outOfStep, op, remaining, queued, toWrite, req, unwritten>>
packetVars == <<job, packet, read>>
regionVars == <<mStorage, rhs, points, rhsPoints>>
sampleVars == <<sampleJob, before, memory>>

Vendor == INSTANCE VendorTags
Parameters == INSTANCE CameraParameters
Database == INSTANCE MtpDatabase
Folders == INSTANCE MtpFolders WITH
  mObjectDb <- objects, mHandleId <- nextHandle, events <- notices,
  MaxHandle <- FolderHandles, MaxEvents <- FolderEvents
Device == INSTANCE MtpDevice
Packets == INSTANCE MtpPackets WITH result <- read
Shape == INSTANCE Region WITH Width <- GridWidth, Height <- GridHeight
Samples == INSTANCE AudioSamples WITH Count <- SampleCount, job <- sampleJob
ASSUME CameraAssumption ==
  Vendor!VendorTagsAssumption /\ Parameters!CameraParametersAssumption
ASSUME MtpAssumption ==
  /\ Database!MtpDatabaseAssumption /\ Folders!MtpFoldersAssumption
  /\ Device!MtpDeviceAssumption /\ Packets!MtpPacketsAssumption
ASSUME SignalAssumption == Shape!RegionAssumption /\ Samples!AudioSamplesAssumption

Symmetric == Permutations(Objects)

(* What is not used begins in one way only.                                *)
MediaInit ==
  /\ used \in {"metadata", "tags", "parameters", "database", "folders", "device",
              "packets", "region", "samples"}
  /\ Init /\ Vendor!Init /\ Parameters!Init /\ Database!Init /\ Folders!Init
  /\ Device!Init /\ Packets!Init /\ Shape!Init /\ Samples!Init
  /\ used # "tags" => hal = << >>
  /\ used # "database" => files = {}

OfMetadata(A) == used = "metadata" /\ A /\ UNCHANGED
  <<tagVars, parameterVars, databaseVars, folderVars, deviceVars,
    packetVars, regionVars, sampleVars, used>>
OfTags(A) == used = "tags" /\ A /\ UNCHANGED
  <<vars, parameterVars, databaseVars, folderVars, deviceVars, packetVars,
    regionVars, sampleVars, used>>
OfParameters(A) == used = "parameters" /\ A /\ UNCHANGED
  <<vars, tagVars, databaseVars, folderVars, deviceVars, packetVars,
    regionVars, sampleVars, used>>
OfDatabase(A) == used = "database" /\ A /\ UNCHANGED
  <<vars, tagVars, parameterVars, folderVars, deviceVars, packetVars,
    regionVars, sampleVars, used>>
OfFolders(A) == used = "folders" /\ A /\ UNCHANGED
  <<vars, tagVars, parameterVars, databaseVars, deviceVars, packetVars,
    regionVars, sampleVars, used>>
OfDevice(A) == used = "device" /\ A /\ UNCHANGED
  <<vars, tagVars, parameterVars, databaseVars, folderVars, packetVars,
    regionVars, sampleVars, used>>
OfPackets(A) == used = "packets" /\ A /\ UNCHANGED
  <<vars, tagVars, parameterVars, databaseVars, folderVars, deviceVars,
    regionVars, sampleVars, used>>
OfRegion(A) == used = "region" /\ A /\ UNCHANGED
  <<vars, tagVars, parameterVars, databaseVars, folderVars, deviceVars,
    packetVars, sampleVars, used>>
OfSamples(A) == used = "samples" /\ A /\ UNCHANGED
  <<vars, tagVars, parameterVars, databaseVars, folderVars, deviceVars,
    packetVars, regionVars, used>>

MediaNext ==
  \/ OfMetadata(Next) \/ OfTags(Vendor!Next) \/ OfParameters(Parameters!Next)
  \/ OfDatabase(Database!Next) \/ OfFolders(Folders!Next)
  \/ OfDevice(Device!Next) \/ OfPackets(Packets!Next)
  \/ OfRegion(Shape!Next) \/ OfSamples(Samples!Next)

MediaSpec ==
  /\ MediaInit
  /\ [][MediaNext]_<<vars, tagVars, parameterVars, databaseVars, folderVars,
                     deviceVars, packetVars, regionVars, sampleVars, used>>

(* What was sent is read back as it was: of the vendor's tags the names,   *)
(* sections and types, of the parameters the lists of sizes, and of MTP's  *)
(* datasets every field, unless the packet was cut and is refused.         *)
CopiesAreFaithful ==
  /\ used = "tags" => Vendor!TagsAreKept
  /\ used = "parameters" => Parameters!SizesAreKept
  /\ used = "packets" => Packets!DatasetsArrive /\ Packets!CutDatasetsAreRefused

(* Every file of the storage is found by the host in the end, whoever made *)
(* it and whenever, unless its handle had been given to another; and an    *)
(* object without a file is one whose data the host did not send, or whose *)
(* file came or went while the storage was listed.                         *)
ObjectsFollowFiles ==
  used = "database" =>
    Database!TypeOK /\ Database!EveryFileIsListed /\ Database!EveryObjectHasItsFile

(* So is every folder found, and what is in it, once only, where a change  *)
(* is told of; and the parent of an object is the folder its file is in.   *)
FoldersFollowFiles ==
  used = "folders" => Folders!EachPathHasItsObject /\ Folders!ParentsAreFolders

(* An operation of the host returns the data and takes the response of its *)
(* own request, and no buffer is filled while it is written.               *)
OperationsAreInStep == used = "device" => Device!OperationsAreInStep

(* A region has the pixels that the operations on it give, in rectangles   *)
(* that are canonical, and without junctions where it is so made.          *)
RegionsAreTheirPixels ==
  used = "region" =>
    /\ Shape!RegionsAreTheirPixels /\ Shape!JunctionsAreResolved
    /\ Shape!RectsKeepTheirPixels

(* Samples keep their values, channels and gains, whatever is converted to *)
(* what and, where the buffers may begin at the same address, in place.    *)
SamplesKeepTheirValues ==
  used = "samples" =>
    /\ Samples!FormatsKeepValues /\ Samples!ChannelsAreAdjusted
    /\ Samples!ChannelsAreMatched /\ Samples!GainsAreRoundedDown

=============================================================================
