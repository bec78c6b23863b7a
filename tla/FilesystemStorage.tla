------------------------- MODULE FilesystemStorage --------------------------
(***************************************************************************)
(* Object storage on a directory (filesystem-storage.ts): the body and the *)
(* metadata of an object are two files, each written beside its place and  *)
(* renamed into it. The methods are asynchronous: calls of several callers *)
(* interleave between their file operations, any of which may fail, and a  *)
(* crash ends them all where they are. Versions number the puts. The keys  *)
(* are valid, and none is a leading segment of another: then no file and   *)
(* no directory are in each other's way.                                   *)
(***************************************************************************)
EXTENDS Subsequences, FiniteSets, SequencesExt

CONSTANTS
  Keys,             \* sequence: the keys in their order
  Callers,
  MaxVersions       \* bound: how many puts begin

KeySet == {Keys[i] : i \in DOMAIN Keys}

ASSUME StorageAssumption == Keys \in Seq(KeySet) /\ MaxVersions \in Nat

VARIABLES
  body, metadata,   \* key -> version of the put that wrote the file, 0 if there is none
  calls,            \* caller -> its call under way
  versions,         \* puts begun
  result,           \* what a get or list returned in the last step
  history           \* what the keys have been through: see History

storageVars == <<body, metadata, calls, versions, result, history>>

NoCall == [op |-> "none", at |-> 0, key |-> "", version |-> 0, alone |-> TRUE,
           todo |-> <<>>, found |-> <<>>]

(* History, for the properties only: the last write of the key that ran to its end by itself
   (a version, 0 for a delete); whether one was cut off or met another since; whether two ever
   met. *)
History == [last |-> 0, disturbed |-> FALSE, raced |-> FALSE]

StorageInit ==
  /\ body = [k \in KeySet |-> 0] /\ metadata = [k \in KeySet |-> 0]
  /\ calls = [c \in Callers |-> NoCall]
  /\ versions = 0
  /\ result = NoCall
  /\ history = [k \in KeySet |-> History]

Free(c) == calls[c].op = "none"
Writing(c) == calls[c].op \in {"put", "delete"}
Writers(key) == {c \in Callers : Writing(c) /\ calls[c].key = key}
FilesUnchanged == UNCHANGED <<body, metadata>>
NoResult == result' = NoCall

-----------------------------------------------------------------------------
(* A write begins: it is not alone with the calls of the same object under way. *)
BeginWrite(c, op, key, version) ==
  LET met == {d \in Callers \ {c} : calls[d].op # "none" /\ calls[d].key = key}
      call == [NoCall EXCEPT !.op = op, !.at = 1, !.key = key, !.version = version,
                             !.alone = Writers(key) = {}]
  IN /\ Free(c)
     /\ calls' = [d \in Callers |->
          IF d = c THEN call ELSE [calls[d] EXCEPT !.alone = @ /\ d \notin met]]
     /\ history' = [history EXCEPT ![key].raced = @ \/ Writers(key) # {}]
     /\ FilesUnchanged /\ NoResult

BeginPut(c, key) ==
  /\ versions < MaxVersions
  /\ versions' = versions + 1
  /\ BeginWrite(c, "put", key, versions + 1)

BeginDelete(c, key) == BeginWrite(c, "delete", key, 0) /\ UNCHANGED versions

At(c, op, step) == calls[c].op = op /\ calls[c].at = step
NextStep(c) ==
  calls' = [calls EXCEPT ![c].at = 2] /\ UNCHANGED <<versions, history>> /\ NoResult

(* The write ends; `whole` says that both of its files were dealt with. *)
EndWrite(c, whole) ==
  LET call == calls[c]
  IN /\ calls' = [calls EXCEPT ![c] = NoCall]
     /\ history' = [history EXCEPT ![call.key] =
          IF whole /\ call.alone THEN [@ EXCEPT !.last = call.version, !.disturbed = FALSE]
          ELSE [@ EXCEPT !.disturbed = TRUE]]
     /\ UNCHANGED versions /\ NoResult

(* A bug: the metadata goes first. *)
WriteBody_MetadataFirst(c) ==
  /\ At(c, "put", 1)
  /\ metadata' = [metadata EXCEPT ![calls[c].key] = calls[c].version]
  /\ NextStep(c) /\ UNCHANGED body

(* putObject: atomicWrite of the body, then of the metadata. *)
WriteBody(c) ==
  /\ At(c, "put", 1)
  /\ body' = [body EXCEPT ![calls[c].key] = calls[c].version]
  /\ NextStep(c) /\ UNCHANGED metadata

(* A bug: metadata that is there already is left. *)
WriteMetadata_KeepsOld(c) ==
  /\ At(c, "put", 2)
  /\ metadata' = [metadata EXCEPT ![calls[c].key] = IF @ = 0 THEN calls[c].version ELSE @]
  /\ EndWrite(c, TRUE) /\ UNCHANGED body

WriteMetadata(c) ==
  /\ At(c, "put", 2)
  /\ metadata' = [metadata EXCEPT ![calls[c].key] = calls[c].version]
  /\ EndWrite(c, TRUE) /\ UNCHANGED body

(* deleteObject: the metadata first, so that the object is no longer found. *)
RemoveMetadata(c) ==
  /\ At(c, "delete", 1)
  /\ metadata' = [metadata EXCEPT ![calls[c].key] = 0]
  /\ NextStep(c) /\ UNCHANGED body

RemoveBody(c) ==
  /\ At(c, "delete", 2)
  /\ body' = [body EXCEPT ![calls[c].key] = 0]
  /\ EndWrite(c, TRUE) /\ UNCHANGED metadata

(* Any file operation of a write may fail: the call throws, and what was renamed stays. *)
WriteFails(c) == Writing(c) /\ EndWrite(c, FALSE) /\ FilesUnchanged

-----------------------------------------------------------------------------
Returns(c, call) ==
  /\ result' = call
  /\ calls' = [calls EXCEPT ![c] = NoCall]

(* getObject: the metadata, and if there is any, the body. *)
ReadMetadata(c, key) ==
  LET call == [NoCall EXCEPT !.op = "get", !.key = key, !.version = metadata[key],
                             !.alone = Writers(key) = {}]
  IN /\ Free(c)
     /\ IF metadata[key] = 0
        THEN Returns(c, call)
        ELSE /\ calls' = [calls EXCEPT ![c] = call]
             /\ NoResult
     /\ FilesUnchanged /\ UNCHANGED <<versions, history>>

(* `at` of what a get returned is the version of the body; 0 is null, metadata or not. *)
ReadBody(c) ==
  /\ calls[c].op = "get"
  /\ Returns(c, [calls[c] EXCEPT !.at = body[calls[c].key]])
  /\ FilesUnchanged /\ UNCHANGED <<versions, history>>

(* listObjects: the keys that have metadata, in order, at most `limit` of them; then the
   metadata of each, leaving out what has gone. *)
ReadDirectory(c, limit) ==
  LET listed == Subsequence(Keys, {i \in DOMAIN Keys : metadata[Keys[i]] # 0})
      keys == SubSeq(listed, 1, IF limit < Len(listed) THEN limit ELSE Len(listed))
  IN /\ Free(c)
     /\ calls' = [calls EXCEPT ![c] = [NoCall EXCEPT !.op = "list", !.todo = keys]]
     /\ NoResult
     /\ FilesUnchanged /\ UNCHANGED <<versions, history>>

HeadNext(c) ==
  LET call == calls[c]
      key == Head(call.todo)
      entry == IF metadata[key] = 0 THEN <<>> ELSE <<key>>
  IN /\ call.op = "list"
     /\ IF call.todo = <<>> THEN Returns(c, call)
        ELSE /\ calls' = [calls EXCEPT ![c].todo = Tail(@), ![c].found = @ \o entry]
             /\ NoResult
     /\ FilesUnchanged /\ UNCHANGED <<versions, history>>

(* A read fails with an error other than a missing file: the call throws. *)
ReadFails(c) ==
  /\ calls[c].op \in {"get", "list"}
  /\ calls' = [calls EXCEPT ![c] = NoCall]
  /\ FilesUnchanged /\ UNCHANGED <<versions, history>> /\ NoResult

-----------------------------------------------------------------------------
(* The process ends with the calls under way; temporary files that remain are never read. *)
StorageCrash ==
  /\ calls' = [c \in Callers |-> NoCall]
  /\ NoResult
  /\ history' = [k \in KeySet |->
       [history[k] EXCEPT !.disturbed = @ \/ Writers(k) # {}]]
  /\ FilesUnchanged /\ UNCHANGED versions

WriteStep(c) ==
  \/ WriteBody(c) \/ WriteMetadata(c) \/ RemoveMetadata(c) \/ RemoveBody(c) \/ WriteFails(c)

ReadStep(c) == ReadBody(c) \/ HeadNext(c) \/ ReadFails(c)
=============================================================================
