-------------------------- MODULE ArtifactArchive ---------------------------
(***************************************************************************)
(* archiveArtifacts (archive.ts) over the file storage: each artifact of a *)
(* run is read from the sandbox and put under a key of its own; a failure  *)
(* of one is its result and never that of another. Other callers put, get, *)
(* list and delete meanwhile; the sandbox may be destroyed under it, and a *)
(* crash ends the archiving, which may then be run again from the start.   *)
(***************************************************************************)
EXTENDS FilesystemStorage

CONSTANTS
  Artifacts,        \* sequence: the artifacts handed over
  KeyOf,            \* artifact -> archiveKey: a key of its own
  InSandbox,        \* artifacts whose location is the sandbox
  Archiver,         \* the caller of archiveArtifacts
  MaxCrashes,       \* bound
  Limits            \* limits of listObjects enumerated

ASSUME ArchiveAssumption ==
  /\ Artifacts \in Seq({Artifacts[i] : i \in DOMAIN Artifacts})
  /\ \A a \in InSandbox : KeyOf[a] \in KeySet
  /\ Archiver \in Callers
  /\ MaxCrashes \in Nat
  /\ Limits \subseteq Nat

VARIABLES
  next,             \* index in Artifacts, 0 when no archiving is under way
  step,             \* of the artifact at next: "read", "put", "emit"
  stored,           \* version of its put
  results,          \* sequence of [artifact, status]
  announced,        \* artifact -> version of the put that ARTIFACT_STORED told of
  crashes

archiveVars == <<next, step, stored, results, announced, crashes>>
vars == <<storageVars, archiveVars>>

Init ==
  /\ StorageInit
  /\ next = 0 /\ step = "read" /\ stored = 0 /\ results = <<>> /\ crashes = 0
  /\ announced = [a \in {Artifacts[i] : i \in DOMAIN Artifacts} |-> 0]

NoStorageStep == NoResult /\ UNCHANGED <<body, metadata, calls, versions, history>>

Source == Artifacts[next]
Underway == next \in DOMAIN Artifacts

(* A bug: the loop runs past the last artifact. *)
Result_PastEnd(status) ==
  /\ results' = Append(results, [artifact |-> Source, status |-> status])
  /\ next' = next + 1
  /\ step' = "read"

(* A bug: the first failure ends the loop. *)
Result_StopsAtFailure(status) ==
  /\ results' = Append(results, [artifact |-> Source, status |-> status])
  /\ next' = IF next = Len(Artifacts) \/ status = "failed" THEN 0 ELSE next + 1
  /\ step' = "read"

(* The result of one artifact, and on to the next. *)
Result(status) ==
  /\ results' = Append(results, [artifact |-> Source, status |-> status])
  /\ next' = IF next = Len(Artifacts) THEN 0 ELSE next + 1
  /\ step' = "read"

StartArchive ==
  /\ next = 0 /\ Artifacts # <<>>
  /\ next' = 1 /\ step' = "read" /\ results' = <<>>
  /\ NoStorageStep /\ UNCHANGED <<stored, announced, crashes>>

SkipArtifact ==
  /\ Underway /\ step = "read" /\ Source \notin InSandbox
  /\ Result("skipped")
  /\ NoStorageStep /\ UNCHANGED <<stored, announced, crashes>>

(* environment.readFile answers, and putObject is called; or it throws. *)
ReadArtifact ==
  /\ Underway /\ step = "read" /\ Source \in InSandbox
  /\ \/ BeginPut(Archiver, KeyOf[Source]) /\ step' = "put" /\ UNCHANGED <<next, results>>
     \/ Result("failed") /\ NoStorageStep
  /\ UNCHANGED <<stored, announced, crashes>>

(* A bug: a failed put is announced like a stored one. *)
PutArtifact_IgnoresFailure ==
  /\ Underway /\ step = "put"
  /\ \/ WriteBody(Archiver) /\ UNCHANGED <<next, step, results>>
     \/ WriteMetadata(Archiver) /\ step' = "emit" /\ UNCHANGED <<next, results>>
     \/ WriteFails(Archiver) /\ step' = "emit" /\ UNCHANGED <<next, results>>
  /\ stored' = calls[Archiver].version
  /\ UNCHANGED <<announced, crashes>>

PutArtifact ==
  /\ Underway /\ step = "put"
  /\ \/ WriteBody(Archiver) /\ UNCHANGED <<next, step, results>>
     \/ WriteMetadata(Archiver) /\ step' = "emit" /\ UNCHANGED <<next, results>>
     \/ WriteFails(Archiver) /\ Result("failed")
  /\ stored' = calls[Archiver].version
  /\ UNCHANGED <<announced, crashes>>

(* The event is emitted within the same try: if the sink throws, what is stored is reported
   as failed. *)
Announce ==
  /\ Underway /\ step = "emit"
  /\ \/ Result("stored") /\ announced' = [announced EXCEPT ![Source] = stored]
     \/ Result("failed") /\ UNCHANGED announced
  /\ NoStorageStep /\ UNCHANGED <<stored, crashes>>

Crash ==
  /\ crashes < MaxCrashes
  /\ crashes' = crashes + 1
  /\ StorageCrash
  /\ next' = 0 /\ step' = "read" /\ stored' = 0 /\ results' = <<>>
  /\ UNCHANGED announced

ArchiveKeys == {KeyOf[a] : a \in InSandbox}

(* The other callers of the storage read any object and write those that are not of the
   archive, whose keys hold the identity of the artifact. *)
Operator(c) ==
  /\ \/ \E k \in KeySet \ ArchiveKeys : BeginPut(c, k) \/ BeginDelete(c, k)
     \/ \E k \in KeySet : ReadMetadata(c, k)
     \/ \E limit \in Limits : ReadDirectory(c, limit)
     \/ WriteStep(c)
     \/ ReadStep(c)
  /\ UNCHANGED archiveVars

Next ==
  \/ StartArchive \/ SkipArtifact \/ ReadArtifact \/ PutArtifact \/ Announce
  \/ Crash
  \/ \E c \in Callers \ {Archiver} : Operator(c)

Spec == Init /\ [][Next]_vars
=============================================================================
