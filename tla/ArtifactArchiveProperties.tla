--------------------- MODULE ArtifactArchiveProperties ----------------------
(* What the file storage promises its callers, and the archive those who read it later. *)
EXTENDS ArtifactArchive

-----------------------------------------------------------------------------
Version == 0..MaxVersions

Call == [op : {"none", "put", "delete", "get", "list"}, at : Version \cup 0..2,
         key : KeySet \cup {""}, version : Version,
         alone : BOOLEAN, todo : Seq(KeySet), found : Seq(KeySet)]

(* The types of the state. *)
StorageTypeOK ==
  /\ body \in [KeySet -> Version] /\ metadata \in [KeySet -> Version]
  /\ calls \in [Callers -> Call] /\ result \in Call
  /\ versions \in Version
  /\ history \in [KeySet -> [last : Version, disturbed : BOOLEAN, raced : BOOLEAN]]
  /\ next \in 0..Len(Artifacts) /\ step \in {"read", "put", "emit"} /\ stored \in Version
  /\ crashes \in 0..MaxCrashes

(* When the last write of an object ran to its end with no other about, and none has been cut
   off since, its two files are the two that write left: neither the order of the renames, nor
   a read in between, nor a crash of anything else can part them (putObject, deleteObject). *)
FilesInStep ==
  \A k \in KeySet :
    ~history[k].disturbed /\ Writers(k) = {}
      => body[k] = history[k].last /\ metadata[k] = history[k].last

(* As long as two writes of an object never overlap, what is found of it is never the metadata
   of a put whose body is not there: not after a crash or a failure at any point of a put or a
   delete, nor in a get that overlaps one ("a crash mid-write never leaves a half object
   visible"). Its body may be of a later put than its metadata. *)
MetadataNeverAhead ==
  /\ \A k \in KeySet : ~history[k].raced /\ metadata[k] # 0 => metadata[k] <= body[k]
  /\ result.op = "get" /\ result.at # 0 /\ ~history[result.key].raced
       => result.version <= result.at

(* An artifact that ARTIFACT_STORED was emitted for stays in storage, through every failure,
   crash and repetition of the archiving: its object is found, with the body it was announced
   with or a later one. *)
AnnouncedIsKept ==
  \A a \in DOMAIN announced :
    announced[a] # 0
      => /\ metadata[KeyOf[a]] >= announced[a]
         /\ body[KeyOf[a]] >= announced[a]

(* The archiving that returned has a result for each artifact it was handed, in that order,
   whatever became of the others; those in persistent storage already, and only those, are
   skipped; what it calls stored is announced (archiveArtifacts: every artifact is attempted
   independently). *)
EveryArtifactAnswered ==
  next = 0 /\ results # <<>> =>
    /\ Len(results) = Len(Artifacts)
    /\ \A i \in DOMAIN Artifacts :
         /\ results[i].artifact = Artifacts[i]
         /\ (results[i].status = "skipped") = (Artifacts[i] \notin InSandbox)
         /\ results[i].status = "stored" => announced[Artifacts[i]] # 0

(* The archive's word holds: what it announced is kept, and it answers for every artifact, whatever
   fails and however often it is run (archiveArtifacts). *)
ArchiveInv == StorageTypeOK /\ AnnouncedIsKept /\ EveryArtifactAnswered
=============================================================================
