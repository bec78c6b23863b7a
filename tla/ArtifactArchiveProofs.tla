----------------------- MODULE ArtifactArchiveProofs ------------------------
(***************************************************************************)
(* Why the two files of an object stay together, and why what the archive  *)
(* announced is kept: for all keys, callers, artifacts and bounds.         *)
(***************************************************************************)
EXTENDS ArtifactArchiveProperties, SubsequenceTheorems, FiniteSetTheorems

\* Puts are numbered in the order they begin; writes and gets are of an object.
CallsKnown ==
  /\ \A c \in Callers :
       /\ calls[c].version <= versions
       /\ calls[c].op \in {"put", "delete", "get"} => calls[c].key \in KeySet
       /\ Writing(c) => calls[c].at \in {1, 2}
       /\ calls[c].op = "delete" => calls[c].version = 0
  /\ \A k \in KeySet : body[k] <= versions /\ metadata[k] <= versions

\* Of a write that met no other, what it has done so far is what is found.
AloneWrite(c) ==
  Writing(c) /\ calls[c].alone =>
    /\ Writers(calls[c].key) = {c}
    /\ At(c, "put", 2) => body[calls[c].key] = calls[c].version
    /\ At(c, "delete", 2) => metadata[calls[c].key] = 0

AloneWrites == \A c \in Callers : AloneWrite(c)

\* While no two writes of an object overlap, its body is ahead of its metadata, of every get
\* under way, and behind the put under way.
InOrderOf(k) ==
  /\ metadata[k] <= body[k]
  /\ \A c, d \in Writers(k) : c = d
  /\ \A c \in Writers(k) :
       /\ At(c, "put", 1) => body[k] <= calls[c].version
       /\ At(c, "put", 2) => body[k] = calls[c].version
       /\ At(c, "delete", 2) => metadata[k] = 0
  /\ \A g \in Callers : calls[g].op = "get" /\ calls[g].key = k =>
       /\ body[k] = 0 \/ calls[g].version <= body[k]
       /\ \A c \in Writers(k) : At(c, "put", 1) => calls[g].version <= calls[c].version

InOrder == \A k \in KeySet : ~ history[k].raced => InOrderOf(k)

\* The archiver writes the keys of the archive, and it alone; its call is the put of the
\* artifact it is at.
ArchiverWrites ==
  /\ \A c \in Callers \ {Archiver} : Writing(c) => calls[c].key \notin ArchiveKeys
  /\ IF step = "put"
     THEN /\ Underway /\ Source \in InSandbox
          /\ calls[Archiver].op = "put" /\ calls[Archiver].key = KeyOf[Source]
     ELSE calls[Archiver].op = "none"
  /\ step = "emit" => /\ Underway /\ Source \in InSandbox /\ stored # 0
                      /\ body[KeyOf[Source]] = stored /\ metadata[KeyOf[Source]] = stored

ArtifactSet == {Artifacts[i] : i \in DOMAIN Artifacts}

\* What the archive announced is behind the put under way.
AnnouncedBehind ==
  /\ announced \in [ArtifactSet -> 0..versions]
  /\ \A a \in ArtifactSet :
       /\ announced[a] # 0 => a \in InSandbox
       /\ announced[a] # 0 /\ step = "put" => announced[a] <= calls[Archiver].version
  /\ step = "put" => /\ calls[Archiver].version # 0
                     /\ At(Archiver, "put", 2) => body[KeyOf[Source]] = calls[Archiver].version
  /\ AnnouncedIsKept

\* The results so far are those of the artifacts so far.
ResultsSoFar ==
  /\ results \in Seq([artifact : ArtifactSet, status : {"stored", "failed", "skipped"}])
  /\ Len(results) = IF next = 0 /\ results # <<>> THEN Len(Artifacts)
                    ELSE IF next = 0 THEN 0 ELSE next - 1
  /\ \A i \in DOMAIN results :
       /\ results[i].artifact = Artifacts[i]
       /\ (results[i].status = "skipped") = (Artifacts[i] \notin InSandbox)
       /\ results[i].status = "stored" => announced[Artifacts[i]] # 0

StorageInv == CallsKnown /\ AloneWrites /\ FilesInStep /\ InOrder /\ MetadataNeverAhead
ArchiverInv == ArchiverWrites /\ AnnouncedBehind /\ ResultsSoFar

-----------------------------------------------------------------------------
(* What a step does to the storage. *)

StorageTypes ==
  /\ body \in [KeySet -> Version] /\ metadata \in [KeySet -> Version]
  /\ calls \in [Callers -> Call] /\ result \in Call
  /\ versions \in Version
  /\ history \in [KeySet -> [last : Version, disturbed : BOOLEAN, raced : BOOLEAN]]

\* A write begins.
Begins(c, key) ==
  /\ Free(c) /\ FilesUnchanged /\ versions' \in versions .. MaxVersions
  /\ calls'[c].op \in {"put", "delete"} /\ calls'[c].at = 1 /\ calls'[c].key = key
  /\ calls'[c].version = IF calls'[c].op = "put" THEN versions' ELSE 0
  /\ calls'[c].op = "put" => versions' = versions + 1
  /\ calls'[c].alone = (Writers(key) = {})
  /\ \A d \in Callers \ {c} :
       /\ calls'[d].op = calls[d].op /\ calls'[d].at = calls[d].at
       /\ calls'[d].key = calls[d].key /\ calls'[d].version = calls[d].version
       /\ calls'[d].alone => calls[d].alone
       /\ Writing(d) /\ calls[d].key = key => ~ calls'[d].alone
  /\ \A k \in KeySet : /\ history'[k].last = history[k].last
                       /\ history'[k].disturbed = history[k].disturbed
                       /\ history'[k].raced = (history[k].raced \/ (k = key /\ Writers(k) # {}))
  /\ NoResult

\* A write has dealt with the first of its files.
Moves(c) ==
  /\ Writing(c) /\ calls[c].at = 1 /\ calls'[c].at = 2
  /\ calls'[c].op = calls[c].op /\ calls'[c].key = calls[c].key
  /\ calls'[c].version = calls[c].version /\ calls'[c].alone = calls[c].alone
  /\ \A d \in Callers \ {c} : calls'[d] = calls[d]
  /\ \/ /\ calls[c].op = "put" /\ metadata' = metadata
        /\ body' = [body EXCEPT ![calls[c].key] = calls[c].version]
     \/ /\ calls[c].op = "delete" /\ body' = body
        /\ metadata' = [metadata EXCEPT ![calls[c].key] = 0]
  /\ UNCHANGED << versions, history >> /\ NoResult

\* A write is over.
Ends(c) ==
  /\ Writing(c) /\ calls'[c] = NoCall
  /\ \A d \in Callers \ {c} : calls'[d] = calls[d]
  /\ \/ /\ At(c, "put", 2) /\ body' = body
        /\ metadata' = [metadata EXCEPT ![calls[c].key] = calls[c].version]
        /\ calls[c].alone => /\ history'[calls[c].key].last = calls[c].version
                             /\ ~ history'[calls[c].key].disturbed
        /\ ~ calls[c].alone => history'[calls[c].key].disturbed
     \/ /\ At(c, "delete", 2) /\ metadata' = metadata
        /\ body' = [body EXCEPT ![calls[c].key] = 0]
        /\ calls[c].alone => /\ history'[calls[c].key].last = calls[c].version
                             /\ ~ history'[calls[c].key].disturbed
        /\ ~ calls[c].alone => history'[calls[c].key].disturbed
     \/ FilesUnchanged /\ history'[calls[c].key].disturbed
  /\ \A k \in KeySet : /\ history'[k].raced = history[k].raced
                       /\ k # calls[c].key => history'[k] = history[k]
  /\ UNCHANGED versions /\ NoResult

\* A caller reads.
Reads(c) ==
  /\ ~ Writing(c) /\ FilesUnchanged /\ UNCHANGED << versions, history >>
  /\ calls'[c].op \in {"none", "get", "list"}
  /\ calls'[c].version <= versions
  /\ calls'[c].op = "get" => /\ calls'[c].key \in KeySet
                             /\ calls'[c].version = metadata[calls'[c].key]
  /\ \A d \in Callers \ {c} : calls'[d] = calls[d]
  /\ result'.op = "get" /\ result'.at # 0 =>
       /\ calls[c].op = "get" /\ result'.key = calls[c].key
       /\ result'.version = calls[c].version /\ result'.at = body[calls[c].key]

\* The calls are cut off.
CutOff ==
  /\ FilesUnchanged /\ UNCHANGED versions
  /\ \A c \in Callers : calls'[c] = NoCall
  /\ \A k \in KeySet : /\ history'[k].last = history[k].last
                       /\ history'[k].raced = history[k].raced
                       /\ history'[k].disturbed = (history[k].disturbed \/ Writers(k) # {})
  /\ NoResult

Rests == UNCHANGED << body, metadata, calls, versions, history >> /\ result' \in {result, NoCall}

LEMMA NoCallType ==
  NoCall \in Call /\ NoCall.op = "none" /\ NoCall.version = 0 /\ 0 \in Version
BY StorageAssumption, EmptySeq DEF NoCall, Call, Version

LEMMA VersionsNatural ==
  ASSUME StorageTypes
  PROVE  versions \in Nat /\ 0 <= versions /\ versions <= MaxVersions
BY StorageAssumption DEF StorageTypes, Version

\* The fields of a call.
LEMMA CallFields ==
  ASSUME NEW call \in Call
  PROVE  /\ call.op \in {"none", "put", "delete", "get", "list"}
         /\ call.at \in Version \cup 0..2 /\ call.key \in KeySet \cup {""}
         /\ call.version \in Version /\ call.alone \in BOOLEAN
         /\ call.todo \in Seq(KeySet) /\ call.found \in Seq(KeySet)
BY DEF Call

LEMMA BeginWriteStep ==
  ASSUME StorageTypes, CallsKnown, NEW c \in Callers, NEW key \in KeySet,
         NEW op \in {"put", "delete"}, NEW version \in Version,
         BeginWrite(c, op, key, version),
         versions' \in versions .. MaxVersions,
         op = "put" => version = versions + 1 /\ versions' = versions + 1,
         op = "delete" => version = 0
  PROVE  StorageTypes' /\ Begins(c, key) /\ calls'[c].op = op
<1> DEFINE met == {d \in Callers \ {c} : calls[d].op # "none" /\ calls[d].key = key}
<1>1. PICK call : call = [NoCall EXCEPT !.op = op, !.at = 1, !.key = key,
                                         !.version = version, !.alone = (Writers(key) = {})]
  OBVIOUS
<1>2. call = [op |-> op, at |-> 1, key |-> key, version |-> version,
              alone |-> (Writers(key) = {}), todo |-> << >>, found |-> << >>]
  BY <1>1 DEF NoCall
<1>3. call \in Call
  <2>1. PICK alone \in BOOLEAN : alone = (Writers(key) = {})
    OBVIOUS
  <2>2. call = [op |-> op, at |-> 1, key |-> key, version |-> version,
                alone |-> alone, todo |-> << >>, found |-> << >>]
    BY <1>2, <2>1
  <2>3. << >> \in Seq(KeySet) /\ 1 \in Version \cup 0..2
    BY EmptySeq
  <2> QED
    BY <2>2, <2>3, Zenon DEF Call
<1>4. calls' = [d \in Callers |->
         IF d = c THEN call ELSE [calls[d] EXCEPT !.alone = @ /\ d \notin met]]
  BY <1>1 DEF BeginWrite
<1>5. ASSUME NEW d \in Callers \ {c}
      PROVE  /\ calls'[d] \in Call
             /\ calls'[d].op = calls[d].op /\ calls'[d].at = calls[d].at
             /\ calls'[d].key = calls[d].key /\ calls'[d].version = calls[d].version
             /\ calls'[d].alone <=> (calls[d].alone /\ d \notin met)
  <2>1. calls[d] \in Call
    BY DEF StorageTypes
  <2>2. calls'[d] = [calls[d] EXCEPT !.alone = calls[d].alone /\ d \notin met]
    BY <1>4
  <2> HIDE DEF met
  <2> QED
    BY <2>1, <2>2 DEF Call
<1>6. calls'[c] = call
  BY <1>4
<1>7. calls' \in [Callers -> Call]
  <2>1. \A d \in Callers : calls'[d] \in Call
    BY <1>3, <1>5, <1>6
  <2> QED
    BY <1>4, <2>1
<1>8. \A k \in KeySet :
        /\ history'[k] \in [last : Version, disturbed : BOOLEAN, raced : BOOLEAN]
        /\ history'[k].last = history[k].last /\ history'[k].disturbed = history[k].disturbed
        /\ history'[k].raced = (history[k].raced \/ (k = key /\ Writers(k) # {}))
  <2> SUFFICES ASSUME NEW k \in KeySet
               PROVE  /\ history'[k] \in [last : Version, disturbed : BOOLEAN, raced : BOOLEAN]
                      /\ history'[k].last = history[k].last
                      /\ history'[k].disturbed = history[k].disturbed
                      /\ history'[k].raced = (history[k].raced \/ (k = key /\ Writers(k) # {}))
    OBVIOUS
  <2>1. PICK h : h = history[k] /\ h \in [last : Version, disturbed : BOOLEAN, raced : BOOLEAN]
    BY DEF StorageTypes
  <2>2. history'[k] = IF k = key THEN [h EXCEPT !.raced = @ \/ Writers(key) # {}] ELSE h
    BY <2>1 DEF BeginWrite, StorageTypes
  <2>3. PICK alone \in BOOLEAN : alone = (Writers(key) = {})
    OBVIOUS
  <2>4. CASE k = key
    <3>1. history'[k] = [h EXCEPT !.raced = @ \/ ~ alone]
      BY <2>2, <2>3, <2>4
    <3> QED
      BY <2>1, <2>3, <2>4, <3>1
  <2>5. CASE k # key
    BY <2>1, <2>2, <2>5
  <2> QED
    BY <2>4, <2>5
<1>9. history' \in [KeySet -> [last : Version, disturbed : BOOLEAN, raced : BOOLEAN]]
  <2>1. DOMAIN history' = KeySet /\ history' = [k \in KeySet |-> history'[k]]
    BY DEF BeginWrite, StorageTypes
  <2> QED
    BY <1>8, <2>1
<1>10. versions' \in Version
  BY StorageAssumption DEF StorageTypes, Version
<1>11. FilesUnchanged /\ NoResult /\ Free(c)
  BY DEF BeginWrite
<1>12. StorageTypes'
  BY <1>7, <1>9, <1>10, <1>11, NoCallType DEF StorageTypes, FilesUnchanged, NoResult, Version
<1>13. ASSUME NEW d \in Callers \ {c}
       PROVE  /\ calls'[d].op = calls[d].op /\ calls'[d].at = calls[d].at
              /\ calls'[d].key = calls[d].key /\ calls'[d].version = calls[d].version
              /\ calls'[d].alone => calls[d].alone
              /\ Writing(d) /\ calls[d].key = key => ~ calls'[d].alone
  BY <1>5 DEF Writing
<1>14. /\ calls'[c].op \in {"put", "delete"} /\ calls'[c].at = 1 /\ calls'[c].key = key
       /\ calls'[c].version = (IF calls'[c].op = "put" THEN versions' ELSE 0)
       /\ calls'[c].op = "put" => versions' = versions + 1
       /\ calls'[c].alone = (Writers(key) = {}) /\ calls'[c].op = op
  BY <1>2, <1>6
<1> QED
  BY <1>8, <1>11, <1>12, <1>13, <1>14 DEF Begins

\* The calls of the others stay.
LEMMA OneCall ==
  ASSUME StorageTypes, NEW c \in Callers, NEW call \in Call,
         calls' = [calls EXCEPT ![c] = call]
  PROVE  /\ calls' \in [Callers -> Call] /\ calls'[c] = call
         /\ \A d \in Callers \ {c} : calls'[d] = calls[d]
BY DEF StorageTypes

LEMMA MoveStep ==
  ASSUME StorageTypes, CallsKnown, NEW c \in Callers, WriteBody(c) \/ RemoveMetadata(c)
  PROVE  StorageTypes' /\ Moves(c)
<1>1. /\ calls[c].op \in {"put", "delete"} /\ calls[c].at = 1
      /\ calls' = [calls EXCEPT ![c] = [calls[c] EXCEPT !.at = 2]]
      /\ UNCHANGED << versions, history >> /\ NoResult
  BY DEF WriteBody, RemoveMetadata, At, NextStep
<1>2. PICK call : call = [calls[c] EXCEPT !.at = 2]
  OBVIOUS
<1>3. calls[c] \in Call /\ calls[c].key \in KeySet /\ calls[c].version \in Version
  BY <1>1, CallFields DEF StorageTypes, CallsKnown
<1>4. /\ call \in Call /\ call.at = 2 /\ call.op = calls[c].op /\ call.key = calls[c].key
      /\ call.version = calls[c].version /\ call.alone = calls[c].alone
  <2>1. PICK old \in Call : old = calls[c]
    BY <1>3
  <2>2. call = [old EXCEPT !.at = 2] /\ 2 \in Version \cup 0..2
    BY <1>2, <2>1
  <2>3. call \in Call
    BY <2>2 DEF Call
  <2> QED
    BY <2>1, <2>2, <2>3 DEF Call
<1>5. /\ calls' \in [Callers -> Call] /\ calls'[c] = call
      /\ \A d \in Callers \ {c} : calls'[d] = calls[d]
  BY <1>1, <1>2, <1>4, OneCall
<1>6. \/ /\ calls[c].op = "put" /\ metadata' = metadata
         /\ body' = [body EXCEPT ![calls[c].key] = calls[c].version]
      \/ /\ calls[c].op = "delete" /\ body' = body
         /\ metadata' = [metadata EXCEPT ![calls[c].key] = 0]
  BY DEF WriteBody, RemoveMetadata, At
<1>7. body' \in [KeySet -> Version] /\ metadata' \in [KeySet -> Version]
  BY <1>3, <1>6, NoCallType DEF StorageTypes
<1> QED
  BY <1>1, <1>4, <1>5, <1>6, <1>7, NoCallType
     DEF StorageTypes, Moves, Writing, NoResult, Version

LEMMA EndWriteStep ==
  ASSUME StorageTypes, CallsKnown, NEW c \in Callers, Writing(c),
         NEW whole \in BOOLEAN, EndWrite(c, whole)
  PROVE  /\ calls' \in [Callers -> Call] /\ calls'[c] = NoCall
         /\ \A d \in Callers \ {c} : calls'[d] = calls[d]
         /\ history' \in [KeySet -> [last : Version, disturbed : BOOLEAN, raced : BOOLEAN]]
         /\ \A k \in KeySet : /\ history'[k].raced = history[k].raced
                              /\ k # calls[c].key => history'[k] = history[k]
         /\ IF whole /\ calls[c].alone
            THEN /\ history'[calls[c].key].last = calls[c].version
                 /\ ~ history'[calls[c].key].disturbed
            ELSE history'[calls[c].key].disturbed
<1>1. PICK key \in KeySet : key = calls[c].key
  BY DEF Writing, CallsKnown
<1>2. PICK h : h = history[key] /\ h \in [last : Version, disturbed : BOOLEAN, raced : BOOLEAN]
  BY DEF StorageTypes
<1>3. calls[c].version \in Version /\ calls[c].alone \in BOOLEAN
  BY CallFields DEF StorageTypes
<1>4. PICK g : g = IF whole /\ calls[c].alone
                   THEN [h EXCEPT !.last = calls[c].version, !.disturbed = FALSE]
                   ELSE [h EXCEPT !.disturbed = TRUE]
  OBVIOUS
<1>5. history' = [history EXCEPT ![key] = g]
  BY <1>1, <1>2, <1>4 DEF EndWrite
<1>6. /\ g \in [last : Version, disturbed : BOOLEAN, raced : BOOLEAN] /\ g.raced = h.raced
      /\ IF whole /\ calls[c].alone
         THEN g.last = calls[c].version /\ ~ g.disturbed ELSE g.disturbed
  <2>1. CASE whole /\ calls[c].alone
    <3>1. g = [h EXCEPT !.last = calls[c].version, !.disturbed = FALSE]
      BY <1>4, <2>1
    <3>2. g = [last |-> calls[c].version, disturbed |-> FALSE, raced |-> h.raced]
      BY <1>2, <3>1
    <3> QED
      BY <1>2, <1>3, <2>1, <3>2
  <2>2. CASE ~ (whole /\ calls[c].alone)
    <3>1. g = [h EXCEPT !.disturbed = TRUE]
      BY <1>4, <2>2
    <3> QED
      BY <1>2, <2>2, <3>1
  <2> QED
    BY <2>1, <2>2
<1>7. /\ history' \in [KeySet -> [last : Version, disturbed : BOOLEAN, raced : BOOLEAN]]
      /\ \A k \in KeySet \ {key} : history'[k] = history[k]
      /\ history'[key] = g
  BY <1>5, <1>6 DEF StorageTypes
<1>8. calls' = [calls EXCEPT ![c] = NoCall]
  BY DEF EndWrite
<1> QED
  BY <1>1, <1>2, <1>6, <1>7, <1>8, NoCallType, OneCall

LEMMA EndStep ==
  ASSUME StorageTypes, CallsKnown, NEW c \in Callers,
         WriteMetadata(c) \/ RemoveBody(c) \/ WriteFails(c)
  PROVE  StorageTypes' /\ Ends(c)
<1>1. Writing(c)
  BY DEF WriteMetadata, RemoveBody, WriteFails, At, Writing
<1>2. PICK whole \in BOOLEAN :
        /\ EndWrite(c, whole)
        /\ \/ /\ whole /\ At(c, "put", 2) /\ body' = body
              /\ metadata' = [metadata EXCEPT ![calls[c].key] = calls[c].version]
           \/ /\ whole /\ At(c, "delete", 2) /\ metadata' = metadata
              /\ body' = [body EXCEPT ![calls[c].key] = 0]
           \/ ~ whole /\ FilesUnchanged
  BY DEF WriteMetadata, RemoveBody, WriteFails
<1>3. /\ calls' \in [Callers -> Call] /\ calls'[c] = NoCall
      /\ \A d \in Callers \ {c} : calls'[d] = calls[d]
      /\ history' \in [KeySet -> [last : Version, disturbed : BOOLEAN, raced : BOOLEAN]]
      /\ \A k \in KeySet : /\ history'[k].raced = history[k].raced
                           /\ k # calls[c].key => history'[k] = history[k]
      /\ IF whole /\ calls[c].alone
         THEN /\ history'[calls[c].key].last = calls[c].version
              /\ ~ history'[calls[c].key].disturbed
         ELSE history'[calls[c].key].disturbed
  BY <1>1, <1>2, EndWriteStep
<1>4. versions' = versions /\ result' = NoCall
  BY <1>2 DEF EndWrite, NoResult
<1>5. calls[c].version \in Version /\ calls[c].key \in KeySet
  BY <1>1, CallFields DEF StorageTypes, Writing, CallsKnown
<1>6. body' \in [KeySet -> Version] /\ metadata' \in [KeySet -> Version]
  BY <1>2, <1>5, NoCallType DEF StorageTypes, FilesUnchanged
<1> QED
  BY <1>1, <1>2, <1>3, <1>4, <1>6, NoCallType DEF StorageTypes, Ends, NoResult, Version

LEMMA CrashStep ==
  ASSUME StorageTypes, StorageCrash
  PROVE  StorageTypes' /\ CutOff
<1>1. /\ calls' = [c \in Callers |-> NoCall] /\ FilesUnchanged
      /\ versions' = versions /\ result' = NoCall
  BY DEF StorageCrash, NoResult
<1>2. \A k \in KeySet :
        /\ history'[k] \in [last : Version, disturbed : BOOLEAN, raced : BOOLEAN]
        /\ history'[k].last = history[k].last /\ history'[k].raced = history[k].raced
        /\ history'[k].disturbed = (history[k].disturbed \/ Writers(k) # {})
  <2> SUFFICES ASSUME NEW k \in KeySet
               PROVE  /\ history'[k] \in [last : Version, disturbed : BOOLEAN, raced : BOOLEAN]
                      /\ history'[k].last = history[k].last
                      /\ history'[k].raced = history[k].raced
                      /\ history'[k].disturbed = (history[k].disturbed \/ Writers(k) # {})
    OBVIOUS
  <2>1. PICK h : h = history[k] /\ h \in [last : Version, disturbed : BOOLEAN, raced : BOOLEAN]
    BY DEF StorageTypes
  <2>2. PICK idle \in BOOLEAN : idle = (Writers(k) = {})
    OBVIOUS
  <2>3. history'[k] = [h EXCEPT !.disturbed = @ \/ ~ idle]
    BY <2>1, <2>2 DEF StorageCrash
  <2> QED
    BY <2>1, <2>2, <2>3
<1>3. history' \in [KeySet -> [last : Version, disturbed : BOOLEAN, raced : BOOLEAN]]
  <2>1. history' = [k \in KeySet |-> history'[k]]
    BY DEF StorageCrash
  <2> QED
    BY <1>2, <2>1
<1> QED
  BY <1>1, <1>2, <1>3, NoCallType DEF StorageTypes, CutOff, FilesUnchanged, NoResult, Version

\* A get or a list begins.
LEMMA ReadBeginsStep ==
  ASSUME StorageTypes, CallsKnown, NEW c \in Callers,
         (\E k \in KeySet : ReadMetadata(c, k)) \/ (\E limit \in Nat : ReadDirectory(c, limit))
  PROVE  StorageTypes' /\ Reads(c)
<1>0. metadata \in [KeySet -> Version] /\ calls[c].op = "none"
  BY DEF StorageTypes, ReadMetadata, ReadDirectory, Free
<1>1. ASSUME NEW k \in KeySet, ReadMetadata(c, k)
      PROVE  StorageTypes' /\ Reads(c)
  <2>1. PICK call : call = [NoCall EXCEPT !.op = "get", !.key = k, !.version = metadata[k],
                                           !.alone = (Writers(k) = {})]
    OBVIOUS
  <2>2. call = [op |-> "get", at |-> 0, key |-> k, version |-> metadata[k],
                alone |-> (Writers(k) = {}), todo |-> << >>, found |-> << >>]
    BY <2>1 DEF NoCall
  <2>3. << >> \in Seq(KeySet) /\ metadata[k] \in Version /\ 0 \in Version \cup 0..2
    BY <1>0, EmptySeq
  <2>4. call \in Call
    <3>1. PICK alone \in BOOLEAN : alone = (Writers(k) = {})
      OBVIOUS
    <3>2. call = [op |-> "get", at |-> 0, key |-> k, version |-> metadata[k],
                  alone |-> alone, todo |-> << >>, found |-> << >>]
      BY <2>2, <3>1
    <3> QED
      BY <2>3, <3>2, Zenon DEF Call
  <2>6. /\ FilesUnchanged /\ UNCHANGED << versions, history >>
        /\ \/ metadata[k] = 0 /\ Returns(c, call)
           \/ calls' = [calls EXCEPT ![c] = call] /\ NoResult
    BY <1>1, <2>1 DEF ReadMetadata
  <2>7. /\ calls' = [calls EXCEPT ![c] = NoCall] \/ calls' = [calls EXCEPT ![c] = call]
        /\ result' = call \/ result' = NoCall
    BY <2>6 DEF Returns, NoResult
  <2>8. call.op = "get" /\ call.at = 0 /\ call.key = k /\ call.version = metadata[k]
    BY <2>2
  <2>9. /\ calls' \in [Callers -> Call] /\ calls'[c] \in {NoCall, call}
        /\ \A d \in Callers \ {c} : calls'[d] = calls[d]
    BY <2>4, <2>7, NoCallType, OneCall
  <2>10. metadata[k] \in Version /\ metadata[k] <= versions /\ 0 <= versions
    BY <2>3, StorageAssumption DEF CallsKnown, StorageTypes, Version
  <2>11. result' \in Call /\ ~ (result'.op = "get" /\ result'.at # 0)
    BY <2>4, <2>7, <2>8, NoCallType
  <2>12. StorageTypes'
    BY <2>6, <2>9, <2>11 DEF StorageTypes, FilesUnchanged
  <2> QED
    BY <1>0, <2>6, <2>8, <2>9, <2>10, <2>11, <2>12, NoCallType
       DEF Reads, Writing, FilesUnchanged
<1>2. ASSUME NEW limit \in Nat, ReadDirectory(c, limit)
      PROVE  StorageTypes' /\ Reads(c)
  <2>1. PICK listed : listed = Subsequence(Keys, {i \in DOMAIN Keys : metadata[Keys[i]] # 0})
    OBVIOUS
  <2>2. PICK keys : keys = SubSeq(listed, 1, IF limit < Len(listed) THEN limit ELSE Len(listed))
    OBVIOUS
  <2>3. listed \in Seq(KeySet)
    BY <2>1, StorageAssumption, SubsequenceContent DEF KeptPrefix
  <2>4. keys \in Seq(KeySet)
    <3> HIDE DEF KeySet
    <3>1. PICK n \in 0..Len(listed) : keys = SubSeq(listed, 1, n)
      BY <1>2, <2>2, <2>3
    <3> QED
      BY <2>3, <3>1, SubSeqProperties
  <2>5. PICK call : call = [NoCall EXCEPT !.op = "list", !.todo = keys]
    OBVIOUS
  <2>6. call = [op |-> "list", at |-> 0, key |-> "", version |-> 0,
                alone |-> TRUE, todo |-> keys, found |-> << >>]
    BY <2>5 DEF NoCall
  <2>7. << >> \in Seq(KeySet) /\ 0 \in Version \cup 0..2
    BY EmptySeq
  <2>8. call \in Call
    BY <2>4, <2>6, <2>7, NoCallType, Zenon DEF Call
  <2>9. /\ FilesUnchanged /\ UNCHANGED << versions, history >> /\ NoResult
        /\ calls' = [calls EXCEPT ![c] = call]
    BY <1>2, <2>1, <2>2, <2>5 DEF ReadDirectory
  <2>10. /\ calls' \in [Callers -> Call] /\ calls'[c] = call
         /\ \A d \in Callers \ {c} : calls'[d] = calls[d]
    BY <2>8, <2>9, OneCall
  <2>11. call.op = "list" /\ call.version = 0 /\ 0 <= versions
    BY <2>6, VersionsNatural
  <2>12. StorageTypes'
    BY <2>9, <2>10, NoCallType DEF StorageTypes, FilesUnchanged, NoResult
  <2> QED
    BY <1>0, <2>9, <2>10, <2>11, <2>12, NoCallType DEF Reads, Writing, NoResult
<1> QED
  BY <1>1, <1>2

\* A get or a list goes on, or ends.
LEMMA ReadGoesOnStep ==
  ASSUME StorageTypes, CallsKnown, NEW c \in Callers, ReadStep(c)
  PROVE  StorageTypes' /\ Reads(c)
<1>0. PICK old \in Call : old = calls[c]
  BY DEF StorageTypes
<1>1. /\ old.op \in {"get", "list"} /\ old.version <= versions /\ 0 <= versions
      /\ FilesUnchanged /\ UNCHANGED << versions, history >>
  BY <1>0, VersionsNatural DEF ReadStep, ReadBody, HeadNext, ReadFails, CallsKnown
<1>2. PICK call \in Call :
        /\ calls' = [calls EXCEPT ![c] = call]
        /\ call.op \in {"none", "list"} /\ call.version \in {0, old.version}
        /\ result' \in Call
        /\ result'.op = "get" /\ result'.at # 0 =>
             /\ old.op = "get" /\ result'.key = old.key
             /\ result'.version = old.version /\ result'.at = body[old.key]
  <2>1. CASE ReadBody(c)
    <3>1. /\ old.op = "get" /\ calls' = [calls EXCEPT ![c] = NoCall]
          /\ result' = [old EXCEPT !.at = body[old.key]]
      BY <1>0, <2>1 DEF ReadBody, Returns
    <3>2. body[old.key] \in Version
      BY <1>0, <3>1 DEF StorageTypes, CallsKnown
    <3>3. /\ result' \in Call /\ result'.key = old.key /\ result'.version = old.version
          /\ result'.at = body[old.key]
      BY <3>1, <3>2 DEF Call
    <3> QED
      BY <3>1, <3>3, NoCallType
  <2>2. CASE HeadNext(c)
    <3>1. old.op = "list" /\ old.todo \in Seq(KeySet) /\ old.found \in Seq(KeySet)
      BY <1>0, <2>2 DEF HeadNext, Call
    <3>2. CASE old.todo = << >>
      <4>1. result' = old /\ calls' = [calls EXCEPT ![c] = NoCall]
        BY <1>0, <2>2, <3>2 DEF HeadNext, Returns
      <4> QED
        BY <3>1, <4>1, NoCallType
    <3>3. CASE old.todo # << >>
      <4>1. PICK entry : entry = IF metadata[Head(old.todo)] = 0 THEN << >>
                                 ELSE << Head(old.todo) >>
        OBVIOUS
      <4>2. PICK call : call = [old EXCEPT !.todo = Tail(@), !.found = @ \o entry]
        OBVIOUS
      <4>3. calls' = [calls EXCEPT ![c] = call] /\ result' = NoCall
        BY <1>0, <2>2, <3>3, <4>1, <4>2 DEF HeadNext, NoResult
      <4>4. Head(old.todo) \in KeySet /\ Tail(old.todo) \in Seq(KeySet)
        <5> HIDE DEF KeySet
        <5> QED
          BY <3>1, <3>3
      <4>5. entry \in Seq(KeySet)
        BY <4>1, <4>4
      <4>6. old.found \o entry \in Seq(KeySet)
        BY <3>1, <4>5
      <4>7. call = [op |-> old.op, at |-> old.at, key |-> old.key, version |-> old.version,
                    alone |-> old.alone, todo |-> Tail(old.todo),
                    found |-> old.found \o entry]
        BY <4>2 DEF Call
      <4>8. call \in Call /\ call.op = "list" /\ call.version = old.version
        <5>1. call.op = "list" /\ call.version = old.version
          BY <3>1, <4>7
        <5>2. call \in Call
          BY <4>4, <4>6, <4>7, CallFields, Zenon DEF Call
        <5> QED
          BY <5>1, <5>2
      <4> QED
        BY <4>3, <4>8, NoCallType
    <3> QED
      BY <3>2, <3>3
  <2>3. CASE ReadFails(c)
    BY <2>3, NoCallType DEF ReadFails, NoResult
  <2> QED
    BY <2>1, <2>2, <2>3 DEF ReadStep
<1>3. /\ calls' \in [Callers -> Call] /\ calls'[c] = call
      /\ \A d \in Callers \ {c} : calls'[d] = calls[d]
  BY <1>2, OneCall
<1>4. StorageTypes'
  BY <1>1, <1>2, <1>3 DEF StorageTypes, FilesUnchanged
<1> QED
  BY <1>0, <1>1, <1>2, <1>3, <1>4 DEF Reads, Writing

\* Each step of the archive or of another caller is one of these.
StorageStep ==
  \/ \E c \in Callers :
       (\E key \in KeySet : Begins(c, key)) \/ Moves(c) \/ Ends(c) \/ Reads(c)
  \/ CutOff
  \/ Rests

LEMMA BeginStep ==
  ASSUME StorageTypes, CallsKnown, NEW c \in Callers, NEW key \in KeySet,
         BeginPut(c, key) \/ BeginDelete(c, key)
  PROVE  /\ StorageTypes' /\ Begins(c, key)
         /\ BeginPut(c, key) => calls'[c].op = "put" /\ versions' = versions + 1
<1>0. versions \in Nat /\ versions <= MaxVersions /\ MaxVersions \in Nat
  BY VersionsNatural, StorageAssumption
<1>1. CASE BeginPut(c, key)
  <2>1. /\ BeginWrite(c, "put", key, versions + 1)
        /\ versions < MaxVersions /\ versions' = versions + 1
    BY <1>1 DEF BeginPut
  <2>2. versions + 1 \in Version /\ versions' \in versions .. MaxVersions
    BY <1>0, <2>1 DEF Version
  <2> QED
    BY <2>1, <2>2, BeginWriteStep
<1>2. CASE BeginDelete(c, key)
  <2>1. BeginWrite(c, "delete", key, 0) /\ versions' = versions
    BY <1>2 DEF BeginDelete
  <2>2. versions' \in versions .. MaxVersions
    BY <1>0, <2>1
  <2> QED
    BY <2>1, <2>2, BeginWriteStep, NoCallType DEF BeginPut, BeginDelete
<1> QED
  BY <1>1, <1>2

LEMMA WriteStepEffect ==
  ASSUME StorageTypes, CallsKnown, NEW c \in Callers, WriteStep(c)
  PROVE  StorageTypes' /\ (Moves(c) \/ Ends(c))
BY MoveStep, EndStep DEF WriteStep

LEMMA RestStep ==
  ASSUME StorageTypes, NoStorageStep \/ UNCHANGED vars
  PROVE  StorageTypes' /\ Rests
BY NoCallType DEF NoStorageStep, NoResult, vars, storageVars, Rests, StorageTypes

LEMMA NextStorage ==
  ASSUME StorageTypes, CallsKnown, [Next]_vars
  PROVE  StorageTypes' /\ StorageStep
<1>1. CASE StartArchive
  BY <1>1, RestStep DEF StartArchive, StorageStep
<1>2. CASE SkipArtifact
  BY <1>2, RestStep DEF SkipArtifact, StorageStep
<1>3. CASE ReadArtifact
  <2>1. CASE Source \in InSandbox /\ BeginPut(Archiver, KeyOf[Source])
    BY <2>1, ArchiveAssumption, BeginStep DEF StorageStep
  <2>2. CASE NoStorageStep
    BY <2>2, RestStep DEF StorageStep
  <2> QED
    BY <1>3, <2>1, <2>2 DEF ReadArtifact
<1>4. CASE PutArtifact
  <2>1. WriteStep(Archiver)
    BY <1>4 DEF PutArtifact, WriteStep
  <2> QED
    BY <2>1, ArchiveAssumption, WriteStepEffect DEF StorageStep
<1>5. CASE Announce
  BY <1>5, RestStep DEF Announce, StorageStep
<1>6. CASE Crash
  BY <1>6, CrashStep DEF Crash, StorageStep
<1>7. ASSUME NEW c \in Callers \ {Archiver}, Operator(c)
      PROVE  StorageTypes' /\ StorageStep
  <2>1. CASE \E k \in KeySet \ ArchiveKeys : BeginPut(c, k) \/ BeginDelete(c, k)
    BY <2>1, BeginStep DEF StorageStep
  <2>2. CASE (\E k \in KeySet : ReadMetadata(c, k))
               \/ (\E limit \in Limits : ReadDirectory(c, limit))
    <3>1. (\E k \in KeySet : ReadMetadata(c, k)) \/ (\E limit \in Nat : ReadDirectory(c, limit))
      BY <2>2, ArchiveAssumption
    <3>2. StorageTypes' /\ Reads(c)
      BY <3>1, ReadBeginsStep
    <3> QED
      BY <3>2 DEF StorageStep
  <2>3. CASE WriteStep(c)
    BY <2>3, WriteStepEffect DEF StorageStep
  <2>4. CASE ReadStep(c)
    BY <2>4, ReadGoesOnStep DEF StorageStep
  <2> QED
    BY <1>7, <2>1, <2>2, <2>3, <2>4 DEF Operator
<1>8. CASE UNCHANGED vars
  BY <1>8, RestStep DEF StorageStep
<1> QED
  BY <1>1, <1>2, <1>3, <1>4, <1>5, <1>6, <1>7, <1>8 DEF Next

-----------------------------------------------------------------------------
(* The files of an object. *)

\* Who writes an object after a step.
LEMMA WritersAfter ==
  ASSUME NEW c \in Callers
  PROVE  /\ \A key \in KeySet : Begins(c, key) =>
              \A k \in KeySet :
                Writers(k)' = IF k = key THEN Writers(k) \cup {c} ELSE Writers(k)
         /\ Moves(c) \/ Reads(c) => \A k \in KeySet : Writers(k)' = Writers(k)
         /\ Ends(c) => \A k \in KeySet : Writers(k)' = Writers(k) \ {c}
<1>1. ASSUME NEW key \in KeySet, Begins(c, key), NEW k \in KeySet
      PROVE  Writers(k)' = IF k = key THEN Writers(k) \cup {c} ELSE Writers(k)
  BY <1>1 DEF Begins, Writers, Writing, Free
<1>2. ASSUME Moves(c), NEW k \in KeySet
      PROVE  Writers(k)' = Writers(k)
  BY <1>2 DEF Moves, Writers, Writing
<1>3. ASSUME Reads(c), NEW k \in KeySet
      PROVE  Writers(k)' = Writers(k)
  BY <1>3 DEF Reads, Writers, Writing
<1>4. ASSUME Ends(c), NEW k \in KeySet
      PROVE  Writers(k)' = Writers(k) \ {c}
  BY <1>4, NoCallType DEF Ends, Writers, Writing
<1> QED
  BY <1>1, <1>2, <1>3, <1>4

LEMMA CallsKnownStep ==
  ASSUME StorageTypes, CallsKnown, StorageStep
  PROVE  CallsKnown'
<1>0. /\ versions \in Nat /\ MaxVersions \in Nat
      /\ \A c \in Callers : calls[c].version \in Nat
      /\ \A k \in KeySet : body[k] \in Nat /\ metadata[k] \in Nat
  <2>1. \A c \in Callers : calls[c].version \in Version
    BY CallFields DEF StorageTypes
  <2>2. \A k \in KeySet : body[k] \in Version /\ metadata[k] \in Version
    BY DEF StorageTypes
  <2> QED
    BY <2>1, <2>2, VersionsNatural, StorageAssumption DEF Version
<1>1. ASSUME NEW c \in Callers, NEW key \in KeySet, Begins(c, key)
      PROVE  CallsKnown'
  <2>1. versions' \in Nat /\ versions <= versions'
    BY <1>0, <1>1 DEF Begins
  <2>2. \A k \in KeySet : body'[k] <= versions' /\ metadata'[k] <= versions'
    BY <1>0, <1>1, <2>1 DEF Begins, FilesUnchanged, CallsKnown
  <2>3. ASSUME NEW d \in Callers
        PROVE  /\ calls'[d].version <= versions'
               /\ calls'[d].op \in {"put", "delete", "get"} => calls'[d].key \in KeySet
               /\ Writing(d)' => calls'[d].at \in {1, 2}
               /\ calls'[d].op = "delete" => calls'[d].version = 0
    <3>1. CASE d = c
      BY <1>1, <2>1, <3>1 DEF Begins
    <3>2. CASE d # c
      BY <1>0, <1>1, <2>1, <3>2 DEF Begins, CallsKnown, Writing
    <3> QED
      BY <3>1, <3>2
  <2> QED
    BY <2>2, <2>3 DEF CallsKnown
<1>2. ASSUME NEW c \in Callers, Moves(c)
      PROVE  CallsKnown'
  <2>1. \A d \in Callers :
          /\ calls'[d].version <= versions'
          /\ calls'[d].op \in {"put", "delete", "get"} => calls'[d].key \in KeySet
          /\ Writing(d)' => calls'[d].at \in {1, 2}
          /\ calls'[d].op = "delete" => calls'[d].version = 0
    BY <1>2 DEF Moves, CallsKnown, Writing
  <2>2. \A k \in KeySet : body'[k] <= versions' /\ metadata'[k] <= versions'
    BY <1>0, <1>2 DEF Moves, CallsKnown, StorageTypes
  <2> QED
    BY <2>1, <2>2 DEF CallsKnown
<1>3. ASSUME NEW c \in Callers, Ends(c)
      PROVE  CallsKnown'
  <2>1. \A d \in Callers :
          /\ calls'[d].version <= versions'
          /\ calls'[d].op \in {"put", "delete", "get"} => calls'[d].key \in KeySet
          /\ Writing(d)' => calls'[d].at \in {1, 2}
          /\ calls'[d].op = "delete" => calls'[d].version = 0
    BY <1>0, <1>3, NoCallType DEF Ends, CallsKnown, Writing
  <2>2. \A k \in KeySet : body'[k] <= versions' /\ metadata'[k] <= versions'
    BY <1>0, <1>3 DEF Ends, CallsKnown, StorageTypes, FilesUnchanged
  <2> QED
    BY <2>1, <2>2 DEF CallsKnown
<1>4. ASSUME NEW c \in Callers, Reads(c)
      PROVE  CallsKnown'
  BY <1>0, <1>4 DEF Reads, CallsKnown, Writing, FilesUnchanged
<1>5. CASE CutOff
  BY <1>0, <1>5, NoCallType DEF CutOff, CallsKnown, Writing, FilesUnchanged
<1>6. CASE Rests
  BY <1>6 DEF Rests, CallsKnown, Writing
<1> QED
  BY <1>1, <1>2, <1>3, <1>4, <1>5, <1>6 DEF StorageStep

\* A write that met no other has the object to itself.
LEMMA AloneStep ==
  ASSUME StorageTypes, CallsKnown, AloneWrites, FilesInStep, StorageStep
  PROVE  AloneWrites' /\ FilesInStep'
<1>0. ASSUME NEW d \in Callers, Writing(d), calls[d].alone,
             NEW key \in KeySet, calls[d].key = key,
             calls'[d].op = calls[d].op, calls'[d].at = calls[d].at,
             calls'[d].key = key, calls'[d].version = calls[d].version,
             body'[key] = body[key], metadata'[key] = metadata[key],
             Writers(key)' = Writers(key)
      PROVE  AloneWrite(d)'
  <2>1. /\ Writers(key) = {d}
        /\ At(d, "put", 2) => body[key] = calls[d].version
        /\ At(d, "delete", 2) => metadata[key] = 0
    BY <1>0 DEF AloneWrites, AloneWrite
  <2> QED
    BY <1>0, <2>1 DEF AloneWrite, At
<1>1. ASSUME NEW c \in Callers, NEW key \in KeySet, Begins(c, key)
      PROVE  AloneWrites' /\ FilesInStep'
  <2>1. \A k \in KeySet : Writers(k)' = IF k = key THEN Writers(k) \cup {c} ELSE Writers(k)
    BY <1>1, WritersAfter
  <2>2. ASSUME NEW d \in Callers
        PROVE  AloneWrite(d)'
    <3>1. CASE d = c
      <4>1. /\ calls'[c].key = key /\ calls'[c].at = 1
            /\ calls'[c].alone => Writers(key) = {}
        BY <1>1 DEF Begins
      <4>2. Writers(key)' = Writers(key) \cup {c}
        BY <2>1
      <4> QED
        BY <3>1, <4>1, <4>2 DEF At, AloneWrite
    <3>2. CASE d # c /\ Writing(d)' /\ calls'[d].alone
      <4>1. /\ Writing(d) /\ calls[d].alone /\ calls[d].key \in KeySet \ {key}
            /\ calls'[d].op = calls[d].op /\ calls'[d].at = calls[d].at
            /\ calls'[d].key = calls[d].key /\ calls'[d].version = calls[d].version
        BY <1>1, <3>2 DEF Begins, Writing, CallsKnown
      <4>2. \A k \in KeySet : body'[k] = body[k] /\ metadata'[k] = metadata[k]
        BY <1>1 DEF Begins, FilesUnchanged
      <4> QED
        BY <1>0, <2>1, <4>1, <4>2
    <3>3. CASE ~ (Writing(d)' /\ calls'[d].alone)
      BY <3>3 DEF AloneWrite
    <3> QED
      BY <3>1, <3>2, <3>3
  <2>3. FilesInStep'
    <3>1. ASSUME NEW k \in KeySet, ~ history'[k].disturbed, Writers(k)' = {}
          PROVE  body'[k] = history'[k].last /\ metadata'[k] = history'[k].last
      <4>1. Writers(k) = {} /\ ~ history[k].disturbed /\ history'[k].last = history[k].last
        BY <1>1, <2>1, <3>1 DEF Begins
      <4> QED
        BY <1>1, <4>1 DEF FilesInStep, Begins, FilesUnchanged
    <3> QED
      BY <3>1 DEF FilesInStep
  <2> QED
    BY <2>2, <2>3 DEF AloneWrites
<1>2. ASSUME NEW c \in Callers, Moves(c)
      PROVE  AloneWrites' /\ FilesInStep'
  <2>0. PICK key \in KeySet : key = calls[c].key /\ c \in Writers(key)
    BY <1>2 DEF Moves, CallsKnown, Writing, Writers
  <2>1. \A k \in KeySet : Writers(k)' = Writers(k)
    BY <1>2, WritersAfter
  <2>2. \A k \in KeySet \ {key} : body'[k] = body[k] /\ metadata'[k] = metadata[k]
    BY <1>2, <2>0 DEF Moves, StorageTypes
  <2>3. ASSUME NEW d \in Callers
        PROVE  AloneWrite(d)'
    <3>1. CASE d = c /\ calls[c].alone
      <4>1. Writers(key)' = {c}
        BY <1>2, <2>0, <2>1, <3>1 DEF Moves, AloneWrites, AloneWrite
      <4>2. /\ calls'[c].op = "put" => body'[key] = calls'[c].version
            /\ calls'[c].op = "delete" => metadata'[key] = 0
        BY <1>2, <2>0 DEF Moves, StorageTypes
      <4>3. calls'[c].key = key
        BY <1>2, <2>0 DEF Moves
      <4> QED
        BY <3>1, <4>1, <4>2, <4>3 DEF AloneWrite, At
    <3>2. CASE d # c /\ Writing(d) /\ calls[d].alone
      <4>1. calls[d].key \in KeySet /\ Writers(calls[d].key) = {d}
        BY <3>2 DEF CallsKnown, Writing, AloneWrites, AloneWrite
      <4>2. calls[d].key # key /\ calls'[d] = calls[d]
        BY <1>2, <2>0, <3>2, <4>1 DEF Moves
      <4> QED
        BY <1>0, <2>1, <2>2, <3>2, <4>1, <4>2
    <3>3. CASE ~ (Writing(d) /\ calls[d].alone)
      BY <1>2, <3>3 DEF AloneWrite, Moves, Writing
    <3> QED
      BY <1>2, <3>1, <3>2, <3>3 DEF Moves
  <2>4. FilesInStep'
    <3>1. ASSUME NEW k \in KeySet, ~ history'[k].disturbed, Writers(k)' = {}
          PROVE  body'[k] = history'[k].last /\ metadata'[k] = history'[k].last
      <4>1. Writers(k) = {} /\ ~ history[k].disturbed /\ k # key
        BY <1>2, <2>0, <2>1, <3>1 DEF Moves
      <4> QED
        BY <1>2, <2>2, <4>1 DEF FilesInStep, Moves
    <3> QED
      BY <3>1 DEF FilesInStep
  <2> QED
    BY <2>3, <2>4 DEF AloneWrites
<1>3. ASSUME NEW c \in Callers, Ends(c)
      PROVE  AloneWrites' /\ FilesInStep'
  <2>0. PICK key \in KeySet : key = calls[c].key /\ c \in Writers(key)
    BY <1>3 DEF Ends, CallsKnown, Writing, Writers
  <2>1. \A k \in KeySet : Writers(k)' = Writers(k) \ {c}
    BY <1>3, WritersAfter
  <2>2. \A k \in KeySet \ {key} :
          /\ body'[k] = body[k] /\ metadata'[k] = metadata[k] /\ history'[k] = history[k]
          /\ c \notin Writers(k)
    BY <1>3, <2>0 DEF Ends, StorageTypes, FilesUnchanged, Writers
  <2>3. ASSUME NEW d \in Callers
        PROVE  AloneWrite(d)'
    <3>1. CASE d = c
      BY <1>3, <3>1, NoCallType DEF Ends, AloneWrite, Writing
    <3>2. CASE d # c /\ Writing(d) /\ calls[d].alone
      <4>1. calls[d].key \in KeySet /\ Writers(calls[d].key) = {d}
        BY <3>2 DEF CallsKnown, Writing, AloneWrites, AloneWrite
      <4>2. PICK other \in KeySet \ {key} : other = calls[d].key
        BY <2>0, <3>2, <4>1
      <4>3. Writers(other)' = Writers(other) /\ calls'[d] = calls[d]
        BY <1>3, <2>1, <2>2, <3>2 DEF Ends
      <4> QED
        BY <1>0, <2>2, <3>2, <4>2, <4>3
    <3>3. CASE d # c /\ ~ (Writing(d) /\ calls[d].alone)
      BY <1>3, <3>3 DEF AloneWrite, Ends, Writing
    <3> QED
      BY <3>1, <3>2, <3>3
  <2>4. ASSUME NEW k \in KeySet, ~ history'[k].disturbed, Writers(k)' = {}
        PROVE  body'[k] = history'[k].last /\ metadata'[k] = history'[k].last
    <3>1. CASE k = key
      <4>1. calls[c].alone
        BY <1>3, <2>0, <2>4, <3>1 DEF Ends
      <4>2. /\ At(c, "put", 2) => body[key] = calls[c].version
            /\ At(c, "delete", 2) => metadata[key] = 0
        BY <1>3, <2>0, <4>1 DEF Ends, AloneWrites, AloneWrite
      <4>3. ~ FilesUnchanged \/ history'[key].last = calls[c].version
        BY <1>3, <2>0, <2>4, <3>1, <4>1 DEF Ends
      <4>4. CASE At(c, "put", 2) /\ body' = body
                   /\ metadata' = [metadata EXCEPT ![key] = calls[c].version]
                   /\ history'[key].last = calls[c].version
        <5>1. metadata'[key] = calls[c].version /\ body'[key] = calls[c].version
          BY <4>2, <4>4 DEF StorageTypes
        <5> QED
          BY <3>1, <4>4, <5>1
      <4>5. CASE At(c, "delete", 2) /\ metadata' = metadata
                   /\ body' = [body EXCEPT ![key] = 0]
                   /\ history'[key].last = calls[c].version
        <5>1. calls[c].version = 0
          BY <4>5 DEF At, CallsKnown
        <5>2. metadata'[key] = 0 /\ body'[key] = 0
          BY <4>2, <4>5 DEF StorageTypes
        <5> QED
          BY <3>1, <4>5, <5>1, <5>2
      <4> QED
        BY <1>3, <2>0, <2>4, <3>1, <4>1, <4>4, <4>5 DEF Ends
    <3>2. CASE k # key
      BY <2>1, <2>2, <2>4, <3>2 DEF FilesInStep
    <3> QED
      BY <3>1, <3>2
  <2> QED
    BY <2>3, <2>4 DEF AloneWrites, FilesInStep
<1>4. ASSUME NEW c \in Callers, Reads(c)
      PROVE  AloneWrites' /\ FilesInStep'
  <2>1. \A k \in KeySet : Writers(k)' = Writers(k)
    BY <1>4, WritersAfter
  <2>2. ASSUME NEW d \in Callers
        PROVE  AloneWrite(d)'
    <3>1. CASE d = c \/ ~ (Writing(d) /\ calls[d].alone)
      BY <1>4, <3>1 DEF Reads, AloneWrite, Writing
    <3>2. CASE d # c /\ Writing(d) /\ calls[d].alone
      <4>1. calls[d].key \in KeySet /\ calls'[d] = calls[d] /\ body' = body /\ metadata' = metadata
        BY <1>4, <3>2 DEF CallsKnown, Writing, Reads, FilesUnchanged
      <4> QED
        BY <1>0, <2>1, <3>2, <4>1
    <3> QED
      BY <3>1, <3>2
  <2>3. FilesInStep'
    BY <1>4, <2>1 DEF FilesInStep, Reads, FilesUnchanged
  <2> QED
    BY <2>2, <2>3 DEF AloneWrites
<1>5. CASE CutOff
  <2>1. \A d \in Callers : ~ Writing(d)'
    BY <1>5, NoCallType DEF CutOff, Writing
  <2>2. ASSUME NEW k \in KeySet, ~ history'[k].disturbed
        PROVE  body'[k] = history'[k].last /\ metadata'[k] = history'[k].last
    BY <1>5, <2>2 DEF CutOff, FilesInStep, FilesUnchanged
  <2> QED
    BY <2>1, <2>2 DEF AloneWrites, AloneWrite, FilesInStep
<1>6. CASE Rests
  BY <1>6 DEF Rests, AloneWrites, AloneWrite, FilesInStep, Writers, Writing, At
<1> QED
  BY <1>1, <1>2, <1>3, <1>4, <1>5, <1>6 DEF StorageStep

LEMMA InOrderStep ==
  ASSUME StorageTypes, CallsKnown, InOrder, StorageStep
  PROVE  InOrder'
<1>n. /\ versions \in Nat
      /\ \A c \in Callers : calls[c].version \in Nat
      /\ \A k \in KeySet : body[k] \in Nat /\ metadata[k] \in Nat
  <2>1. \A c \in Callers : calls[c].version \in Version
    BY CallFields DEF StorageTypes
  <2>2. \A k \in KeySet : body[k] \in Version /\ metadata[k] \in Version
    BY DEF StorageTypes
  <2> QED
    BY <2>1, <2>2, VersionsNatural, StorageAssumption DEF Version
<1>q. ASSUME NEW k \in KeySet, InOrderOf(k), body'[k] = body[k], metadata'[k] = metadata[k],
             NEW c \in Callers, Writers(k)' \in {Writers(k), Writers(k) \ {c}},
             \A d \in Callers \ {c} :
               /\ calls'[d].op = calls[d].op /\ calls'[d].at = calls[d].at
               /\ calls'[d].key = calls[d].key /\ calls'[d].version = calls[d].version,
             \/ c \notin Writers(k)'
             \/ /\ calls'[c].op = calls[c].op /\ calls'[c].at = calls[c].at
                /\ calls'[c].version = calls[c].version,
             calls'[c].op = "get" /\ calls'[c].key = k => calls'[c].version = metadata[k]
      PROVE  InOrderOf(k)'
  <2>1. \A d \in Writers(k)' : /\ d \in Writers(k) /\ calls'[d].op = calls[d].op
                               /\ calls'[d].at = calls[d].at
                               /\ calls'[d].version = calls[d].version
    BY <1>q DEF Writers
  <2>2. /\ metadata[k] <= body[k]
        /\ \A d, e \in Writers(k) : d = e
        /\ \A d \in Writers(k) :
             /\ At(d, "put", 1) => body[k] <= calls[d].version
             /\ At(d, "put", 2) => body[k] = calls[d].version
             /\ At(d, "delete", 2) => metadata[k] = 0
        /\ \A g \in Callers : calls[g].op = "get" /\ calls[g].key = k =>
             /\ body[k] = 0 \/ calls[g].version <= body[k]
             /\ \A d \in Writers(k) : At(d, "put", 1) => calls[g].version <= calls[d].version
    BY <1>q DEF InOrderOf
  <2>3. \A d \in Writers(k)' :
          /\ At(d, "put", 1)' => At(d, "put", 1) /\ body[k] <= calls[d].version
          /\ At(d, "put", 2)' => body[k] = calls[d].version
          /\ At(d, "delete", 2)' => metadata[k] = 0
    BY <2>1, <2>2 DEF At
  <2>4. ASSUME NEW g \in Callers, calls'[g].op = "get", calls'[g].key = k
        PROVE  /\ body[k] = 0 \/ calls'[g].version <= body[k]
               /\ \A d \in Writers(k)' :
                    At(d, "put", 1)' => calls'[g].version <= calls[d].version
    <3>1. CASE g = c
      <4>1. calls'[c].version = metadata[k]
        BY <1>q, <2>4, <3>1
      <4>2. \A d \in Writers(k)' : calls[d].version \in Nat
        BY <1>n, <2>1 DEF Writers
      <4> QED
        BY <1>n, <2>2, <2>3, <3>1, <4>1, <4>2
    <3>2. CASE g # c
      <4>1. calls[g].op = "get" /\ calls[g].key = k /\ calls'[g].version = calls[g].version
        BY <1>q, <2>4, <3>2
      <4> QED
        BY <2>1, <2>2, <2>3, <4>1
    <3> QED
      BY <3>1, <3>2
  <2> QED
    BY <1>q, <2>1, <2>2, <2>3, <2>4 DEF InOrderOf
<1>1. ASSUME NEW c \in Callers, NEW key \in KeySet, Begins(c, key),
             NEW k \in KeySet, ~ history'[k].raced
      PROVE  InOrderOf(k)'
  <2>1. Writers(k)' = IF k = key THEN Writers(k) \cup {c} ELSE Writers(k)
    BY <1>1, WritersAfter
  <2>2. InOrderOf(k) /\ (k = key => Writers(k) = {})
    BY <1>1 DEF InOrder, Begins
  <2>3. CASE k # key
    <3>1. Writers(k)' = Writers(k) /\ c \notin Writers(k)
      BY <1>1, <2>1, <2>3 DEF Begins, Free, Writers, Writing
    <3> QED
      BY <1>1, <1>q, <2>2, <3>1 DEF Begins, FilesUnchanged
  <2>4. CASE k = key
    <3>1. Writers(k)' = {c}
      BY <2>1, <2>2, <2>4
    <3>2. ~ At(c, "put", 2)' /\ ~ At(c, "delete", 2)'
      BY <1>1 DEF Begins, At
    <3>3. At(c, "put", 1)' => calls'[c].version = versions + 1
      BY <1>1 DEF Begins, At
    <3>4. \A g \in Callers : calls'[g].op = "get" =>
            g # c /\ calls[g].op = "get" /\ calls'[g].key = calls[g].key
            /\ calls'[g].version = calls[g].version /\ calls[g].version <= versions
      BY <1>1 DEF Begins, CallsKnown
    <3>5. body'[k] = body[k] /\ metadata'[k] = metadata[k] /\ body[k] <= versions
      BY <1>1 DEF Begins, FilesUnchanged, CallsKnown
    <3> QED
      BY <1>n, <2>2, <3>1, <3>2, <3>3, <3>4, <3>5 DEF InOrderOf
  <2> QED
    BY <2>3, <2>4
<1>2. ASSUME NEW c \in Callers, Moves(c), NEW k \in KeySet, ~ history'[k].raced
      PROVE  InOrderOf(k)'
  <2>1. Writers(k)' = Writers(k) /\ InOrderOf(k)
    BY <1>2, WritersAfter DEF InOrder, Moves
  <2>2. CASE k # calls[c].key
    <3>1. c \notin Writers(k)' /\ body'[k] = body[k] /\ metadata'[k] = metadata[k]
      BY <1>2, <2>1, <2>2 DEF Moves, Writers, StorageTypes
    <3> QED
      BY <1>2, <1>q, <2>1, <3>1 DEF Moves, Writing
  <2>3. CASE k = calls[c].key
    <3>1. Writers(k) = {c}
      BY <1>2, <2>1, <2>3 DEF Moves, Writers, InOrderOf
    <3>2. \A g \in Callers : calls'[g].op = "get" => calls'[g] = calls[g]
      BY <1>2 DEF Moves, Writing
    <3>3. ~ At(c, "put", 1)'
      BY <1>2 DEF Moves, At
    <3>4. CASE calls[c].op = "put"
      <4>1. /\ metadata'[k] = metadata[k] /\ body'[k] = calls[c].version
            /\ calls'[c].version = calls[c].version /\ ~ At(c, "delete", 2)'
        BY <1>2, <2>3, <3>4 DEF Moves, StorageTypes, At
      <4>2. /\ metadata[k] <= calls[c].version
            /\ \A g \in Callers : calls[g].op = "get" /\ calls[g].key = k =>
                 calls[g].version <= calls[c].version
        <5>1. At(c, "put", 1)
          BY <1>2, <3>4 DEF Moves, At
        <5> QED
          BY <1>n, <2>1, <3>1, <5>1 DEF InOrderOf
      <4> QED
        BY <2>1, <3>1, <3>2, <3>3, <4>1, <4>2 DEF InOrderOf
    <3>5. CASE calls[c].op = "delete"
      <4>1. body'[k] = body[k] /\ metadata'[k] = 0 /\ ~ At(c, "put", 2)'
        BY <1>2, <2>3, <3>5 DEF Moves, StorageTypes, At
      <4>2. \A g \in Callers : calls[g].op = "get" /\ calls[g].key = k =>
              body[k] = 0 \/ calls[g].version <= body[k]
        BY <2>1 DEF InOrderOf
      <4> QED
        BY <1>n, <2>1, <3>1, <3>2, <3>3, <4>1, <4>2 DEF InOrderOf
    <3> QED
      BY <1>2, <3>4, <3>5 DEF Moves
  <2> QED
    BY <2>2, <2>3
<1>3. ASSUME NEW c \in Callers, Ends(c), NEW k \in KeySet, ~ history'[k].raced
      PROVE  InOrderOf(k)'
  <2>1. Writers(k)' = Writers(k) \ {c} /\ InOrderOf(k) /\ calls'[c].op # "get"
    BY <1>3, WritersAfter, NoCallType DEF InOrder, Ends
  <2>2. CASE body'[k] = body[k] /\ metadata'[k] = metadata[k]
    BY <1>3, <1>q, <2>1, <2>2 DEF Ends
  <2>3. CASE ~ (body'[k] = body[k] /\ metadata'[k] = metadata[k])
    <3>1. k = calls[c].key
      BY <1>3, <2>3 DEF Ends, StorageTypes, FilesUnchanged
    <3>2. Writers(k) = {c} /\ Writers(k)' = {}
      BY <1>3, <2>1, <3>1 DEF Ends, Writers, InOrderOf
    <3>3. \A g \in Callers : calls'[g].op = "get" => calls'[g] = calls[g]
      BY <1>3, NoCallType DEF Ends
    <3>4. /\ metadata'[k] <= body'[k]
          /\ body'[k] = 0 \/ body'[k] = body[k]
      <4>1. CASE /\ At(c, "put", 2) /\ body' = body
                 /\ metadata' = [metadata EXCEPT ![calls[c].key] = calls[c].version]
        <5>1. body[k] = calls[c].version
          BY <2>1, <3>2, <4>1 DEF InOrderOf
        <5> QED
          BY <1>n, <3>1, <4>1, <5>1 DEF StorageTypes
      <4>2. CASE /\ At(c, "delete", 2) /\ metadata' = metadata
                 /\ body' = [body EXCEPT ![calls[c].key] = 0]
        <5>1. metadata[k] = 0
          BY <2>1, <3>2, <4>2 DEF InOrderOf
        <5> QED
          BY <1>n, <3>1, <4>2, <5>1 DEF StorageTypes
      <4> QED
        BY <1>3, <2>3, <4>1, <4>2 DEF Ends, FilesUnchanged
    <3> QED
      BY <2>1, <3>2, <3>3, <3>4 DEF InOrderOf
  <2> QED
    BY <2>2, <2>3
<1>4. ASSUME NEW c \in Callers, Reads(c), NEW k \in KeySet, ~ history'[k].raced
      PROVE  InOrderOf(k)'
  <2>1. Writers(k)' = Writers(k) /\ InOrderOf(k) /\ c \notin Writers(k)
    BY <1>4, WritersAfter DEF InOrder, Reads, Writers
  <2> QED
    BY <1>4, <1>q, <2>1 DEF Reads, FilesUnchanged
<1>5. ASSUME CutOff, NEW k \in KeySet, ~ history'[k].raced
      PROVE  InOrderOf(k)'
  <2>1. Writers(k)' = {} /\ \A g \in Callers : calls'[g].op # "get"
    BY <1>5, NoCallType DEF CutOff, Writers, Writing
  <2>2. metadata'[k] <= body'[k]
    BY <1>5 DEF CutOff, FilesUnchanged, InOrder, InOrderOf
  <2> QED
    BY <2>1, <2>2 DEF InOrderOf
<1>6. CASE Rests
  BY <1>6 DEF Rests, InOrder, InOrderOf, Writers, Writing, At
<1> QED
  BY <1>1, <1>2, <1>3, <1>4, <1>5, <1>6 DEF StorageStep, InOrder

\* What a get finds is in order too.
LEMMA NeverAheadStep ==
  ASSUME StorageTypes, CallsKnown, InOrder, MetadataNeverAhead, StorageStep, InOrder',
         StorageTypes'
  PROVE  MetadataNeverAhead'
<1>1. \A k \in KeySet : ~ history'[k].raced /\ metadata'[k] # 0 => metadata'[k] <= body'[k]
  BY DEF InOrder, InOrderOf
<1>2. ASSUME result'.op = "get", result'.at # 0, ~ history'[result'.key].raced
      PROVE  result'.version <= result'.at
  <2>1. ASSUME NEW c \in Callers, Reads(c)
        PROVE  result'.version <= result'.at
    <3>1. PICK k \in KeySet : k = calls[c].key /\ calls[c].op = "get"
      BY <1>2, <2>1 DEF Reads, CallsKnown
    <3>2. /\ result'.key = k /\ result'.version = calls[c].version /\ result'.at = body[k]
          /\ ~ history[k].raced /\ body[k] # 0
      BY <1>2, <2>1, <3>1 DEF Reads
    <3> QED
      BY <3>1, <3>2 DEF InOrder, InOrderOf
  <2>2. CASE result' = NoCall
    BY <1>2, <2>2, NoCallType
  <2>3. CASE Rests /\ result' = result
    BY <1>2, <2>3 DEF Rests, MetadataNeverAhead
  <2> QED
    BY <2>1, <2>2, <2>3 DEF StorageStep, Begins, Moves, Ends, CutOff, Rests, NoResult
<1> QED
  BY <1>1, <1>2 DEF MetadataNeverAhead

-----------------------------------------------------------------------------
(* The archive. *)

ArchiverTypes ==
  /\ next \in 0..Len(Artifacts) /\ step \in {"read", "put", "emit"} /\ stored \in Version
  /\ crashes \in 0..MaxCrashes

LEMMA ArtifactsIndexed ==
  /\ Len(Artifacts) \in Nat /\ DOMAIN Artifacts = 1..Len(Artifacts)
  /\ \A i \in DOMAIN Artifacts : Artifacts[i] \in ArtifactSet
  /\ \A a \in InSandbox : KeyOf[a] \in KeySet /\ KeyOf[a] \in ArchiveKeys
BY ArchiveAssumption, LenProperties DEF ArtifactSet, ArchiveKeys

\* What the others do is not seen by the archiver.
ArchiveQuiet ==
  /\ UNCHANGED archiveVars
  /\ versions' \in Nat /\ versions <= versions'
  /\ \A k \in ArchiveKeys : body'[k] = body[k] /\ metadata'[k] = metadata[k]
  /\ calls'[Archiver].op = calls[Archiver].op /\ calls'[Archiver].at = calls[Archiver].at
  /\ calls'[Archiver].key = calls[Archiver].key
  /\ calls'[Archiver].version = calls[Archiver].version
  /\ \A c \in Callers \ {Archiver} :
       calls'[c].op \in {"put", "delete"} => calls'[c].key \notin ArchiveKeys

LEMMA ArchiveQuietStep ==
  ASSUME StorageTypes, ArchiverTypes, ArchiverInv, ArchiveQuiet
  PROVE  ArchiverTypes' /\ ArchiverInv'
<1>1. /\ next' = next /\ step' = step /\ stored' = stored /\ results' = results
      /\ announced' = announced /\ crashes' = crashes
  BY DEF ArchiveQuiet, archiveVars
<1>2. versions \in Nat /\ versions' \in Nat /\ versions <= versions'
  BY VersionsNatural DEF ArchiveQuiet
<1>3. ArchiverWrites'
  BY <1>1, ArtifactsIndexed
     DEF ArchiverInv, ArchiverWrites, ArchiveQuiet, Writing, Underway, Source
<1>4. announced' \in [ArtifactSet -> 0..versions']
  BY <1>1, <1>2 DEF ArchiverInv, AnnouncedBehind
<1>5. AnnouncedIsKept'
  <2>1. ASSUME NEW a \in DOMAIN announced, announced[a] # 0
        PROVE  /\ metadata'[KeyOf[a]] >= announced[a]
               /\ body'[KeyOf[a]] >= announced[a]
    <3>1. a \in InSandbox /\ KeyOf[a] \in ArchiveKeys
      BY <2>1, ArtifactsIndexed DEF ArchiverInv, AnnouncedBehind
    <3> QED
      BY <2>1, <3>1 DEF ArchiverInv, AnnouncedBehind, AnnouncedIsKept, ArchiveQuiet
  <2> QED
    BY <1>1, <2>1 DEF AnnouncedIsKept
<1>6. AnnouncedBehind'
  <2>1. step = "put" => KeyOf[Source] \in ArchiveKeys
    BY ArtifactsIndexed DEF ArchiverInv, ArchiverWrites
  <2> QED
    BY <1>1, <1>4, <1>5, <2>1
       DEF ArchiverInv, AnnouncedBehind, ArchiveQuiet, At, Source
<1>7. ResultsSoFar'
  BY <1>1 DEF ArchiverInv, ResultsSoFar
<1> QED
  BY <1>1, <1>3, <1>6, <1>7 DEF ArchiverInv, ArchiverTypes, Version

LEMMA OperatorQuiet ==
  ASSUME StorageTypes, CallsKnown, ArchiverInv, NEW c \in Callers \ {Archiver}, Operator(c)
  PROVE  ArchiveQuiet
<1>0. /\ UNCHANGED archiveVars /\ versions \in Nat /\ Archiver \in Callers
      /\ \A k \in ArchiveKeys : k \in KeySet
      /\ \A d \in Callers \ {Archiver} : Writing(d) => calls[d].key \notin ArchiveKeys
  BY VersionsNatural, ArchiveAssumption
     DEF Operator, ArchiveKeys, ArchiverInv, ArchiverWrites
<1>1. ASSUME NEW k \in KeySet \ ArchiveKeys, BeginPut(c, k) \/ BeginDelete(c, k)
      PROVE  ArchiveQuiet
  <2>1. Begins(c, k)
    BY <1>1, BeginStep
  <2> QED
    BY <1>0, <1>1, <2>1 DEF ArchiveQuiet, Begins, FilesUnchanged, Writing
<1>2. CASE WriteStep(c)
  <2>1. Moves(c) \/ Ends(c)
    BY <1>2, WriteStepEffect
  <2>2. Writing(c) /\ calls[c].key \notin ArchiveKeys
    BY <1>0, <2>1 DEF Moves, Ends
  <2>3. CASE Moves(c)
    BY <1>0, <2>2, <2>3 DEF ArchiveQuiet, Moves, Writing, StorageTypes
  <2>4. CASE Ends(c)
    BY <1>0, <2>2, <2>4, NoCallType
       DEF ArchiveQuiet, Ends, Writing, StorageTypes, FilesUnchanged
  <2> QED
    BY <2>1, <2>3, <2>4
<1>3. CASE (\E k \in KeySet : ReadMetadata(c, k))
             \/ (\E limit \in Limits : ReadDirectory(c, limit)) \/ ReadStep(c)
  <2>1. Reads(c)
    BY <1>3, ArchiveAssumption, ReadBeginsStep, ReadGoesOnStep
  <2> QED
    BY <1>0, <2>1 DEF ArchiveQuiet, Reads, FilesUnchanged, Writing
<1> QED
  BY <1>1, <1>2, <1>3 DEF Operator

\* The result of one artifact is added to those before it.
LEMMA ResultStep ==
  ASSUME ArchiverTypes, ArchiverInv, Underway, NEW status \in {"stored", "failed", "skipped"},
         Result(status), (status = "skipped") = (Source \notin InSandbox),
         status = "stored" => announced'[Source] # 0,
         \A a \in ArtifactSet : announced[a] # 0 => announced'[a] # 0
  PROVE  ResultsSoFar' /\ next' \in 0..Len(Artifacts) /\ step' = "read"
<1>0. next \in 1..Len(Artifacts) /\ Len(Artifacts) \in Nat
  BY ArtifactsIndexed DEF Underway
<1>1. PICK r : r = [artifact |-> Source, status |-> status]
  OBVIOUS
<1>2. /\ r \in [artifact : ArtifactSet, status : {"stored", "failed", "skipped"}]
      /\ r.artifact = Artifacts[next] /\ r.status = status
  BY <1>1, ArtifactsIndexed DEF Source, Underway
<1>3. /\ results' = Append(results, r) /\ step' = "read"
      /\ next' = IF next = Len(Artifacts) THEN 0 ELSE next + 1
  BY <1>1 DEF Result
<1>4. /\ results \in Seq([artifact : ArtifactSet, status : {"stored", "failed", "skipped"}])
      /\ Len(results) = next - 1
  BY <1>0 DEF ArchiverInv, ResultsSoFar
<1>5. /\ results' \in Seq([artifact : ArtifactSet, status : {"stored", "failed", "skipped"}])
      /\ Len(results') = next /\ results' # << >>
      /\ \A i \in 1..(next - 1) : results'[i] = results[i]
      /\ results'[next] = r /\ DOMAIN results' = 1..next /\ DOMAIN results = 1..(next - 1)
  BY <1>0, <1>2, <1>3, <1>4
<1>6. ASSUME NEW i \in 1..next
      PROVE  /\ results'[i].artifact = Artifacts[i]
             /\ (results'[i].status = "skipped") = (Artifacts[i] \notin InSandbox)
             /\ results'[i].status = "stored" => announced'[Artifacts[i]] # 0
  <2>1. CASE i = next
    BY <1>2, <1>5, <2>1 DEF Source
  <2>2. CASE i # next
    <3>1. i \in 1..(next - 1) /\ i \in DOMAIN Artifacts
      BY <1>0, <2>2, ArtifactsIndexed
    <3>2. /\ results[i].artifact = Artifacts[i]
          /\ (results[i].status = "skipped") = (Artifacts[i] \notin InSandbox)
          /\ results[i].status = "stored" => announced[Artifacts[i]] # 0
      BY <1>5, <3>1 DEF ArchiverInv, ResultsSoFar
    <3> QED
      BY <1>5, <3>1, <3>2, ArtifactsIndexed
  <2> QED
    BY <2>1, <2>2
<1> QED
  BY <1>0, <1>3, <1>5, <1>6 DEF ResultsSoFar

\* What the archiver's own steps start from.
LEMMA ArchiverAt ==
  ASSUME StorageTypes, CallsKnown, ArchiverTypes, ArchiverInv
  PROVE  /\ versions \in Nat /\ stored \in Nat /\ calls[Archiver].version \in 0..versions
         /\ announced \in [ArtifactSet -> 0..versions] /\ DOMAIN announced = ArtifactSet
         /\ \A k \in KeySet : body[k] \in 0..versions /\ metadata[k] \in 0..versions
         /\ step # "read" => Underway
         /\ \A c \in Callers \ {Archiver} :
              calls[c].op \in {"put", "delete"} => calls[c].key \notin ArchiveKeys
         /\ Underway => Source \in ArtifactSet
<1>1. versions \in Nat /\ stored \in Nat /\ calls[Archiver].version \in Nat
  <2>1. calls[Archiver] \in Call
    BY ArchiveAssumption DEF StorageTypes
  <2>2. calls[Archiver].version \in Version /\ stored \in Version
    BY <2>1, CallFields DEF ArchiverTypes
  <2> QED
    BY <2>2, VersionsNatural, StorageAssumption DEF Version
<1>2. \A k \in KeySet : body[k] \in Version /\ metadata[k] \in Version
  BY DEF StorageTypes
<1>3. \A k \in KeySet : body[k] \in Nat /\ metadata[k] \in Nat
  BY <1>2, StorageAssumption DEF Version
<1>4. /\ calls[Archiver].version <= versions
      /\ \A k \in KeySet : body[k] <= versions /\ metadata[k] <= versions
  BY ArchiveAssumption DEF CallsKnown
<1> QED
  BY <1>1, <1>3, <1>4, ArtifactsIndexed
     DEF ArchiverInv, ArchiverWrites, AnnouncedBehind, ArchiverTypes, Writing,
         Underway, Source

\* A step of the archiver that leaves the storage and what it announced alone.
LEMMA PausedStep ==
  ASSUME StorageTypes, CallsKnown, ArchiverTypes, ArchiverInv, NoStorageStep,
         announced' = announced, step' = "read", calls[Archiver].op = "none"
  PROVE  ArchiverWrites' /\ AnnouncedBehind'
<1>1. /\ body' = body /\ metadata' = metadata /\ calls' = calls /\ versions' = versions
  BY DEF NoStorageStep
<1>2. ArchiverWrites'
  BY <1>1, ArchiverAt DEF ArchiverWrites, Writing
<1> QED
  BY <1>1, <1>2 DEF ArchiverInv, AnnouncedBehind, AnnouncedIsKept

LEMMA StartArchiveStep ==
  ASSUME StorageTypes, CallsKnown, ArchiverTypes, ArchiverInv, StartArchive
  PROVE  ArchiverTypes' /\ ArchiverInv'
<1>1. /\ next = 0 /\ next' = 1 /\ step' = "read" /\ results' = << >> /\ NoStorageStep
      /\ stored' = stored /\ announced' = announced /\ crashes' = crashes /\ Artifacts # << >>
  BY DEF StartArchive
<1>2. step = "read" /\ calls[Archiver].op = "none"
  <2>1. ~ Underway
    BY <1>1, ArtifactsIndexed DEF Underway
  <2> QED
    BY <2>1, ArchiverAt DEF ArchiverInv, ArchiverWrites
<1>3. 1 \in 0..Len(Artifacts)
  BY <1>1, ArtifactsIndexed, ArchiveAssumption, EmptySeq
<1>4. ResultsSoFar'
  BY <1>1, EmptySeq DEF ResultsSoFar
<1> QED
  BY <1>1, <1>2, <1>3, <1>4, PausedStep DEF ArchiverTypes, ArchiverInv, Version

LEMMA SkipArtifactStep ==
  ASSUME StorageTypes, CallsKnown, ArchiverTypes, ArchiverInv, SkipArtifact
  PROVE  ArchiverTypes' /\ ArchiverInv'
<1>1. /\ Underway /\ step = "read" /\ Source \notin InSandbox /\ Result("skipped")
      /\ NoStorageStep /\ stored' = stored /\ announced' = announced /\ crashes' = crashes
  BY DEF SkipArtifact
<1>2. calls[Archiver].op = "none"
  BY <1>1 DEF ArchiverInv, ArchiverWrites
<1>3. ResultsSoFar' /\ next' \in 0..Len(Artifacts) /\ step' = "read"
  BY <1>1, ResultStep
<1> QED
  BY <1>1, <1>2, <1>3, PausedStep DEF ArchiverTypes, ArchiverInv, Version

LEMMA ReadArtifactStep ==
  ASSUME StorageTypes, CallsKnown, ArchiverTypes, ArchiverInv, ReadArtifact
  PROVE  ArchiverTypes' /\ ArchiverInv'
<1>1. /\ Underway /\ step = "read" /\ Source \in InSandbox
      /\ stored' = stored /\ announced' = announced /\ crashes' = crashes
  BY DEF ReadArtifact
<1>2. calls[Archiver].op = "none"
  BY <1>1 DEF ArchiverInv, ArchiverWrites
<1>3. CASE Result("failed") /\ NoStorageStep
  <2>1. ResultsSoFar' /\ next' \in 0..Len(Artifacts) /\ step' = "read"
    BY <1>1, <1>3, ResultStep
  <2> QED
    BY <1>1, <1>2, <1>3, <2>1, PausedStep DEF ArchiverTypes, ArchiverInv, Version
<1>4. CASE /\ BeginPut(Archiver, KeyOf[Source]) /\ step' = "put"
           /\ next' = next /\ results' = results
  <2>1. PICK key \in KeySet : key = KeyOf[Source] /\ key \in ArchiveKeys
    BY <1>1, ArtifactsIndexed
  <2>2. /\ Begins(Archiver, key) /\ calls'[Archiver].op = "put" /\ versions' = versions + 1
    BY <1>4, <2>1, ArchiveAssumption, BeginStep
  <2>3. /\ calls'[Archiver].key = key /\ calls'[Archiver].version = versions + 1
        /\ calls'[Archiver].at = 1 /\ body' = body /\ metadata' = metadata
        /\ \A c \in Callers \ {Archiver} :
             calls'[c].op = calls[c].op /\ calls'[c].key = calls[c].key
    BY <2>2 DEF Begins, FilesUnchanged
  <2>4. Underway' /\ Source' = Source
    BY <1>1, <1>4 DEF Underway, Source
  <2>5. ArchiverWrites'
    BY <1>1, <1>4, <2>1, <2>2, <2>3, <2>4, ArchiverAt DEF ArchiverWrites, Writing
  <2>6. /\ announced' \in [ArtifactSet -> 0..versions']
        /\ \A a \in ArtifactSet : announced'[a] <= calls'[Archiver].version
    BY <1>1, <2>2, <2>3, ArchiverAt
  <2>7. AnnouncedBehind'
    <3>1. calls'[Archiver].version # 0 /\ ~ At(Archiver, "put", 2)'
      BY <2>3, ArchiverAt DEF At
    <3>2. \A a \in ArtifactSet : announced'[a] # 0 => a \in InSandbox
      BY <1>1 DEF ArchiverInv, AnnouncedBehind
    <3>3. AnnouncedIsKept'
      BY <1>1, <2>3 DEF ArchiverInv, AnnouncedBehind, AnnouncedIsKept
    <3> QED
      BY <2>6, <3>1, <3>2, <3>3 DEF AnnouncedBehind
  <2>8. ResultsSoFar'
    BY <1>1, <1>4 DEF ArchiverInv, ResultsSoFar
  <2> QED
    BY <1>1, <1>4, <2>5, <2>7, <2>8 DEF ArchiverTypes, ArchiverInv, Version
<1> QED
  BY <1>3, <1>4 DEF ReadArtifact

LEMMA PutArtifactStep ==
  ASSUME StorageTypes, CallsKnown, ArchiverTypes, ArchiverInv, PutArtifact
  PROVE  ArchiverTypes' /\ ArchiverInv'
<1>1. /\ Underway /\ step = "put" /\ stored' = calls[Archiver].version
      /\ announced' = announced /\ crashes' = crashes
  BY DEF PutArtifact
<1>2. PICK key \in KeySet : key = KeyOf[Source] /\ key \in ArchiveKeys
  BY <1>1, ArtifactsIndexed DEF ArchiverInv, ArchiverWrites
<1>3. /\ Source \in InSandbox /\ calls[Archiver].op = "put" /\ calls[Archiver].key = key
      /\ calls[Archiver].version # 0
      /\ At(Archiver, "put", 2) => body[key] = calls[Archiver].version
  BY <1>1, <1>2 DEF ArchiverInv, ArchiverWrites, AnnouncedBehind
<1>4. /\ calls[Archiver] \in Call /\ calls[Archiver].version \in Version
      /\ \A a \in ArtifactSet :
           announced[a] # 0 => /\ a \in InSandbox /\ KeyOf[a] \in KeySet
                               /\ announced[a] <= calls[Archiver].version
                               /\ metadata[KeyOf[a]] >= announced[a]
                               /\ body[KeyOf[a]] >= announced[a]
  BY <1>1, ArchiveAssumption, CallFields
     DEF StorageTypes, ArchiverInv, AnnouncedBehind, AnnouncedIsKept
<1>5. ASSUME Moves(Archiver) \/ Ends(Archiver)
      PROVE  /\ versions' = versions
             /\ \A c \in Callers \ {Archiver} :
                  Writing(c)' => calls'[c].key \notin ArchiveKeys
             /\ announced' \in [ArtifactSet -> 0..versions']
             /\ \A a \in ArtifactSet : announced'[a] # 0 => a \in InSandbox
             /\ DOMAIN announced' = ArtifactSet
  BY <1>1, <1>4, <1>5, ArchiverAt DEF Moves, Ends, Writing
<1>6. CASE WriteBody(Archiver) /\ UNCHANGED << next, step, results >>
  <2>1. Moves(Archiver)
    BY <1>6, ArchiveAssumption, MoveStep
  <2>2. /\ calls'[Archiver].op = "put" /\ calls'[Archiver].key = key
        /\ calls'[Archiver].version = calls[Archiver].version
        /\ metadata' = metadata /\ body' = [body EXCEPT ![key] = calls[Archiver].version]
    BY <1>3, <2>1 DEF Moves
  <2>3. Underway' /\ Source' = Source /\ step' = "put"
    BY <1>1, <1>6 DEF Underway, Source
  <2>4. ArchiverWrites'
    BY <1>2, <1>3, <1>5, <2>1, <2>2, <2>3 DEF ArchiverWrites
  <2>5. body'[key] = calls[Archiver].version /\ \A k \in KeySet \ {key} : body'[k] = body[k]
    BY <2>2 DEF StorageTypes
  <2>6. AnnouncedIsKept'
    BY <1>1, <1>4, <1>5, <2>1, <2>2, <2>5 DEF AnnouncedIsKept
  <2>7. AnnouncedBehind'
    BY <1>1, <1>2, <1>3, <1>4, <1>5, <2>1, <2>2, <2>3, <2>5, <2>6 DEF AnnouncedBehind
  <2>8. ResultsSoFar'
    BY <1>1, <1>6 DEF ArchiverInv, ResultsSoFar
  <2> QED
    BY <1>1, <1>4, <1>6, <2>4, <2>7, <2>8 DEF ArchiverTypes, ArchiverInv, Version
<1>7. CASE WriteMetadata(Archiver) /\ step' = "emit" /\ UNCHANGED << next, results >>
  <2>1. Ends(Archiver)
    BY <1>7, ArchiveAssumption, EndStep
  <2>2. /\ calls'[Archiver] = NoCall /\ body' = body
        /\ metadata' = [metadata EXCEPT ![key] = calls[Archiver].version]
        /\ body[key] = calls[Archiver].version
    BY <1>3, <1>7, <2>1 DEF Ends, WriteMetadata
  <2>3. Underway' /\ Source' = Source
    BY <1>1, <1>7 DEF Underway, Source
  <2>4. /\ metadata'[key] = calls[Archiver].version
        /\ \A k \in KeySet \ {key} : metadata'[k] = metadata[k]
    BY <2>2 DEF StorageTypes
  <2>5. ArchiverWrites'
    BY <1>1, <1>2, <1>3, <1>5, <1>7, <2>1, <2>2, <2>3, <2>4, NoCallType DEF ArchiverWrites
  <2>6. AnnouncedIsKept'
    BY <1>1, <1>4, <1>5, <2>1, <2>2, <2>4 DEF AnnouncedIsKept
  <2>7. AnnouncedBehind'
    BY <1>5, <1>7, <2>1, <2>6 DEF AnnouncedBehind
  <2>8. ResultsSoFar'
    BY <1>1, <1>7 DEF ArchiverInv, ResultsSoFar
  <2> QED
    BY <1>1, <1>4, <1>7, <2>5, <2>7, <2>8 DEF ArchiverTypes, ArchiverInv, Version
<1>8. CASE WriteFails(Archiver) /\ Result("failed")
  <2>1. Ends(Archiver) /\ body' = body /\ metadata' = metadata
    BY <1>8, ArchiveAssumption, EndStep DEF WriteFails, FilesUnchanged
  <2>2. ResultsSoFar' /\ next' \in 0..Len(Artifacts) /\ step' = "read"
    BY <1>1, <1>3, <1>8, ResultStep
  <2>3. calls'[Archiver].op = "none"
    BY <2>1, NoCallType DEF Ends
  <2>4. ArchiverWrites'
    BY <1>5, <2>1, <2>2, <2>3 DEF ArchiverWrites
  <2>5. AnnouncedBehind'
    BY <1>1, <1>4, <1>5, <2>1, <2>2 DEF AnnouncedBehind, AnnouncedIsKept
  <2> QED
    BY <1>1, <1>4, <2>2, <2>4, <2>5 DEF ArchiverTypes, ArchiverInv, Version
<1> QED
  BY <1>6, <1>7, <1>8 DEF PutArtifact

LEMMA AnnounceStep ==
  ASSUME StorageTypes, CallsKnown, ArchiverTypes, ArchiverInv, Announce
  PROVE  ArchiverTypes' /\ ArchiverInv'
<1>1. /\ Underway /\ step = "emit" /\ NoStorageStep /\ stored' = stored /\ crashes' = crashes
  BY DEF Announce
<1>2. /\ Source \in InSandbox /\ stored # 0 /\ calls[Archiver].op = "none"
      /\ body[KeyOf[Source]] = stored /\ metadata[KeyOf[Source]] = stored
      /\ KeyOf[Source] \in KeySet /\ Source \in ArtifactSet
  BY <1>1, ArchiverAt, ArtifactsIndexed DEF ArchiverInv, ArchiverWrites
<1>3. CASE Result("failed") /\ announced' = announced
  <2>1. ResultsSoFar' /\ next' \in 0..Len(Artifacts) /\ step' = "read"
    BY <1>1, <1>2, <1>3, ResultStep
  <2> QED
    BY <1>1, <1>2, <1>3, <2>1, PausedStep DEF ArchiverTypes, ArchiverInv, Version
<1>4. CASE Result("stored") /\ announced' = [announced EXCEPT ![Source] = stored]
  <2>1. /\ announced'[Source] = stored
        /\ \A a \in ArtifactSet \ {Source} : announced'[a] = announced[a]
        /\ announced' \in [ArtifactSet -> 0..versions]
        /\ DOMAIN announced' = ArtifactSet
    BY <1>2, <1>4, ArchiverAt
  <2>2. ResultsSoFar' /\ next' \in 0..Len(Artifacts) /\ step' = "read"
    BY <1>1, <1>2, <1>4, <2>1, ResultStep
  <2>3. /\ body' = body /\ metadata' = metadata /\ calls' = calls /\ versions' = versions
    BY <1>1 DEF NoStorageStep
  <2>4. ArchiverWrites'
    BY <1>2, <2>2, <2>3, ArchiverAt DEF ArchiverWrites, Writing
  <2>5. ASSUME NEW a \in ArtifactSet, announced'[a] # 0
        PROVE  /\ a \in InSandbox
               /\ metadata'[KeyOf[a]] >= announced'[a] /\ body'[KeyOf[a]] >= announced'[a]
    <3>1. CASE a = Source
      BY <1>2, <2>1, <2>3, <3>1, ArchiverAt
    <3>2. CASE a # Source
      BY <2>1, <2>3, <2>5, <3>2, ArchiverAt
         DEF ArchiverInv, AnnouncedBehind, AnnouncedIsKept
    <3> QED
      BY <3>1, <3>2
  <2>6. AnnouncedBehind'
    BY <2>1, <2>2, <2>3, <2>5 DEF AnnouncedBehind, AnnouncedIsKept
  <2> QED
    BY <1>1, <2>2, <2>4, <2>6 DEF ArchiverTypes, ArchiverInv, Version
<1> QED
  BY <1>3, <1>4 DEF Announce

LEMMA ArchiveCrashStep ==
  ASSUME StorageTypes, CallsKnown, ArchiverTypes, ArchiverInv, Crash
  PROVE  ArchiverTypes' /\ ArchiverInv'
<1>1. /\ next' = 0 /\ step' = "read" /\ stored' = 0 /\ results' = << >>
      /\ announced' = announced /\ crashes' = crashes + 1 /\ crashes < MaxCrashes
  BY DEF Crash
<1>2. /\ body' = body /\ metadata' = metadata /\ versions' = versions
      /\ \A c \in Callers : calls'[c] = NoCall
  BY CrashStep DEF Crash, CutOff, FilesUnchanged
<1>3. ArchiverWrites'
  BY <1>1, <1>2, NoCallType, ArchiveAssumption DEF ArchiverWrites, Writing
<1>4. AnnouncedBehind'
  BY <1>1, <1>2 DEF ArchiverInv, AnnouncedBehind, AnnouncedIsKept
<1>5. ResultsSoFar'
  BY <1>1, EmptySeq DEF ResultsSoFar
<1>6. ArchiverTypes'
  BY <1>1, ArtifactsIndexed, StorageAssumption, ArchiveAssumption DEF ArchiverTypes, Version
<1> QED
  BY <1>3, <1>4, <1>5, <1>6 DEF ArchiverInv

-----------------------------------------------------------------------------
(* Every step. *)

ArchiveInductive ==
  StorageTypes /\ ArchiverTypes /\ StorageInv /\ ArchiverInv

LEMMA ArchiveInit == Init => ArchiveInductive
<1> SUFFICES ASSUME Init PROVE ArchiveInductive
  OBVIOUS
<1>1. /\ body = [k \in KeySet |-> 0] /\ metadata = [k \in KeySet |-> 0]
      /\ calls = [c \in Callers |-> NoCall] /\ versions = 0 /\ result = NoCall
      /\ history = [k \in KeySet |-> History]
      /\ next = 0 /\ step = "read" /\ stored = 0 /\ results = << >> /\ crashes = 0
      /\ announced = [a \in ArtifactSet |-> 0]
  BY DEF Init, StorageInit, ArtifactSet
<1>2. History \in [last : Version, disturbed : BOOLEAN, raced : BOOLEAN]
  BY NoCallType DEF History
<1>3. StorageTypes
  BY <1>1, <1>2, NoCallType DEF StorageTypes
<1>4. ArchiverTypes
  BY <1>1, NoCallType, ArtifactsIndexed, ArchiveAssumption DEF ArchiverTypes
<1>5. \A k \in KeySet : Writers(k) = {}
  BY <1>1, NoCallType DEF Writers, Writing
<1>6. CallsKnown
  BY <1>1, NoCallType DEF CallsKnown, Writing
<1>7. AloneWrites
  BY <1>1, NoCallType DEF AloneWrites, AloneWrite, Writing
<1>8. FilesInStep
  BY <1>1 DEF FilesInStep, History
<1>9. InOrder
  BY <1>1, <1>5, NoCallType DEF InOrder, InOrderOf
<1>10. MetadataNeverAhead
  BY <1>1, NoCallType DEF MetadataNeverAhead
<1>11. ArchiverWrites
  BY <1>1, NoCallType, ArchiveAssumption DEF ArchiverWrites, Writing
<1>12. AnnouncedBehind
  BY <1>1 DEF AnnouncedBehind, AnnouncedIsKept
<1>13. ResultsSoFar
  BY <1>1, EmptySeq DEF ResultsSoFar
<1> QED
  BY <1>3, <1>4, <1>6, <1>7, <1>8, <1>9, <1>10, <1>11, <1>12, <1>13
     DEF ArchiveInductive, StorageInv, ArchiverInv

LEMMA ArchiverStep ==
  ASSUME StorageTypes, CallsKnown, ArchiverTypes, ArchiverInv, [Next]_vars
  PROVE  ArchiverTypes' /\ ArchiverInv'
<1>1. ASSUME NEW c \in Callers \ {Archiver}, Operator(c)
      PROVE  ArchiverTypes' /\ ArchiverInv'
  BY <1>1, OperatorQuiet, ArchiveQuietStep
<1>2. CASE UNCHANGED vars
  <2>1. ArchiveQuiet
    BY <1>2, VersionsNatural
       DEF vars, storageVars, archiveVars, ArchiveQuiet, ArchiverInv, ArchiverWrites, Writing
  <2> QED
    BY <2>1, ArchiveQuietStep
<1> QED
  BY <1>1, <1>2, StartArchiveStep, SkipArtifactStep, ReadArtifactStep, PutArtifactStep,
     AnnounceStep, ArchiveCrashStep DEF Next

LEMMA ArchiveStep == ArchiveInductive /\ [Next]_vars => ArchiveInductive'
<1> SUFFICES ASSUME ArchiveInductive, [Next]_vars PROVE ArchiveInductive'
  OBVIOUS
<1>1. /\ StorageTypes /\ ArchiverTypes /\ ArchiverInv
      /\ CallsKnown /\ AloneWrites /\ FilesInStep /\ InOrder /\ MetadataNeverAhead
  BY DEF ArchiveInductive, StorageInv
<1>2. StorageTypes' /\ StorageStep
  BY <1>1, NextStorage
<1>3. CallsKnown'
  BY <1>1, <1>2, CallsKnownStep
<1>4. AloneWrites' /\ FilesInStep'
  BY <1>1, <1>2, AloneStep
<1>5. InOrder'
  BY <1>1, <1>2, InOrderStep
<1>6. MetadataNeverAhead'
  BY <1>1, <1>2, <1>5, NeverAheadStep
<1>7. ArchiverTypes' /\ ArchiverInv'
  BY <1>1, ArchiverStep
<1> QED
  BY <1>2, <1>3, <1>4, <1>5, <1>6, <1>7 DEF ArchiveInductive, StorageInv

LEMMA ArchiveInvariant == Spec => []ArchiveInductive
<1> QED
  BY ArchiveInit, ArchiveStep, PTL DEF Spec

\* The two files of an object stay together: once the last write of it ran to its end by itself,
\* they are those that write left, whatever else is read, written or cut off.
THEOREM StorageFilesInStep == Spec => []FilesInStep
<1>1. ArchiveInductive => FilesInStep
  BY DEF ArchiveInductive, StorageInv
<1> QED
  BY <1>1, ArchiveInvariant, PTL

\* Neither a crash, nor a failure, nor a get that overlaps a write finds metadata without its
\* body, as long as no two writes of the object overlap.
THEOREM StorageMetadataNeverAhead == Spec => []MetadataNeverAhead
<1>1. ArchiveInductive => MetadataNeverAhead
  BY DEF ArchiveInductive, StorageInv
<1> QED
  BY <1>1, ArchiveInvariant, PTL

\* What the archive announced is kept, and it answers for every artifact, through every failure,
\* crash and repetition of the archiving.
THEOREM ArchiveKeepsItsWord == Spec => []ArchiveInv
<1>1. ASSUME ArchiveInductive
      PROVE  ArchiveInv
  <2>1. StorageTypeOK
    BY <1>1 DEF ArchiveInductive, StorageTypes, ArchiverTypes, StorageTypeOK
  <2>2. AnnouncedIsKept
    BY <1>1 DEF ArchiveInductive, ArchiverInv, AnnouncedBehind
  <2>3. EveryArtifactAnswered
    <3>1. ASSUME next = 0, results # << >>
          PROVE  DOMAIN results = DOMAIN Artifacts /\ Len(results) = Len(Artifacts)
      <4>1. Len(results) = Len(Artifacts) /\ DOMAIN results = 1..Len(results)
        BY <1>1, <3>1, LenProperties DEF ArchiveInductive, ArchiverInv, ResultsSoFar
      <4> QED
        BY <4>1, ArtifactsIndexed
    <3> QED
      BY <1>1, <3>1
         DEF ArchiveInductive, ArchiverInv, ResultsSoFar, EveryArtifactAnswered
  <2> QED
    BY <2>1, <2>2, <2>3 DEF ArchiveInv
<1> QED
  BY <1>1, ArchiveInvariant, PTL
=============================================================================
