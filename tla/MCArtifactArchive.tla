------------------------- MODULE MCArtifactArchive --------------------------
(* A report in the sandbox, followed by an artifact that is in persistent storage already; one
   object of the other callers, whose names do not matter. *)
EXTENDS ArtifactArchiveProperties

CONSTANTS archiver, a, b

MCKeys == <<"notes", "report">>
MCArtifacts == <<"reportArtifact", "storedArtifact">>
MCKeyOf == [x \in {"reportArtifact", "storedArtifact"} |-> "report"]
Symmetry == Permutations({a, b})
=============================================================================
