-------------------------- MODULE RepoManagerDriver --------------------------
(***************************************************************************)
(* The repository manager drivers.  Artifactory serves an operation with   *)
(* one request.  Nexus keeps no metadata, so that no object carries a      *)
(* stamp, and deletes an asset by the id that a search returned; the id of *)
(* an asset is never used again, and new content at its path keeps it.     *)
(***************************************************************************)
EXTENDS DriverCall

ArtifactoryObserve ==
  /\ At("artifactory", "observe") /\ ObservedWithMetadata(object)
  /\ UNCHANGED object

ArtifactoryDelete ==
  /\ At("artifactory", "delete") /\ ReturnNil
  /\ object' = 0

\* A search without a result means that the key is empty.
NexusObserve ==
  /\ At("nexus", "observe") /\ Observed(object, "none", "unset")
  /\ UNCHANGED object

NexusSearch ==
  /\ At("nexus", "delete")
  /\ IF object = 0 THEN ReturnNil ELSE ref' = object /\ Proceed("asset")
  /\ UNCHANGED object

\* Faulty variant: the asset that is at the path now.
NexusDeleteByPath ==
  /\ At("nexus", "asset") /\ ReturnNil
  /\ object' = 0

\* An asset that is gone already is no error.
NexusDelete ==
  /\ At("nexus", "asset") /\ ReturnNil
  /\ object' = IF object = ref THEN 0 ELSE object

\* A failing request, or an answer that is neither success nor 404.
RepoManagerFails ==
  /\ CallFails
  /\ \/ At("artifactory", "observe") /\ UNCHANGED object
     \/ At("artifactory", "delete") /\ object' \in {object, 0}
     \/ class.driver = "nexus" /\ pc \in {"observe", "delete"} /\ UNCHANGED object
     \/ At("nexus", "asset") /\ object' \in {object, IF object = ref THEN 0 ELSE object}

RepoManagerStep ==
  \/ ArtifactoryObserve \/ ArtifactoryDelete
  \/ NexusObserve \/ NexusSearch \/ NexusDelete \/ RepoManagerFails
=============================================================================
