---------------------------- MODULE MCReconciler ----------------------------
(***************************************************************************)
(* Values of ArtifactReconciler's constants for model checking.            *)
(***************************************************************************)
EXTENDS ArtifactReconciler

Artifact == [NoSpec EXCEPT !.exists = TRUE]

FullArtifact == {Artifact}
DeleteArtifacts == {[Artifact EXCEPT !.deletionPolicy = "Delete"]}
EndingArtifacts ==
  {[Artifact EXCEPT !.deletionPolicy = "Delete"], [Artifact EXCEPT !.ttl = TRUE]}
AgingArtifacts ==
  {[Artifact EXCEPT !.deletionPolicy = "Delete", !.ttl = t, !.deleteAfter = d] :
     t \in BOOLEAN, d \in BOOLEAN}

WorkingClass ==
  [exists |-> TRUE, driver |-> TRUE, keyTemplate |-> TRUE, generator |-> TRUE,
   template |-> TRUE, deadline |-> TRUE, drift |-> "Warn", maxAttempts |-> 2]

ClassVersions ==
  {WorkingClass, [WorkingClass EXCEPT !.exists = FALSE],
   [WorkingClass EXCEPT !.driver = FALSE], [WorkingClass EXCEPT !.keyTemplate = FALSE],
   [WorkingClass EXCEPT !.generator = FALSE],
   [WorkingClass EXCEPT !.template = FALSE, !.drift = "Ignore"],
   [WorkingClass EXCEPT !.drift = "Regenerate", !.maxAttempts = 1]}
OneClass == {WorkingClass}
RegenerateClass == {[WorkingClass EXCEPT !.drift = "Regenerate"]}

Put(d, s) == [present |-> TRUE, digest |-> d, stamp |-> s]
Nothing == {}
OneProducer == {Put(-1, "ours")}
TwoProducers == {Put(-1, "ours"), Put(-2, "ours")}
AllStamps == {Put(-1, "ours"), Put(-2, "none"), Put(-3, "foreign")}
OursAndForeign == {Put(-1, "ours"), Put(-3, "foreign")}
=============================================================================
