------------------------------ MODULE OCIDriver ------------------------------
(***************************************************************************)
(* The oci driver.  The key is a tag of the class's repository; a tag      *)
(* names a manifest by its digest and others may move it at any time.      *)
(* Delete resolves the tag, deletes the manifest, then the tag.            *)
(***************************************************************************)
EXTENDS DriverCall

CONSTANTS
  Labelled,   \* the images that are stamped with a label and not an annotation
  Indexes     \* the manifests that are an index and have no config to label

ASSUME ImageAssumption == Labelled \cap Indexes = {}

VARIABLES
  tags,       \* the digest that each tag names, 0 for none
  manifests   \* the manifests that exist

registry == <<tags, manifests>>

\* The Artifact's tag and one of somebody else in the repository.
Tags == {"key", "other"}

\* The stamp in the manifest's own annotations.
Annotation(n) == IF n \in Labelled THEN "none" ELSE stamps[n]

\* Faulty variant: labels are never looked at.
NeverLabelled(n) == FALSE

IsImageManifest(n) == n \notin Indexes

\* What a tag resolves to: a tag may outlive its manifest.
Resolve(t) == IF tags[t] \in manifests THEN tags[t] ELSE 0

\* remote.Get; without an annotation, and with a config to look at, the stamp may
\* be a label.
OCIObserve ==
  LET n == Resolve("key")
  IN  /\ At("oci", "observe")
      /\ IF n # 0 /\ Annotation(n) = "none" /\ IsImageManifest(n)
         THEN pc' = "config" /\ observed' = n /\ UNCHANGED <<ref, faults>>
         ELSE Observed(n, Annotation(n), StampMetadataKey(class))
      /\ UNCHANGED registry

\* The config of the manifest that was read, whatever the tag names by now.
OCIConfigFile ==
  /\ At("oci", "config") /\ ObservedWithMetadata(observed)
  /\ UNCHANGED registry

OCIHead ==
  /\ At("oci", "delete")
  /\ IF Resolve("key") = 0 THEN ReturnNil ELSE ref' = Resolve("key") /\ Proceed("manifest")
  /\ UNCHANGED registry

\* Faulty variant: the manifest that the tag names by now.
ManifestDeletedByTag ==
  /\ manifests' = manifests \ {tags["key"]}
  /\ UNCHANGED tags

\* Some registries retire the tags of a manifest with it.
ManifestDeleted ==
  /\ manifests' = manifests \ {ref}
  /\ tags' = [t \in Tags |-> IF class.retires /\ tags[t] = ref THEN 0 ELSE tags[t]]

OCIDeleteManifest ==
  /\ At("oci", "manifest") /\ ManifestDeleted
  /\ Proceed("tag") /\ UNCHANGED ref

\* Faulty variant: with the manifest gone the tag is taken to be gone too.
OCITagLeft ==
  /\ At("oci", "tag") /\ ReturnNil
  /\ UNCHANGED registry

TagDeleted == tags' = [tags EXCEPT !["key"] = 0] /\ UNCHANGED manifests

\* A registry that refuses to delete tags is ignored.
OCIDeleteTag ==
  /\ At("oci", "tag") /\ ReturnNil
  /\ IF class.tagDelete THEN TagDeleted ELSE UNCHANGED registry

OCIFails ==
  /\ CallFails /\ class.driver = "oci"
  /\ \/ pc \in {"observe", "config", "delete", "manifest", "tag"} /\ UNCHANGED registry
     \/ pc = "manifest" /\ ManifestDeleted
     \/ pc = "tag" /\ class.tagDelete /\ TagDeleted

OCIStep ==
  \/ OCIObserve \/ OCIConfigFile \/ OCIHead \/ OCIDeleteManifest \/ OCIDeleteTag
  \/ OCIFails

\* Others push an image, or one that was there before, or move or delete a tag.
OCIUse(t) ==
  /\ class.driver = "oci"
  /\ \E n \in 0..MaxPuts :
       /\ n <= puts + 1
       /\ puts' = IF n > puts THEN n ELSE puts
       /\ tags' = [tags EXCEPT ![t] = n] /\ manifests' = manifests \cup ({n} \ {0})
  /\ UNCHANGED <<object, call>>

OCIInit == tags = [t \in Tags |-> 0] /\ manifests = {}

OCITypeOK == tags \in [Tags -> 0..puts] /\ manifests \subseteq 1..puts
=============================================================================
