------------------------------ MODULE AMIDriver ------------------------------
(***************************************************************************)
(* The ami driver.  Delete is three kinds of EC2 call, with other users of *)
(* the image name free to act between them.                                *)
(***************************************************************************)
EXTENDS DriverCall

CONSTANTS
  Devices,          \* block devices of an image
  Ephemeral,        \* those of them without a snapshot
  deleteSnapshots   \* store.ami.deleteSnapshots of the class

ASSUME DeviceAssumption == Ephemeral \subseteq Devices /\ deleteSnapshots \in BOOLEAN

\* Snapshot ids; <<0, d>> is the empty id that a device without one reports.
SnapshotIDs == (0..MaxPuts) \X Devices

VARIABLES
  image,      \* the image of the name, id 0 for none
  snapshots,  \* the snapshots that exist
  todo,       \* the snapshots that Delete has still to delete
  removed     \* the images that Delete has deregistered (history only)

ec2 == <<image, snapshots, removed>>
ami == <<image, snapshots, todo, removed>>

NoImage == [id |-> 0, state |-> "absent"]

BlockDevices(i) == {<<IF d \in Ephemeral THEN 0 ELSE i, d>> : d \in Devices}

\* The snapshots that image i is made of.
Backing(i) == {s \in BlockDevices(i) : s[1] # 0}

\* An error is returned at the given step.
AMIFails(at) == At("ami", at) /\ CallFails /\ todo' = {}

-----------------------------------------------------------------------------
\* An image that cannot be launched yet is observed as absent.
AMIObserve ==
  /\ At("ami", "observe")
  /\ ObservedWithMetadata(IF image.state = "available" THEN image.id ELSE 0)
  /\ UNCHANGED ami

AMIObserveFails == AMIFails("observe") /\ UNCHANGED ec2

AlreadyGone ==
  /\ At("ami", "delete") /\ image.id = 0
  /\ ReturnNil /\ UNCHANGED ami

\* Faulty variant: devices without a snapshot are not skipped.
DescribeAllDevices ==
  /\ At("ami", "delete") /\ image.id # 0
  /\ ref' = image.id
  /\ todo' = IF deleteSnapshots THEN BlockDevices(image.id) ELSE {}
  /\ Proceed("deregister") /\ UNCHANGED ec2

\* The snapshot ids are collected first.
Describe ==
  /\ At("ami", "delete") /\ image.id # 0
  /\ ref' = image.id
  /\ todo' = IF deleteSnapshots THEN Backing(image.id) ELSE {}
  /\ Proceed("deregister") /\ UNCHANGED ec2

DescribeFails == AMIFails("delete") /\ UNCHANGED ec2

DeregisterImage == image.id = ref /\ image' = NoImage /\ removed' = removed \cup {ref}

Deregister ==
  /\ At("ami", "deregister") /\ DeregisterImage
  /\ Proceed("snapshots") /\ UNCHANGED <<snapshots, ref, todo>>

\* Faulty variant: the same id is tried again and again.
DeregisterAgain ==
  /\ At("ami", "deregister") /\ image.id # ref
  /\ Proceed("deregister") /\ UNCHANGED <<ami, ref>>

\* The image went away, and perhaps another took its name: the id is unknown.
DeregisterUnknown ==
  /\ At("ami", "deregister") /\ image.id # ref
  /\ ReturnError /\ todo' = {} /\ UNCHANGED <<ec2, faults>>

\* Faulty variant: the error is ignored.
DeregisterIgnored ==
  /\ At("ami", "deregister") /\ faults < MaxFaults /\ faults' = faults + 1
  /\ pc' = "snapshots" /\ UNCHANGED <<ami, observed, ref>>

DeregisterFails ==
  /\ AMIFails("deregister")
  /\ DeregisterImage \/ UNCHANGED <<image, removed>>
  /\ UNCHANGED snapshots

DeleteSnapshot(s) ==
  /\ At("ami", "snapshots") /\ s \in todo
  /\ snapshots' = snapshots \ {s} /\ todo' = todo \ {s}
  /\ UNCHANGED <<image, removed, call>>

DeleteSnapshotFails(s) ==
  /\ s \in todo /\ AMIFails("snapshots")
  /\ snapshots' \in {snapshots, snapshots \ {s}}
  /\ UNCHANGED <<image, removed>>

SnapshotsDone ==
  /\ At("ami", "snapshots") /\ todo = {}
  /\ ReturnNil /\ UNCHANGED ami

AMIStep ==
  \/ AMIObserve \/ AMIObserveFails \/ AlreadyGone \/ Describe \/ DescribeFails
  \/ Deregister \/ DeregisterUnknown \/ DeregisterFails \/ SnapshotsDone
  \/ \E s \in SnapshotIDs : DeleteSnapshot(s) \/ DeleteSnapshotFails(s)

-----------------------------------------------------------------------------
OthersUseEC2 == class.driver = "ami" /\ UNCHANGED <<call, object, todo, removed>>

\* A generator run builds an image under the name.
RegisterImage ==
  /\ OthersUseEC2 /\ image.id = 0 /\ puts < MaxPuts
  /\ puts' = puts + 1
  /\ image' = [id |-> puts', state |-> "pending"]
  /\ snapshots' = snapshots \cup Backing(puts')

BecomeAvailable ==
  /\ OthersUseEC2 /\ image.state = "pending"
  /\ image' = [image EXCEPT !.state = "available"]
  /\ UNCHANGED <<snapshots, puts>>

DeregisterByHand ==
  /\ OthersUseEC2 /\ image.id # 0 /\ image' = NoImage
  /\ UNCHANGED <<snapshots, puts>>

EC2Use == RegisterImage \/ BecomeAvailable \/ DeregisterByHand

AMIInit == image = NoImage /\ snapshots = {} /\ todo = {} /\ removed = {}

AMITypeOK ==
  /\ image \in [id : 0..puts, state : {"absent", "pending", "available"}]
  /\ image.id = 0 <=> image.state = "absent"
  /\ snapshots \subseteq SnapshotIDs
  /\ todo \subseteq {s \in SnapshotIDs : s[1] # 0}
  /\ removed \subseteq 0..puts

-----------------------------------------------------------------------------
\* An image that is registered has all the snapshots it is made of: Delete takes
\* the snapshots of no image but one that it has seen deregistered, although an
\* image may be replaced, and a call may fail, at any time during a Delete.
ImageKeepsSnapshots == image.id # 0 => Backing(image.id) \subseteq snapshots

\* Where ImageKeepsSnapshots comes from, as an inductive invariant: ids are
\* never used twice, and what is to be deleted belongs to the image described,
\* which is no longer the image of the name when the first snapshot goes.
SnapshotInv ==
  /\ ImageKeepsSnapshots
  /\ pc \in {"deregister", "snapshots"} => ref # 0 /\ todo \subseteq Backing(ref)
  /\ pc = "snapshots" => image.id # ref

\* With deleteSnapshots, when a deletion is over no snapshot is left of an image
\* that it deregistered.
SnapshotsDeleted ==
  deleteSnapshots /\ pc \in Over =>
    \A i \in removed : Backing(i) \cap snapshots = {}
=============================================================================
