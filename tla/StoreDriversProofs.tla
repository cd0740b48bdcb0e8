-------------------------- MODULE StoreDriversProofs --------------------------
(***************************************************************************)
(* What the store drivers do with an object, a token and a snapshot, for   *)
(* any classes, any number of objects and any number of failing calls.     *)
(***************************************************************************)
EXTENDS StoreDrivers, TLAPS

USE BoundAssumption

-----------------------------------------------------------------------------
(***************************************************************************)
(* Types.                                                                  *)
(***************************************************************************)

\* The snapshots behind an image are snapshot ids that carry the image's id.
LEMMA BackingFacts ==
  ASSUME NEW i \in 0..MaxPuts
  PROVE  /\ Backing(i) \subseteq {s \in SnapshotIDs : s[1] # 0}
         /\ \A s \in Backing(i) : s[1] = i
  BY DEF Backing, BlockDevices, SnapshotIDs

\* Images with different ids have no snapshot in common.
LEMMA BackingDisjoint ==
  ASSUME NEW i \in 0..MaxPuts, NEW j \in 0..MaxPuts, i # j
  PROVE  Backing(i) \cap Backing(j) = {}
  BY BackingFacts

\* What Observe and the ends of a call do to the call itself.
LEMMA CallStep ==
  ASSUME CallTypeOK, UNCHANGED <<world, puts>>, object' \in 0..puts,
         \/ CallFails
         \/ ReturnError /\ UNCHANGED faults
         \/ ReturnNil
         \/ UNCHANGED call
  PROVE  CallTypeOK'
  <1> USE DEF CallTypeOK, world
  <1>1. CASE CallFails
    BY <1>1 DEF CallFails, ReturnError
  <1>2. CASE ReturnError /\ UNCHANGED faults
    BY <1>2 DEF ReturnError
  <1>3. CASE ReturnNil
    BY <1>3 DEF ReturnNil
  <1>4. CASE UNCHANGED call
    BY <1>4 DEF call
  <1> QED
    BY <1>1, <1>2, <1>3, <1>4

\* Observe returns one of the objects that were put, or none.
LEMMA ObserveStep ==
  ASSUME CallTypeOK, UNCHANGED <<world, puts, object>>,
         NEW n \in 0..puts, NEW s, NEW k, Observed(n, s, k)
  PROVE  CallTypeOK'
  BY DEF CallTypeOK, world, Observed, Over

\* The call goes on to its next step, with an id that it looked up or had.
LEMMA ProceedStep ==
  ASSUME CallTypeOK, UNCHANGED <<world, puts, object>>, ref' \in 0..puts,
         NEW p \in {"asset", "manifest", "tag", "deregister", "snapshots"}, Proceed(p)
  PROVE  CallTypeOK'
  BY DEF CallTypeOK, world, Proceed

\* The s3 and repository manager drivers.
LEMMA ObjectStepTypes ==
  ASSUME TypeOK, S3Step \/ RepoManagerStep, UNCHANGED <<world, puts, registry, http, ami>>
  PROVE  TypeOK'
  <1> SUFFICES CallTypeOK'
    BY DEF TypeOK, OCITypeOK, HTTPTypeOK, AMITypeOK, registry, http, ami
  <1>2. CallTypeOK /\ object \in 0..puts /\ ref \in 0..puts /\ 0 \in 0..puts
    BY DEF TypeOK, CallTypeOK
  <1>3. CASE S3Step
    BY <1>2, <1>3, CallStep, ObserveStep
       DEF S3Step, S3Observe, S3Delete, S3Fails, ObservedWithMetadata
  <1>4. CASE RepoManagerStep
    <2>1. CASE ArtifactoryObserve \/ NexusObserve
      BY <1>2, <2>1, ObserveStep DEF ArtifactoryObserve, NexusObserve, ObservedWithMetadata
    <2>2. CASE ArtifactoryDelete \/ NexusDelete
      BY <1>2, <2>2, CallStep DEF ArtifactoryDelete, NexusDelete
    <2>3. CASE NexusSearch
      BY <1>2, <2>3, CallStep, ProceedStep DEF NexusSearch
    <2>4. CASE RepoManagerFails
      BY <1>2, <2>4, CallStep DEF RepoManagerFails
    <2> QED
      BY <1>4, <2>1, <2>2, <2>3, <2>4 DEF RepoManagerStep
  <1> QED
    BY <1>3, <1>4

\* The oci driver.
LEMMA OCIStepTypes ==
  ASSUME TypeOK, OCIStep, UNCHANGED <<world, puts, object, http, ami>>
  PROVE  TypeOK'
  <1> SUFFICES CallTypeOK' /\ OCITypeOK'
    BY DEF TypeOK, HTTPTypeOK, AMITypeOK, http, ami
  <1>1. CallTypeOK /\ object \in 0..puts /\ ref \in 0..puts /\ observed \in 0..puts
    BY DEF TypeOK, CallTypeOK
  <1>2. puts \in Nat /\ 0 \in 0..puts /\ OCITypeOK
    BY DEF TypeOK, CallTypeOK
  <1>3. Resolve("key") \in 0..puts
    BY <1>2 DEF Resolve, OCITypeOK, Tags
  <1>4. CASE OCIObserve
    <2>1. CASE pc' = "config" /\ observed' = Resolve("key") /\ UNCHANGED <<ref, faults, registry>>
      BY <1>1, <1>2, <1>3, <2>1 DEF CallTypeOK, OCITypeOK, registry, world
    <2>2. CASE Observed(Resolve("key"), Annotation(Resolve("key")), StampMetadataKey(class))
               /\ UNCHANGED registry
      BY <1>1, <1>2, <1>3, <2>2, ObserveStep DEF OCITypeOK, registry
    <2> QED
      BY <1>4, <2>1, <2>2 DEF OCIObserve
  <1>5. CASE OCIConfigFile
    BY <1>1, <1>2, <1>5, ObserveStep DEF OCIConfigFile, ObservedWithMetadata, OCITypeOK, registry
  <1>6. CASE OCIHead
    BY <1>1, <1>2, <1>3, <1>6, CallStep, ProceedStep DEF OCIHead, OCITypeOK, registry
  <1>7. ASSUME ManifestDeleted \/ TagDeleted \/ UNCHANGED registry PROVE OCITypeOK'
    BY <1>2, <1>7 DEF ManifestDeleted, TagDeleted, registry, OCITypeOK, Tags
  <1>8. CASE OCIDeleteManifest
    BY <1>1, <1>7, <1>8, ProceedStep DEF OCIDeleteManifest
  <1>9. CASE OCIDeleteTag
    BY <1>1, <1>7, <1>9, CallStep DEF OCIDeleteTag
  <1>10. CASE OCIFails
    BY <1>1, <1>7, <1>10, CallStep DEF OCIFails
  <1> QED
    BY <1>4, <1>5, <1>6, <1>8, <1>9, <1>10 DEF OCIStep

\* The http driver and the token server.
LEMMA HTTPStepTypes ==
  ASSUME TypeOK, HTTPStep \/ Mint, UNCHANGED <<world, puts, registry, ami>>
  PROVE  TypeOK'
  <1> USE TimeAssumption
  <1> SUFFICES CallTypeOK' /\ HTTPTypeOK'
    BY DEF TypeOK, OCITypeOK, AMITypeOK, registry, ami
  <1>1. CallTypeOK /\ object \in 0..puts /\ 0 \in 0..puts
    BY DEF TypeOK, CallTypeOK
  <1>2. HTTPTypeOK
    BY DEF TypeOK
  <1>3. NoToken \in Token
    BY DEF NoToken, Token
  <1>4. ASSUME Answered PROVE HTTPTypeOK'
    BY <1>2, <1>3, <1>4 DEF HTTPTypeOK, Answered
  <1>5. ASSUME NEW c \in Token, Send(c), UNCHANGED now,
               token' \in [token : Token, expiresAt : Int]
        PROVE  HTTPTypeOK'
    BY <1>2, <1>5 DEF HTTPTypeOK, Send
  <1>6. CASE Authorize \/ AuthorizeCached
    <2>1. CallTypeOK'
      BY <1>1, <1>6, CallStep DEF Authorize, AuthorizeCached, Requesting
    <2>2. HTTPTypeOK'
      BY <1>2, <1>3, <1>5, <1>6 DEF Authorize, AuthorizeCached, HTTPTypeOK
    <2> QED
      BY <2>1, <2>2
  <1>7. CASE Exchange
    BY <1>1, <1>2, <1>3, <1>7, CallStep DEF Exchange, Requesting, HTTPTypeOK
  <1>8. CASE Mint
    BY <1>1, <1>2, <1>8, CallStep DEF Mint, HTTPTypeOK, Token
  <1>9. CASE Exchanged
    <2>1. CallTypeOK'
      BY <1>1, <1>9, CallStep DEF Exchanged, Requesting
    <2>2. cred \in Token /\ cred.lifetime \in Nat /\ now \in Int
      BY <1>2 DEF HTTPTypeOK, Token
    <2>3. now + TTL(cred.lifetime) - EarlyExpiry \in Int
      BY <2>2 DEF TTL
    <2>4. HTTPTypeOK'
      BY <1>5, <1>9, <2>2, <2>3 DEF Exchanged
    <2> QED
      BY <2>1, <2>4
  <1>10. CASE HTTPObserve
    BY <1>1, <1>4, <1>10, ObserveStep DEF HTTPObserve
  <1>11. CASE HTTPObserveRejected
    <2>1. faults' \in 0..MaxFaults
      BY <1>1, <1>11 DEF HTTPObserveRejected, CallTypeOK
    <2>2. CallTypeOK'
      BY <1>1, <1>11, <2>1 DEF HTTPObserveRejected, CallTypeOK, ReturnError, Over, world
    <2> QED
      BY <1>4, <1>11, <2>2 DEF HTTPObserveRejected
  <1>12. CASE HTTPDelete
    BY <1>1, <1>4, <1>12, CallStep DEF HTTPDelete
  <1>13. CASE HTTPDeleteRefused
    BY <1>1, <1>4, <1>13, CallStep DEF HTTPDeleteRefused
  <1>14. CASE HTTPFails
    BY <1>1, <1>4, <1>14, CallStep DEF HTTPFails
  <1> QED
    BY <1>6, <1>7, <1>8, <1>9, <1>10, <1>11, <1>12, <1>13, <1>14 DEF HTTPStep

\* The ami driver.
LEMMA AMIStepTypes ==
  ASSUME TypeOK, AMIStep, UNCHANGED <<world, puts, object, registry, http>>
  PROVE  TypeOK'
  <1> SUFFICES CallTypeOK' /\ AMITypeOK'
    BY DEF TypeOK, OCITypeOK, HTTPTypeOK, registry, http
  <1>1. CallTypeOK /\ object \in 0..puts /\ ref \in 0..puts /\ 0 \in 0..puts /\ puts \in Nat
        /\ puts <= MaxPuts
    BY DEF TypeOK, CallTypeOK
  <1>2. AMITypeOK /\ image.id \in 0..puts
    BY DEF TypeOK, AMITypeOK
  <1>3. ASSUME UNCHANGED ami PROVE AMITypeOK'
    BY <1>2, <1>3 DEF AMITypeOK, ami
  <1>4. ASSUME UNCHANGED ec2, todo' = {} PROVE AMITypeOK'
    BY <1>2, <1>4 DEF AMITypeOK, ec2
  <1>5. ASSUME DeregisterImage, UNCHANGED snapshots, todo' \subseteq todo PROVE AMITypeOK'
    BY <1>1, <1>2, <1>5 DEF DeregisterImage, NoImage, AMITypeOK
  <1>6. CASE AMIObserve
    BY <1>1, <1>2, <1>3, <1>6, ObserveStep DEF AMIObserve, ObservedWithMetadata
  <1>7. CASE AMIObserveFails \/ DescribeFails
    BY <1>1, <1>4, <1>7, CallStep DEF AMIObserveFails, DescribeFails, AMIFails
  <1>8. CASE AlreadyGone \/ SnapshotsDone
    BY <1>1, <1>3, <1>8, CallStep DEF AlreadyGone, SnapshotsDone
  <1>9. CASE Describe
    <2>1. Backing(image.id) \subseteq {s \in SnapshotIDs : s[1] # 0}
      BY <1>1, <1>2, BackingFacts
    <2>2. todo' \subseteq {s \in SnapshotIDs : s[1] # 0} /\ UNCHANGED ec2
      BY <1>9, <2>1 DEF Describe
    <2>3. AMITypeOK'
      BY <1>2, <2>2 DEF AMITypeOK, ec2
    <2> QED
      BY <1>1, <1>2, <1>9, <2>3, ProceedStep DEF Describe
  <1>10. CASE Deregister
    BY <1>1, <1>5, <1>10, ProceedStep DEF Deregister
  <1>11. CASE DeregisterUnknown
    BY <1>1, <1>4, <1>11, CallStep DEF DeregisterUnknown
  <1>12. CASE DeregisterFails
    BY <1>1, <1>4, <1>5, <1>12, CallStep DEF DeregisterFails, AMIFails, ec2
  <1>13. ASSUME NEW s \in SnapshotIDs, DeleteSnapshot(s) \/ DeleteSnapshotFails(s)
         PROVE  CallTypeOK' /\ AMITypeOK'
    <2>1. AMITypeOK'
      BY <1>2, <1>13 DEF DeleteSnapshot, DeleteSnapshotFails, AMIFails, AMITypeOK
    <2> QED
      BY <1>1, <1>13, <2>1, CallStep DEF DeleteSnapshot, DeleteSnapshotFails, AMIFails
  <1> QED
    BY <1>6, <1>7, <1>8, <1>9, <1>10, <1>11, <1>12, <1>13 DEF AMIStep

\* The other users of the store, and time.
LEMMA OthersTypes ==
  ASSUME TypeOK, OthersUse
  PROVE  TypeOK'
  <1> USE DEF TypeOK, world, call, registry, http, ami
  <1>1. CASE Put
    BY <1>1 DEF Put, CallTypeOK, OCITypeOK, HTTPTypeOK, AMITypeOK
  <1>2. CASE Remove
    BY <1>2 DEF Remove, CallTypeOK, OCITypeOK, HTTPTypeOK, AMITypeOK
  <1>3. ASSUME NEW t \in Tags, OCIUse(t), UNCHANGED <<world, http, ami>>
        PROVE  TypeOK'
    <2>1. PICK n \in 0..MaxPuts :
            /\ n <= puts + 1
            /\ puts' = IF n > puts THEN n ELSE puts
            /\ tags' = [tags EXCEPT ![t] = n] /\ manifests' = manifests \cup ({n} \ {0})
      BY <1>3 DEF OCIUse
    <2>2. puts \in Nat /\ puts' \in 0..MaxPuts /\ puts <= puts' /\ n <= puts'
      BY <2>1 DEF CallTypeOK
    <2>3. OCITypeOK'
      BY <1>3, <2>1, <2>2 DEF OCITypeOK
    <2>4. CallTypeOK' /\ HTTPTypeOK' /\ AMITypeOK'
      BY <1>3, <2>2 DEF OCIUse, CallTypeOK, HTTPTypeOK, AMITypeOK
    <2> QED
      BY <2>3, <2>4
  <1>4. CASE EC2Use /\ UNCHANGED <<world, registry, http>>
    <2>1. CallTypeOK' /\ OCITypeOK' /\ HTTPTypeOK'
      <3>1. puts \in 0..MaxPuts /\ puts' \in 0..MaxPuts /\ puts <= puts'
        BY <1>4 DEF EC2Use, RegisterImage, BecomeAvailable, DeregisterByHand, CallTypeOK
      <3>2. CallTypeOK'
        BY <1>4, <3>1, SMTT(30) DEF EC2Use, RegisterImage, BecomeAvailable, DeregisterByHand,
                                    OthersUseEC2, CallTypeOK
      <3>3. OCITypeOK'
        BY <1>4, <3>1, SMTT(30) DEF OCITypeOK
      <3>4. HTTPTypeOK'
        BY <1>4, SMTT(30) DEF HTTPTypeOK
      <3> QED
        BY <3>2, <3>3, <3>4
    <2>2. CASE RegisterImage
      <3>1. puts' \in 1..MaxPuts /\ puts <= puts' /\ puts \in Nat
        BY <2>2 DEF RegisterImage, CallTypeOK
      <3>2. Backing(puts') \subseteq SnapshotIDs
        BY <3>1, BackingFacts
      <3> QED
        BY <2>1, <2>2, <3>1, <3>2 DEF RegisterImage, OthersUseEC2, AMITypeOK
    <2>3. CASE BecomeAvailable \/ DeregisterByHand
      BY <2>1, <2>3 DEF BecomeAvailable, DeregisterByHand, OthersUseEC2, NoImage, AMITypeOK,
                        CallTypeOK
    <2> QED
      BY <1>4, <2>2, <2>3 DEF EC2Use
  <1>5. CASE Tick /\ UNCHANGED <<world, puts, registry, ami>>
    BY <1>5, TimeAssumption DEF Tick, CallTypeOK, OCITypeOK, HTTPTypeOK, AMITypeOK
  <1> QED
    BY <1>1, <1>2, <1>3, <1>4, <1>5 DEF OthersUse

\* Every step of every driver keeps the types of the store and of the call.
LEMMA TypeStep == TypeOK /\ [Next]_vars => TypeOK'
  <1> SUFFICES ASSUME TypeOK, [Next]_vars PROVE TypeOK'
    OBVIOUS
  <1>1. CASE DriverFor
    <2>1. CallTypeOK'
      BY <1>1 DEF DriverFor, NewDriver, NewDriverFails, CallFails, ReturnError, TypeOK,
                  CallTypeOK, world
    <2>2. NoCache \in [token : Token, expiresAt : Int]
      BY DEF NoCache, NoToken, Token
    <2> QED
      BY <1>1, <2>1, <2>2 DEF DriverFor, TypeOK, OCITypeOK, HTTPTypeOK, AMITypeOK,
                              registry, wire, ami
  <1>2. CASE DriverStep
    BY <1>2, ObjectStepTypes, OCIStepTypes, HTTPStepTypes, AMIStepTypes DEF DriverStep
  <1>3. CASE FinalizerRemoved
    BY <1>3 DEF FinalizerRemoved, RemoveFinalizer, TypeOK, CallTypeOK, OCITypeOK, HTTPTypeOK,
                AMITypeOK, Over, world, registry, http, ami
  <1>4. CASE OthersUse
    BY <1>4, OthersTypes
  <1>5. CASE UNCHANGED vars
    BY <1>5 DEF vars, TypeOK, CallTypeOK, OCITypeOK, HTTPTypeOK, AMITypeOK, call, registry,
                http, ami
  <1> QED
    BY <1>1, <1>2, <1>3, <1>4, <1>5 DEF Next, Deletion

\* The types hold throughout: nothing is looked up or deleted that was never put,
\* and no device without a snapshot is ever up for deletion.
THEOREM TypeCorrect == Spec => []TypeOK
  <1>1. Init => TypeOK
    <2> SUFFICES ASSUME Init PROVE TypeOK
      OBVIOUS
    <2>1. CallTypeOK
      BY ClassAssumption DEF Init, CallInit, CallTypeOK
    <2>2. OCITypeOK /\ AMITypeOK
      BY DEF Init, CallInit, OCIInit, OCITypeOK, AMIInit, AMITypeOK, NoImage
    <2>3. HTTPTypeOK
      BY TimeAssumption DEF Init, HTTPInit, HTTPTypeOK, NoCache, NoToken, Token
    <2> QED
      BY <2>1, <2>2, <2>3 DEF TypeOK
  <1> QED
    BY <1>1, TypeStep, PTL DEF Spec

-----------------------------------------------------------------------------
(***************************************************************************)
(* Snapshots.                                                              *)
(***************************************************************************)

\* The steps of the ami driver.
LEMMA SnapshotAMIStep ==
  ASSUME TypeOK, SnapshotInv, AMIStep, UNCHANGED puts
  PROVE  SnapshotInv'
  <1>1. /\ ImageKeepsSnapshots /\ image.id \in 0..MaxPuts /\ ref \in 0..MaxPuts
        /\ pc \in {"deregister", "snapshots"} => ref # 0 /\ todo \subseteq Backing(ref)
        /\ pc = "snapshots" => image.id # ref
    BY DEF SnapshotInv, TypeOK, CallTypeOK, AMITypeOK
  <1>2. ASSUME UNCHANGED <<image, snapshots>>, pc' \notin {"deregister", "snapshots"}
        PROVE  SnapshotInv'
    BY <1>1, <1>2 DEF SnapshotInv, ImageKeepsSnapshots
  <1>3. ASSUME image' = NoImage, UNCHANGED snapshots, pc' \notin {"deregister", "snapshots"}
        PROVE  SnapshotInv'
    BY <1>3 DEF SnapshotInv, ImageKeepsSnapshots, NoImage
  <1>4. CASE AMIObserve
    BY <1>2, <1>4 DEF AMIObserve, ObservedWithMetadata, Observed, ami
  <1>5. CASE AMIObserveFails \/ DescribeFails \/ DeregisterUnknown
    BY <1>2, <1>5 DEF AMIObserveFails, DescribeFails, DeregisterUnknown, AMIFails, CallFails,
                      ReturnError, ec2
  <1>6. CASE AlreadyGone \/ SnapshotsDone
    BY <1>2, <1>6 DEF AlreadyGone, SnapshotsDone, ReturnNil, ami
  <1>7. CASE Describe
    BY <1>1, <1>7 DEF Describe, Proceed, ec2, SnapshotInv, ImageKeepsSnapshots
  <1>8. CASE Deregister
    BY <1>1, <1>8 DEF Deregister, At, Proceed, DeregisterImage, NoImage, SnapshotInv,
                      ImageKeepsSnapshots
  <1>9. CASE DeregisterFails
    BY <1>2, <1>3, <1>9 DEF DeregisterFails, AMIFails, CallFails, ReturnError, DeregisterImage
  <1>10. ASSUME NEW s \in SnapshotIDs, DeleteSnapshot(s) \/ DeleteSnapshotFails(s)
         PROVE  SnapshotInv'
    <2>1. pc = "snapshots" /\ s \in Backing(ref) /\ image.id # ref
      BY <1>1, <1>10 DEF DeleteSnapshot, DeleteSnapshotFails, AMIFails, At
    <2>2. s \notin Backing(image.id)
      BY <1>1, <2>1, BackingDisjoint
    <2>3. ImageKeepsSnapshots'
      BY <1>1, <1>10, <2>2 DEF DeleteSnapshot, DeleteSnapshotFails, ImageKeepsSnapshots
    <2> QED
      BY <1>1, <1>10, <2>1, <2>3 DEF DeleteSnapshot, DeleteSnapshotFails, AMIFails, CallFails,
                                     ReturnError, call, SnapshotInv
  <1> QED
    BY <1>4, <1>5, <1>6, <1>7, <1>8, <1>9, <1>10 DEF AMIStep

\* The steps of the other users of the image name.
LEMMA SnapshotEC2Use ==
  ASSUME TypeOK, SnapshotInv, EC2Use
  PROVE  SnapshotInv'
  <1>1. /\ ImageKeepsSnapshots /\ image.id \in 0..puts /\ ref \in 0..puts /\ puts \in Nat
        /\ pc \in {"deregister", "snapshots"} => ref # 0 /\ todo \subseteq Backing(ref)
        /\ pc = "snapshots" => image.id # ref
    BY DEF SnapshotInv, TypeOK, CallTypeOK, AMITypeOK
  <1>2. UNCHANGED <<pc, ref, todo>>
    BY DEF EC2Use, RegisterImage, BecomeAvailable, DeregisterByHand, OthersUseEC2, call
  <1>3. ImageKeepsSnapshots' /\ (pc = "snapshots" => image.id' # ref)
    <2>1. CASE RegisterImage
      BY <1>1, <2>1 DEF RegisterImage, ImageKeepsSnapshots
    <2>2. CASE BecomeAvailable \/ DeregisterByHand
      BY <1>1, <2>2 DEF BecomeAvailable, DeregisterByHand, ImageKeepsSnapshots, NoImage, TypeOK,
                        AMITypeOK
    <2> QED
      BY <2>1, <2>2 DEF EC2Use
  <1> QED
    BY <1>1, <1>2, <1>3 DEF SnapshotInv

\* What the other drivers and the other stores' users do to the call.
LEMMA OtherSteps ==
  ASSUME \/ DriverFor \/ FinalizerRemoved
         \/ S3Step \/ RepoManagerStep \/ HTTPStep \/ Mint \/ OCIStep
  PROVE  pc' \notin {"deregister", "snapshots"} \/ UNCHANGED call
  <1>1. CASE DriverFor \/ FinalizerRemoved
    BY <1>1 DEF DriverFor, NewDriver, NewDriverFails, CallFails, ReturnError, FinalizerRemoved,
                RemoveFinalizer
  <1>2. CASE S3Step \/ RepoManagerStep
    BY <1>2 DEF S3Step, S3Observe, S3Delete, S3Fails, RepoManagerStep, ArtifactoryObserve,
                ArtifactoryDelete, NexusObserve, NexusSearch, NexusDelete, RepoManagerFails,
                ObservedWithMetadata, Observed, ReturnNil, CallFails, ReturnError, Proceed
  <1>3. CASE HTTPStep \/ Mint
    BY <1>3 DEF HTTPStep, Authorize, AuthorizeCached, Exchange, Mint, Exchanged, HTTPObserve,
                HTTPObserveRejected, HTTPDelete, HTTPDeleteRefused, HTTPFails, Observed,
                ReturnNil, CallFails, ReturnError
  <1>4. CASE OCIStep
    BY <1>4 DEF OCIStep, OCIObserve, OCIConfigFile, OCIHead, OCIDeleteManifest, OCIDeleteTag,
                OCIFails, ObservedWithMetadata, Observed, ReturnNil, CallFails, ReturnError,
                Proceed
  <1> QED
    BY <1>1, <1>2, <1>3, <1>4

\* Every step preserves the inductive invariant on snapshots.
LEMMA SnapshotStep == TypeOK /\ SnapshotInv /\ [Next]_vars => SnapshotInv'
  <1> SUFFICES ASSUME TypeOK, SnapshotInv, [Next]_vars PROVE SnapshotInv'
    OBVIOUS
  <1>1. ASSUME UNCHANGED ami, pc' \notin {"deregister", "snapshots"} \/ UNCHANGED call
        PROVE  SnapshotInv'
    BY <1>1 DEF SnapshotInv, ImageKeepsSnapshots, ami, call
  <1>2. CASE DriverFor \/ FinalizerRemoved
    BY <1>1, <1>2, OtherSteps DEF DriverFor, FinalizerRemoved
  <1>3. CASE DriverStep
    BY <1>1, <1>3, OtherSteps, SnapshotAMIStep DEF DriverStep
  <1>4. CASE OthersUse
    BY <1>1, <1>4, SnapshotEC2Use DEF OthersUse, Put, Remove, OCIUse, Tick
  <1>5. CASE UNCHANGED vars
    BY <1>1, <1>5 DEF vars
  <1> QED
    BY <1>2, <1>3, <1>4, <1>5 DEF Next, Deletion

\* The inductive invariant on snapshots holds throughout.
THEOREM SnapshotInvHolds == Spec => []SnapshotInv
  <1>1. Init => SnapshotInv
    BY DEF Init, CallInit, AMIInit, SnapshotInv, ImageKeepsSnapshots, NoImage
  <1> QED
    BY <1>1, TypeCorrect, SnapshotStep, PTL DEF Spec

\* A registered image never loses a snapshot to a Delete of the ami driver, whatever
\* fails and whoever replaces the image meanwhile.
THEOREM SnapshotsAreSafe == Spec => []ImageKeepsSnapshots
  <1>1. SnapshotInv => ImageKeepsSnapshots
    BY DEF SnapshotInv
  <1> QED
    BY <1>1, SnapshotInvHolds, PTL

\* A call fails between the deregistration of the image, which may be that very
\* call, and the deletion of its last snapshot.
CutShort ==
  \/ DeregisterFails /\ removed' # removed
  \/ \E s \in SnapshotIDs : DeleteSnapshotFails(s)

\* What Delete collected is all that the image is made of, and what is left of an
\* image that was deregistered is still to be deleted by the Delete that did it.
LeftInv ==
  /\ pc = "deregister" => todo = Backing(ref)
  /\ pc = "snapshots" => Backing(ref) \cap snapshots \subseteq todo
  /\ \A i \in removed : (pc = "snapshots" /\ i = ref) \/ Backing(i) \cap snapshots = {}

\* No step of another driver leaves the last phase of the ami driver.
LEMMA SnapshotsPhase ==
  ASSUME pc = "snapshots",
         \/ DriverFor \/ FinalizerRemoved
         \/ S3Step \/ RepoManagerStep \/ HTTPStep \/ Mint \/ OCIStep
  PROVE  UNCHANGED call
  <1>1. ~DriverFor /\ ~FinalizerRemoved
    BY DEF DriverFor, NewDriver, NewDriverFails, FinalizerRemoved, RemoveFinalizer
  <1>2. ~S3Step /\ ~RepoManagerStep
    BY DEF S3Step, S3Observe, S3Delete, S3Fails, RepoManagerStep, ArtifactoryObserve,
           ArtifactoryDelete, NexusObserve, NexusSearch, NexusDelete, RepoManagerFails, At
  <1>3. ~HTTPStep /\ (Mint => UNCHANGED call)
    BY DEF HTTPStep, Authorize, AuthorizeCached, Exchange, Mint, Exchanged, HTTPObserve,
           HTTPObserveRejected, HTTPDelete, HTTPDeleteRefused, HTTPFails, Requesting, At
  <1>4. ~OCIStep
    BY DEF OCIStep, OCIObserve, OCIConfigFile, OCIHead, OCIDeleteManifest, OCIDeleteTag,
           OCIFails, At
  <1> QED
    BY <1>1, <1>2, <1>3, <1>4

\* The steps of the ami driver that are not cut short.
LEMMA LeftAMIStep ==
  ASSUME deleteSnapshots, TypeOK, SnapshotInv, LeftInv, AMIStep, ~CutShort
  PROVE  LeftInv'
  <1>1. ASSUME UNCHANGED <<snapshots, removed>>, pc # "snapshots",
               pc' \notin {"deregister", "snapshots"}
        PROVE  LeftInv'
    BY <1>1 DEF LeftInv
  <1>2. CASE AMIObserve \/ AMIObserveFails \/ AlreadyGone \/ DescribeFails \/ DeregisterUnknown
    BY <1>1, <1>2
    DEF AMIObserve, ObservedWithMetadata, Observed, AMIObserveFails, AlreadyGone, ReturnNil,
        DescribeFails, DeregisterUnknown, AMIFails, CallFails, ReturnError, At, ami, ec2
  <1>3. CASE Describe
    BY <1>3 DEF Describe, At, Proceed, ec2, LeftInv
  <1>4. CASE Deregister
    BY <1>4 DEF Deregister, At, Proceed, DeregisterImage, LeftInv
  <1>5. CASE DeregisterFails
    BY <1>1, <1>5 DEF DeregisterFails, AMIFails, CallFails, ReturnError, At, CutShort
  <1>6. CASE SnapshotsDone
    BY <1>6 DEF SnapshotsDone, At, ReturnNil, ami, LeftInv
  <1>7. ASSUME NEW s \in SnapshotIDs, DeleteSnapshot(s)
        PROVE  LeftInv'
    BY <1>7 DEF DeleteSnapshot, At, call, LeftInv
  <1> QED
    BY <1>2, <1>3, <1>4, <1>5, <1>6, <1>7 DEF AMIStep, CutShort

\* The other users of the image name register images under new ids only.
LEMMA LeftEC2Use ==
  ASSUME TypeOK, LeftInv, EC2Use
  PROVE  LeftInv'
  <1>1. UNCHANGED <<pc, ref, todo, removed>>
    BY DEF EC2Use, RegisterImage, BecomeAvailable, DeregisterByHand, OthersUseEC2, call
  <1>2. /\ ref \in 0..MaxPuts /\ removed \subseteq 0..MaxPuts /\ puts \in Nat
        /\ ref <= puts /\ \A i \in removed : i <= puts
    BY DEF TypeOK, CallTypeOK, AMITypeOK
  <1>3. \A i \in removed \cup {ref} : Backing(i) \cap snapshots' = Backing(i) \cap snapshots
    <2>1. CASE RegisterImage
      <3>1. /\ puts + 1 \in 0..MaxPuts
            /\ snapshots' = snapshots \cup Backing(puts + 1)
        BY <1>2, <2>1 DEF RegisterImage
      <3>2. \A i \in removed \cup {ref} : i \in 0..MaxPuts /\ i # puts + 1
        BY <1>2
      <3>3. \A i \in removed \cup {ref} : Backing(i) \cap Backing(puts + 1) = {}
        BY <3>1, <3>2, BackingDisjoint
      <3> QED
        BY <3>1, <3>3
    <2>2. CASE BecomeAvailable \/ DeregisterByHand
      BY <2>2 DEF BecomeAvailable, DeregisterByHand
    <2> QED
      BY <2>1, <2>2 DEF EC2Use
  <1> QED
    BY <1>1, <1>3 DEF LeftInv

\* Every step that is not cut short keeps LeftInv.
LEMMA LeftStep ==
  ASSUME deleteSnapshots, TypeOK, SnapshotInv, LeftInv, [Next]_vars, ~CutShort
  PROVE  LeftInv'
  <1>1. ASSUME UNCHANGED ami, UNCHANGED call
        PROVE  LeftInv'
    BY <1>1 DEF LeftInv, ami, call
  <1>2. ASSUME UNCHANGED ami, pc # "snapshots", pc' \notin {"deregister", "snapshots"}
        PROVE  LeftInv'
    BY <1>2 DEF LeftInv, ami
  <1>3. CASE DriverFor \/ FinalizerRemoved
    BY <1>1, <1>2, <1>3, OtherSteps, SnapshotsPhase DEF DriverFor, FinalizerRemoved
  <1>4. CASE DriverStep
    BY <1>1, <1>2, <1>4, OtherSteps, SnapshotsPhase, LeftAMIStep DEF DriverStep
  <1>5. CASE OthersUse
    BY <1>1, <1>5, LeftEC2Use DEF OthersUse, Put, Remove, OCIUse, Tick
  <1>6. CASE UNCHANGED vars
    BY <1>1, <1>6 DEF vars
  <1> QED
    BY <1>3, <1>4, <1>5, <1>6 DEF Next, Deletion

\* With deleteSnapshots, a deletion leaves no snapshot of an image that it
\* deregistered, whatever else fails and whoever else uses the image name, unless
\* a call fails after the image is gone: what the next Delete describes does not
\* name the snapshots any more.
THEOREM SnapshotsGoWithTheImage == Spec /\ [][~CutShort]_vars => []SnapshotsDeleted
  <1>1. CASE ~deleteSnapshots
    <2>1. SnapshotsDeleted
      BY <1>1 DEF SnapshotsDeleted
    <2> QED
      BY <2>1, PTL
  <1>2. CASE deleteSnapshots
    <2>1. Init => LeftInv
      BY DEF Init, CallInit, AMIInit, LeftInv
    <2>2. TypeOK /\ SnapshotInv /\ LeftInv /\ [Next]_vars /\ [~CutShort]_vars => LeftInv'
      <3>1. UNCHANGED vars /\ LeftInv => LeftInv'
        BY DEF LeftInv, vars, ami, call
      <3> QED
        BY <1>2, <3>1, LeftStep
    <2>3. LeftInv => SnapshotsDeleted
      BY DEF LeftInv, SnapshotsDeleted, Over
    <2> QED
      BY <2>1, <2>2, <2>3, TypeCorrect, SnapshotInvHolds, PTL DEF Spec
  <1> QED
    BY <1>1, <1>2

-----------------------------------------------------------------------------
(***************************************************************************)
(* Tokens.                                                                 *)
(***************************************************************************)

\* A request is under way for at most the timeout, a token is minted during the
\* exchange that obtains it, the cache lets go of a token that lives longer than
\* earlyExpiry so long before its end, less one timeout, and a request with such
\* a token is over before the token is.
TokenInv ==
  /\ phase # "none" => since <= now /\ now <= since + Timeout
  /\ phase = "minted" => since <= cred.minted /\ cred.minted <= now
  /\ token # NoCache /\ token.token.lifetime > EarlyExpiry =>
       token.expiresAt <= token.token.minted + token.token.lifetime + Timeout - EarlyExpiry
  /\ phase = "send" /\ cred.lifetime > EarlyExpiry =>
       since + Timeout < cred.minted + cred.lifetime

\* Every step preserves the invariant on tokens if two timeouts fit into earlyExpiry.
LEMMA TokenStep ==
  ASSUME 2 * Timeout <= EarlyExpiry, TypeOK, TokenInv, [Next]_vars
  PROVE  TokenInv'
  <1> USE TimeAssumption
  <1>1. /\ now \in Nat /\ since \in Nat /\ token.expiresAt \in Int
        /\ cred.minted \in Nat /\ cred.lifetime \in Nat
        /\ token.token.minted \in Nat /\ token.token.lifetime \in Nat
    BY DEF TypeOK, HTTPTypeOK, Token
  <1>2. ASSUME UNCHANGED http PROVE TokenInv'
    BY <1>2 DEF TokenInv, http
  <1>3. ASSUME Answered PROVE TokenInv'
    BY <1>3 DEF TokenInv, Answered
  <1>4. CASE DriverFor
    BY <1>4 DEF DriverFor, TokenInv, wire, NoCache, NoToken
  <1>5. CASE Authorize
    <2>1. phase' = "send" /\ since' = now /\ now' = now /\ token' = token /\ cred' = NoToken
      BY <1>5, Zenon DEF Authorize, Send
    <2>2. ~(cred'.lifetime > EarlyExpiry)
      <3>1. cred'.lifetime = 0
        BY <2>1, Zenon DEF NoToken
      <3> QED
        BY <3>1
    <2>3. since' <= now' /\ now' <= since' + Timeout
      BY <1>1, <2>1
    <2> QED
      BY <2>1, <2>2, <2>3 DEF TokenInv
  <1>6. CASE AuthorizeCached
    <2>1. /\ phase' = "send" /\ since' = now /\ now' = now /\ token' = token
          /\ cred' = token.token /\ token # NoCache /\ now < token.expiresAt
      BY <1>6, Zenon DEF AuthorizeCached, Cached, Send
    <2> QED
      BY <1>1, <2>1 DEF TokenInv
  <1>7. CASE Exchange
    <2>1. phase' = "exchange" /\ since' = now /\ now' = now /\ token' = token
      BY <1>7 DEF Exchange
    <2>2. now <= now /\ now <= now + Timeout
      BY <1>1
    <2> QED
      BY <2>1, <2>2, Zenon DEF TokenInv
  <1>8. CASE Mint
    BY <1>1, <1>8 DEF Mint, TokenInv
  <1>9. CASE Exchanged
    <2>1. now <= cred.minted + Timeout
      BY <1>1, <1>9 DEF Exchanged, TokenInv
    <2>2. token'.token = cred /\ token'.expiresAt = now + TTL(cred.lifetime) - EarlyExpiry
      BY <1>9 DEF Exchanged
    <2>3. phase' = "send" /\ cred' = cred /\ since' = now /\ now' = now
      BY <1>9 DEF Exchanged, Send
    <2> QED
      BY <1>1, <2>1, <2>2, <2>3 DEF TTL, TokenInv
  <1>10. CASE HTTPObserve \/ HTTPObserveRejected \/ HTTPDelete \/ HTTPDeleteRefused \/ HTTPFails
    BY <1>3, <1>10 DEF HTTPObserve, HTTPObserveRejected, HTTPDelete, HTTPDeleteRefused, HTTPFails
  <1>11. CASE DriverStep
    BY <1>2, <1>5, <1>6, <1>7, <1>8, <1>9, <1>10, <1>11 DEF DriverStep, HTTPStep
  <1>12. CASE Tick
    BY <1>1, <1>12 DEF Tick, TokenInv
  <1>13. CASE OthersUse
    BY <1>2, <1>12, <1>13 DEF OthersUse, Put, Remove
  <1>14. CASE FinalizerRemoved \/ UNCHANGED vars
    BY <1>2, <1>14 DEF FinalizerRemoved, vars
  <1> QED
    BY <1>4, <1>11, <1>13, <1>14 DEF Next, Deletion

\* No request outlives the token that it carries, if the token lives longer than
\* earlyExpiry and two timeouts fit into earlyExpiry: the default timeout of thirty
\* seconds is the longest that does.
THEOREM TokensOutliveRequests ==
  ASSUME 2 * Timeout <= EarlyExpiry
  PROVE  Spec => []TokenOutlivesRequest
  <1>1. Init => TokenInv
    BY TimeAssumption DEF Init, HTTPInit, TokenInv, NoCache, NoToken
  <1>2. TypeOK /\ TokenInv => TokenOutlivesRequest
    BY TimeAssumption DEF TypeOK, HTTPTypeOK, Token, TokenInv, TokenOutlivesRequest, Valid
  <1>3. TypeOK /\ TokenInv /\ [Next]_vars => TokenInv'
    BY TokenStep
  <1> QED
    BY <1>1, <1>2, <1>3, TypeCorrect, PTL DEF Spec

-----------------------------------------------------------------------------
(***************************************************************************)
(* Stamps.                                                                 *)
(***************************************************************************)

\* Nothing in nexus is stamped, no http class names a stamp key, and what the call
\* goes on with is not stamped for another identity.
ForeignInv ==
  /\ class.driver = "nexus" => \A n \in 0..MaxPuts : stamps[n] = "none"
  /\ class.driver = "http" => class.stampKey = "unset"
  /\ ForeignIsRecognised

\* Every step preserves the invariant on stamps.
LEMMA ForeignStep == TypeOK /\ ForeignInv /\ [Next]_vars => ForeignInv'
  <1> SUFFICES ASSUME TypeOK, ForeignInv, [Next]_vars PROVE ForeignInv'
    OBVIOUS
  <1>1. /\ stamps[0] = "none" /\ object \in 0..MaxPuts
        /\ class.driver = "nexus" => stamps[object] = "none"
        /\ class.driver = "http" => class.stampKey = "unset"
        /\ pc \notin {"absent", "kept", "observe", "config"} => stamps[observed] # "foreign"
    BY DEF TypeOK, CallTypeOK, ForeignInv, ForeignIsRecognised
  <1>2. UNCHANGED world
    BY DEF Next, Deletion, DriverFor, FinalizerRemoved, DriverStep, OthersUse, Put, Remove, vars,
           world
  <1> SUFFICES ForeignIsRecognised'
    BY <1>2 DEF ForeignInv, world
  <1>3. ASSUME UNCHANGED observed,
               \/ pc' = pc
               \/ pc \notin {"absent", "kept", "observe", "config"}
               \/ pc' \in {"absent", "kept", "observe", "config"}
        PROVE  ForeignIsRecognised'
    BY <1>1, <1>2, <1>3 DEF ForeignIsRecognised, world
  <1>4. ASSUME ReturnError PROVE ForeignIsRecognised'
    BY <1>1, <1>2, <1>4 DEF ReturnError, ForeignIsRecognised, world
  <1>5. ASSUME NEW n, NEW s, NEW k, Observed(n, s, k),
               n # 0 /\ stamps[n] = "foreign" => s = "foreign" /\ k = StampMetadataKey(class)
        PROVE  ForeignIsRecognised'
    BY <1>1, <1>2, <1>5 DEF Observed, ForeignIsRecognised, world
  <1>6. CASE DriverFor \/ FinalizerRemoved
    BY <1>3, <1>4, <1>6 DEF DriverFor, NewDriver, NewDriverFails, CallFails, FinalizerRemoved,
                            RemoveFinalizer
  <1>7. CASE S3Step
    BY <1>3, <1>4, <1>5, <1>7 DEF S3Step, S3Observe, S3Delete, S3Fails, ObservedWithMetadata,
                                  ReturnNil, CallFails, At
  <1>8. CASE RepoManagerStep
    <2>1. CASE ArtifactoryObserve
      BY <1>5, <2>1 DEF ArtifactoryObserve, ObservedWithMetadata
    <2>2. CASE NexusObserve
      BY <1>1, <1>5, <2>2 DEF NexusObserve, At
    <2>3. CASE ArtifactoryDelete \/ NexusSearch \/ NexusDelete
      BY <1>3, <2>3 DEF ArtifactoryDelete, NexusSearch, NexusDelete, ReturnNil, Proceed, At
    <2>4. CASE RepoManagerFails
      BY <1>4, <2>4 DEF RepoManagerFails, CallFails
    <2> QED
      BY <1>8, <2>1, <2>2, <2>3, <2>4 DEF RepoManagerStep
  <1>9. CASE HTTPStep \/ Mint
    <2>1. CASE HTTPObserve
      <3>1. StampKey(class) = StampMetadataKey(class)
        BY <1>1, <2>1 DEF HTTPObserve, At, StampKey, StampMetadataKey
      <3> QED
        BY <1>5, <2>1, <3>1 DEF HTTPObserve
    <2>2. CASE HTTPObserveRejected
      BY <1>3, <1>4, <2>2 DEF HTTPObserveRejected
    <2>3. CASE HTTPDelete
      BY <1>3, <2>3 DEF HTTPDelete, ReturnNil, At
    <2>4. CASE HTTPDeleteRefused \/ HTTPFails
      BY <1>4, <2>4 DEF HTTPDeleteRefused, HTTPFails, CallFails
    <2>5. CASE UNCHANGED call
      BY <1>3, <2>5 DEF call
    <2> QED
      BY <1>9, <2>1, <2>2, <2>3, <2>4, <2>5
         DEF HTTPStep, Authorize, AuthorizeCached, Exchange, Exchanged, Mint
  <1>10. CASE OCIStep
    <2>1. CASE OCIObserve
      <3> DEFINE n == Resolve("key")
      <3>1. CASE pc' = "config"
        BY <3>1 DEF ForeignIsRecognised
      <3>2. CASE /\ ~(n # 0 /\ Annotation(n) = "none" /\ IsImageManifest(n))
                 /\ Observed(n, Annotation(n), StampMetadataKey(class))
        <4>1. n # 0 /\ stamps[n] = "foreign" => Annotation(n) = "foreign"
          BY <3>2, ImageAssumption DEF Annotation, IsImageManifest
        <4> QED
          BY <1>5, <3>2, <4>1
      <3> QED
        BY <2>1, <3>1, <3>2 DEF OCIObserve
    <2>2. CASE OCIConfigFile
      BY <1>5, <2>2 DEF OCIConfigFile, ObservedWithMetadata
    <2>3. CASE OCIHead \/ OCIDeleteManifest \/ OCIDeleteTag
      BY <1>3, <2>3 DEF OCIHead, OCIDeleteManifest, OCIDeleteTag, ReturnNil, Proceed, At
    <2>4. CASE OCIFails
      BY <1>4, <2>4 DEF OCIFails, CallFails
    <2> QED
      BY <1>10, <2>1, <2>2, <2>3, <2>4 DEF OCIStep
  <1>11. CASE AMIStep
    <2>1. CASE AMIObserve
      BY <1>5, <2>1 DEF AMIObserve, ObservedWithMetadata
    <2>2. CASE AMIObserveFails \/ DescribeFails \/ DeregisterUnknown \/ DeregisterFails
      BY <1>4, <2>2 DEF AMIObserveFails, DescribeFails, DeregisterUnknown, DeregisterFails,
                        AMIFails, CallFails
    <2>3. CASE AlreadyGone \/ Describe \/ Deregister \/ SnapshotsDone
      BY <1>3, <2>3 DEF AlreadyGone, Describe, Deregister, SnapshotsDone, ReturnNil, Proceed, At
    <2>4. ASSUME NEW s \in SnapshotIDs, DeleteSnapshot(s) \/ DeleteSnapshotFails(s)
          PROVE  ForeignIsRecognised'
      BY <1>3, <1>4, <2>4 DEF DeleteSnapshot, DeleteSnapshotFails, AMIFails, CallFails, call
    <2> QED
      BY <1>11, <2>1, <2>2, <2>3, <2>4 DEF AMIStep
  <1>12. CASE OthersUse
    BY <1>3, <1>12 DEF OthersUse, Put, Remove, OCIUse, EC2Use, RegisterImage, BecomeAvailable,
                       DeregisterByHand, OthersUseEC2, Tick, call
  <1>13. CASE UNCHANGED vars
    BY <1>3, <1>13 DEF vars, call
  <1> QED
    BY <1>6, <1>7, <1>8, <1>9, <1>10, <1>11, <1>12, <1>13 DEF Next, Deletion, DriverStep

\* The controller goes on to delete no object that is stamped for another identity
\* when it is observed, if no http class names a stamp key of its own.
THEOREM ForeignIsNotDeleted ==
  ASSUME \A c \in Classes : c.driver = "http" => c.stampKey = "unset"
  PROVE  Spec => []ForeignIsRecognised
  <1>1. Init => ForeignInv
    <2> SUFFICES ASSUME Init PROVE ForeignInv
      OBVIOUS
    <2>1. stamps[0] = "none" /\ observed = 0 /\ class \in Classes
      BY DEF Init, CallInit
    <2>2. class.driver = "nexus" => \A n \in 0..MaxPuts : stamps[n] = "none"
      BY <2>1 DEF Init, CallInit
    <2> QED
      BY <2>1, <2>2 DEF ForeignInv, ForeignIsRecognised
  <1>2. ForeignInv => ForeignIsRecognised
    BY DEF ForeignInv
  <1> QED
    BY <1>1, <1>2, ForeignStep, TypeCorrect, PTL DEF Spec

-----------------------------------------------------------------------------
(***************************************************************************)
(* Content at the key and at other tags.                                   *)
(***************************************************************************)

\* What the key resolves to is an object that was put, and changes with the
\* driver's own store only.
LEMMA KeyFacts ==
  ASSUME TypeOK
  PROVE  /\ Key \in 0..puts /\ puts \in Nat /\ 0 \notin manifests
         /\ class.driver \notin {"ami", "oci"} => Key = object
         /\ class.driver = "oci" => Key = Resolve("key")
         /\ class.driver = "ami" => Key = IF image.state = "available" THEN image.id ELSE 0
  BY DEF TypeOK, CallTypeOK, OCITypeOK, AMITypeOK, Key, Resolve, Tags

\* The store is the same, so the key is.
LEMMA KeyUnchanged ==
  ASSUME UNCHANGED <<class, object, tags, manifests, image>>
  PROVE  Key' = Key /\ Resolve("key")' = Resolve("key") /\ Resolve("other")' = Resolve("other")
  BY DEF Key, Resolve

\* Deleting a manifest or a tag takes from a tag of the repository only the manifest
\* that is deleted, or the tag of the key.
LEMMA RegistryStep ==
  ASSUME TypeOK, ManifestDeleted \/ TagDeleted
  PROVE  /\ ManifestDeleted => \A t \in Tags :
              Resolve(t)' = IF Resolve(t) = ref THEN 0 ELSE Resolve(t)
         /\ TagDeleted => Resolve("key")' = 0 /\ Resolve("other")' = Resolve("other")
  BY DEF TypeOK, CallTypeOK, OCITypeOK, ManifestDeleted, TagDeleted, Resolve, Tags

\* A step that is not one of the driver leaves the call alone.
LEMMA OthersLeaveCall ==
  ASSUME OthersUse
  PROVE  UNCHANGED call
  BY DEF OthersUse, Put, Remove, OCIUse, EC2Use, RegisterImage, BecomeAvailable,
         DeregisterByHand, OthersUseEC2, Tick

\* The key loses no object to a Delete by id but the one that Delete looked up.
THEOREM ReplacementsSurvive == Spec => ReplacementSurvives
  <1>1. ASSUME TypeOK, [Next]_vars, DeletesByID, call' # call, Key' # Key
        PROVE  Key = ref /\ Key' = 0
    <2>1. /\ UNCHANGED world
          /\ DriverStep \/ UNCHANGED <<object, tags, manifests, image>>
      BY <1>1, OthersLeaveCall DEF Next, Deletion, DriverFor, FinalizerRemoved, DriverStep, vars,
                                   world, registry, ami
    <2>2. DriverStep
      BY <1>1, <2>1, KeyUnchanged DEF world
    <2>3. CASE RepoManagerStep /\ UNCHANGED <<registry, http, ami>>
      <3>1. object' # object
        BY <1>1, <2>1, <2>3, KeyUnchanged DEF world, registry, ami
      <3>2. CASE NexusDelete
        BY <1>1, <2>1, <3>1, <3>2 DEF NexusDelete, At, Key, world
      <3>3. CASE RepoManagerFails
        BY <1>1, <2>1, <3>1, <3>3 DEF RepoManagerFails, DeletesByID, At, Key, world
      <3> QED
        BY <1>1, <2>3, <3>1, <3>2, <3>3
           DEF RepoManagerStep, ArtifactoryObserve, ArtifactoryDelete, NexusObserve, NexusSearch,
               DeletesByID, At
    <2>4. CASE S3Step \/ HTTPStep \/ Mint
      BY <1>1, <2>1, <2>2, <2>4, KeyUnchanged
         DEF S3Step, S3Observe, S3Delete, S3Fails, HTTPStep, Authorize, AuthorizeCached, Exchange,
             Exchanged, Mint, HTTPObserve, HTTPObserveRejected, HTTPDelete, HTTPDeleteRefused,
             HTTPFails, Requesting, DeletesByID, At
    <2>5. CASE OCIStep /\ UNCHANGED <<object, http, ami>>
      <3>1. class.driver = "oci" /\ ~class.tagDelete
        BY <1>1, <2>5 DEF OCIStep, OCIObserve, OCIConfigFile, OCIHead, OCIDeleteManifest,
                          OCIDeleteTag, OCIFails, At, DeletesByID
      <3>2. ManifestDeleted \/ UNCHANGED registry
        BY <2>5, <3>1 DEF OCIStep, OCIObserve, OCIConfigFile, OCIHead, OCIDeleteManifest,
                          OCIDeleteTag, OCIFails
      <3>3. ManifestDeleted
        BY <1>1, <2>1, <2>5, <3>2, KeyUnchanged DEF registry, ami, world
      <3>4. Resolve("key")' = IF Resolve("key") = ref THEN 0 ELSE Resolve("key")
        BY <1>1, <3>3, RegistryStep DEF Tags
      <3> QED
        BY <1>1, <2>1, <3>1, <3>4 DEF Key, world
    <2>6. CASE AMIStep /\ UNCHANGED <<object, registry, http>>
      <3>1. class.driver = "ami" /\ (DeregisterImage \/ UNCHANGED image)
        BY <2>6 DEF AMIStep, AMIObserve, AMIObserveFails, AlreadyGone, Describe, DescribeFails,
                    Deregister, DeregisterUnknown, DeregisterFails, SnapshotsDone, DeleteSnapshot,
                    DeleteSnapshotFails, AMIFails, At, ami, ec2
      <3>2. DeregisterImage
        BY <1>1, <2>1, <2>6, <3>1, KeyUnchanged DEF registry, world
      <3> QED
        BY <1>1, <2>1, <3>1, <3>2 DEF DeregisterImage, NoImage, Key, world
    <2> QED
      BY <2>2, <2>3, <2>4, <2>5, <2>6 DEF DriverStep
  <1>2. TypeOK /\ [Next]_vars =>
          [DeletesByID /\ call' # call /\ Key' # Key => Key = ref /\ Key' = 0]_vars
    BY <1>1
  <1> QED
    BY <1>2, TypeCorrect, PTL DEF Spec, ReplacementSurvives

\* Another tag of the repository loses no content to a Delete but the very manifest
\* that Delete looked up.
THEOREM OtherTagsAreKept == Spec => OtherTagsKeepContent
  <1>1. ASSUME TypeOK, [Next]_vars, call' # call
        PROVE  Resolve("other")' = Resolve("other") \/ Resolve("other") = ref
    <2>1. ManifestDeleted \/ TagDeleted \/ UNCHANGED registry
      BY <1>1, OthersLeaveCall
         DEF Next, Deletion, DriverFor, FinalizerRemoved, DriverStep, vars, OCIStep, OCIObserve,
             OCIConfigFile, OCIHead, OCIDeleteManifest, OCIDeleteTag, OCIFails
    <2>2. CASE UNCHANGED registry
      BY <2>2 DEF registry, Resolve
    <2> QED
      BY <1>1, <2>1, <2>2, RegistryStep DEF Tags
  <1>2. TypeOK /\ [Next]_vars =>
          [call' # call /\ Resolve("other") # 0 =>
             Resolve("other")' = Resolve("other") \/ Resolve("other") = ref]_vars
    BY <1>1
  <1> QED
    BY <1>2, TypeCorrect, PTL DEF Spec, OtherTagsKeepContent

-----------------------------------------------------------------------------
(***************************************************************************)
(* The Driver interface.                                                   *)
(***************************************************************************)

\* An image whose config is read, and an asset that is deleted, are some object.
LookupInv ==
  /\ pc = "config" => class.driver = "oci" /\ observed # 0
  /\ pc = "asset" => class.driver = "nexus" /\ ref # 0

\* Every step preserves the invariant on what was looked up.
LEMMA LookupStep == LookupInv /\ [Next]_vars => LookupInv'
  <1> SUFFICES ASSUME LookupInv, [Next]_vars PROVE LookupInv'
    OBVIOUS
  <1>1. UNCHANGED world
    BY DEF Next, Deletion, DriverFor, FinalizerRemoved, DriverStep, OthersUse, Put, Remove, vars,
           world
  <1>2. ASSUME pc' \notin {"config", "asset"} \/ UNCHANGED call PROVE LookupInv'
    BY <1>1, <1>2 DEF LookupInv, world, call
  <1>3. CASE DriverFor \/ FinalizerRemoved
    BY <1>2, <1>3 DEF DriverFor, NewDriver, NewDriverFails, CallFails, ReturnError,
                      FinalizerRemoved, RemoveFinalizer
  <1>4. CASE S3Step
    BY <1>2, <1>4 DEF S3Step, S3Observe, S3Delete, S3Fails, ObservedWithMetadata, Observed,
                      ReturnNil, CallFails, ReturnError
  <1>5. CASE NexusSearch
    BY <1>1, <1>5 DEF NexusSearch, ReturnNil, Proceed, At, LookupInv, world
  <1>6. CASE RepoManagerStep
    BY <1>2, <1>5, <1>6 DEF RepoManagerStep, ArtifactoryObserve, ArtifactoryDelete, NexusObserve,
                            NexusDelete, RepoManagerFails, ObservedWithMetadata, Observed,
                            ReturnNil, CallFails, ReturnError
  <1>7. CASE HTTPStep \/ Mint
    BY <1>2, <1>7 DEF HTTPStep, Authorize, AuthorizeCached, Exchange, Mint, Exchanged,
                      HTTPObserve, HTTPObserveRejected, HTTPDelete, HTTPDeleteRefused, HTTPFails,
                      Observed, ReturnNil, CallFails, ReturnError
  <1>8. CASE OCIObserve
    BY <1>1, <1>8 DEF OCIObserve, Observed, At, LookupInv, world
  <1>9. CASE OCIStep
    BY <1>2, <1>8, <1>9 DEF OCIStep, OCIConfigFile, OCIHead, OCIDeleteManifest, OCIDeleteTag,
                            OCIFails, ObservedWithMetadata, Observed, ReturnNil, CallFails,
                            ReturnError, Proceed
  <1>10. CASE AMIStep
    BY <1>2, <1>10 DEF AMIStep, AMIObserve, AMIObserveFails, AlreadyGone, Describe, DescribeFails,
                       Deregister, DeregisterUnknown, DeregisterFails, SnapshotsDone,
                       DeleteSnapshot, DeleteSnapshotFails, AMIFails, ObservedWithMetadata,
                       Observed, ReturnNil, CallFails, ReturnError, Proceed
  <1>11. CASE OthersUse \/ UNCHANGED vars
    BY <1>2, <1>11, OthersLeaveCall DEF vars
  <1> QED
    BY <1>3, <1>4, <1>6, <1>7, <1>9, <1>10, <1>11 DEF Next, Deletion, DriverStep

\* The object of the interface, as the refinement maps it.
Promised == IF CanPromise THEN Key ELSE 0

\* Every step of every driver is a step of the interface, or one that it does not
\* see.
LEMMA DriverNext ==
  ASSUME TypeOK, TypeOK', LookupInv, [Next]_vars
  PROVE  Driver!Next \/ UNCHANGED <<Promised, DeleteCall>>
  <1>1. UNCHANGED world /\ CanPromise' = CanPromise
    BY DEF Next, Deletion, DriverFor, FinalizerRemoved, DriverStep, OthersUse, Put, Remove, vars,
           world, CanPromise
  <1>2. Promised \in Nat /\ Promised' \in Nat
    <2>1. Key' \in 0..puts' /\ puts' \in Nat
      BY DEF TypeOK, CallTypeOK, OCITypeOK, AMITypeOK, Key, Resolve, Tags
    <2> QED
      BY <2>1, KeyFacts DEF Promised
  <1>3. ASSUME ReturnError, pc \notin Over, Key' \in {Key, 0}
        PROVE  Driver!Next \/ UNCHANGED <<Promised, DeleteCall>>
    <2>1. DeleteCall' = "none" /\ Promised' \in {Promised, 0}
      BY <1>1, <1>3 DEF ReturnError, DeleteCall, Promised
    <2>2. CASE pc = "driverFor"
      BY <1>2, <2>1, <2>2 DEF DeleteCall, Promised, Driver!Next, Driver!OthersUse
    <2>3. CASE pc # "driverFor"
      <3>1. DeleteCall \in {"delete", "gone"}
        BY <1>3, <2>3 DEF DeleteCall, Over
      <3> QED
        BY <2>1, <3>1 DEF Promised, Driver!Next, Driver!ReturnError
    <2> QED
      BY <2>2, <2>3
  <1>4. ASSUME NEW n, NEW st, NEW k, Observed(n, st, k), pc \in {"observe", "config"},
               n = 0 => Key = 0, Key' = Key
        PROVE  Driver!Next \/ UNCHANGED <<Promised, DeleteCall>>
    <2>1. DeleteCall = "delete" /\ UNCHANGED Promised
      BY <1>1, <1>4 DEF DeleteCall, Promised
    <2>2. CASE pc' = "absent"
      BY <1>4, <2>1, <2>2 DEF Observed, DeleteCall, Promised, Driver!Next, Driver!ReturnNil
    <2>3. CASE pc' = "kept"
      BY <2>1, <2>3 DEF DeleteCall, Promised, Driver!Next, Driver!ReturnError
    <2>4. CASE pc' = "delete"
      BY <2>1, <2>4 DEF DeleteCall
    <2> QED
      BY <1>4, <2>2, <2>3, <2>4 DEF Observed
  <1>5. ASSUME ReturnNil, pc \in {"delete", "tag"}, Promised' = 0
        PROVE  Driver!Next
    BY <1>5 DEF ReturnNil, DeleteCall, Promised, Driver!Next, Driver!Remove
  <1>6. ASSUME UNCHANGED DeleteCall
        PROVE  Driver!Next
    BY <1>2, <1>6 DEF Promised, Driver!Next, Driver!OthersUse
  <1>7. ASSUME UNCHANGED call, pc # "asset" \/ UNCHANGED object
        PROVE  Driver!Next
    BY <1>6, <1>7 DEF call, DeleteCall
  <1>8. CASE DriverFor
    <2>1. Key' = Key
      BY <1>1, <1>8, KeyUnchanged DEF DriverFor, world, registry, ami
    <2>2. CASE NewDriver
      BY <1>1, <2>1, <2>2 DEF NewDriver, DeleteCall, Promised, Driver!Next, Driver!Call
    <2>3. CASE NewDriverFails
      BY <1>3, <2>1, <2>3 DEF NewDriverFails, CallFails, Over
    <2> QED
      BY <1>8, <2>2, <2>3 DEF DriverFor
  <1>9. CASE FinalizerRemoved
    <2>1. UNCHANGED Promised
      BY <1>1, <1>9, KeyUnchanged DEF FinalizerRemoved, world, registry, ami, Promised
    <2> QED
      BY <1>9, <2>1 DEF FinalizerRemoved, RemoveFinalizer, DeleteCall, Promised, Driver!Next,
                        Driver!ReturnNil
  <1>10. CASE (S3Step \/ RepoManagerStep) /\ UNCHANGED <<registry, http, ami>>
    <2>1. class.driver \in {"s3", "artifactory", "nexus"} /\ Key = object /\ Key' = object'
      BY <1>1, <1>10, KeyFacts
         DEF S3Step, S3Observe, S3Delete, S3Fails, RepoManagerStep, ArtifactoryObserve,
             ArtifactoryDelete, NexusObserve, NexusSearch, NexusDelete, RepoManagerFails, At,
             world, Key
    <2>2. CASE S3Observe \/ ArtifactoryObserve \/ NexusObserve
      BY <1>4, <2>1, <2>2 DEF S3Observe, ArtifactoryObserve, NexusObserve, ObservedWithMetadata, At
    <2>3. CASE S3Delete \/ ArtifactoryDelete
      BY <1>5, <2>1, <2>3 DEF S3Delete, ArtifactoryDelete, At, Promised
    <2>4. CASE NexusSearch /\ object = 0
      BY <1>5, <2>1, <2>4 DEF NexusSearch, At, Promised
    <2>5. CASE NexusSearch /\ object # 0
      BY <1>6, <2>5 DEF NexusSearch, Proceed, At, DeleteCall
    <2>6. CASE NexusDelete /\ object = ref
      BY <2>1, <2>6 DEF NexusDelete, At, ReturnNil, DeleteCall, Promised, Driver!Next,
                        Driver!Remove
    <2>7. CASE NexusDelete /\ object # ref
      BY <1>6, <2>7 DEF NexusDelete, At, ReturnNil, DeleteCall
    <2>8. CASE S3Fails \/ RepoManagerFails
      BY <1>3, <2>1, <2>8 DEF S3Fails, RepoManagerFails, CallFails, At, Over
    <2> QED
      BY <1>10, <2>2, <2>3, <2>4, <2>5, <2>6, <2>7, <2>8 DEF S3Step, RepoManagerStep
  <1>11. CASE (HTTPStep \/ Mint) /\ UNCHANGED <<registry, ami>>
    <2>1. CASE UNCHANGED <<call, object>>
      BY <1>7, <2>1
    <2>2. CASE /\ \/ HTTPObserve \/ HTTPObserveRejected \/ HTTPDelete \/ HTTPDeleteRefused
                  \/ HTTPFails
               /\ UNCHANGED <<registry, ami>>
      <3>1. class.driver = "http" /\ Key = object /\ Key' = object'
            /\ (class.exists = "default" => Promised = 0 /\ Promised' = 0)
        BY <1>1, <2>2, KeyFacts
           DEF HTTPObserve, HTTPObserveRejected, HTTPDelete, HTTPDeleteRefused, HTTPFails, At,
               world, Key, Promised, CanPromise
      <3>2. CASE HTTPObserve
        BY <1>4, <3>1, <3>2 DEF HTTPObserve, At
      <3>3. CASE HTTPObserveRejected /\ class.exists = "default"
        BY <3>1, <3>3 DEF HTTPObserveRejected, At, DeleteCall, Promised, Driver!Next,
                          Driver!ReturnNil
      <3>4. CASE HTTPObserveRejected /\ class.exists # "default"
        BY <1>3, <3>1, <3>4 DEF HTTPObserveRejected, At, Over
      <3>5. CASE HTTPDelete
        BY <1>5, <3>1, <3>5 DEF HTTPDelete, At, Promised
      <3>6. CASE HTTPDeleteRefused \/ HTTPFails
        BY <1>3, <3>1, <3>6 DEF HTTPDeleteRefused, HTTPFails, CallFails, At, Over
      <3> QED
        BY <2>2, <3>2, <3>3, <3>4, <3>5, <3>6
    <2> QED
      BY <1>11, <2>1, <2>2 DEF HTTPStep, Authorize, AuthorizeCached, Exchange, Exchanged, Mint,
                               Requesting
  <1>12. CASE OCIStep /\ UNCHANGED <<object, http, ami>>
    <2>1. class.driver = "oci" /\ Key = Resolve("key") /\ Key' = Resolve("key")'
      BY <1>1, <1>12, KeyFacts
         DEF OCIStep, OCIObserve, OCIConfigFile, OCIHead, OCIDeleteManifest, OCIDeleteTag,
             OCIFails, At, world, Key
    <2>2. UNCHANGED registry => Key' = Key
      BY <1>1, <1>12, KeyUnchanged DEF registry, world, ami
    <2>3. ManifestDeleted \/ TagDeleted => Key' \in {Key, 0}
      BY <2>1, RegistryStep DEF Tags
    <2>4. CASE OCIObserve /\ pc' = "config"
      BY <1>6, <2>4 DEF OCIObserve, At, DeleteCall
    <2>5. CASE OCIObserve /\ pc' # "config"
      BY <1>4, <2>1, <2>2, <2>5 DEF OCIObserve, At
    <2>6. CASE OCIConfigFile
      BY <1>4, <2>2, <2>6 DEF OCIConfigFile, ObservedWithMetadata, At, LookupInv
    <2>7. CASE OCIHead /\ Resolve("key") = 0
      BY <1>5, <2>1, <2>2, <2>7 DEF OCIHead, At, Promised
    <2>8. CASE (OCIHead /\ Resolve("key") # 0) \/ OCIDeleteManifest
      BY <1>6, <2>8 DEF OCIHead, OCIDeleteManifest, Proceed, At, DeleteCall
    <2>9. CASE OCIDeleteTag
      <3>1. Promised' = 0
        BY <1>1, <2>1, <2>9, RegistryStep DEF OCIDeleteTag, Promised, CanPromise, world
      <3> QED
        BY <1>5, <2>9, <3>1 DEF OCIDeleteTag, At
    <2>10. CASE OCIFails
      BY <1>3, <2>2, <2>3, <2>10 DEF OCIFails, CallFails, Over
    <2> QED
      BY <1>12, <2>4, <2>5, <2>6, <2>7, <2>8, <2>9, <2>10 DEF OCIStep
  <1>13. CASE AMIStep /\ UNCHANGED <<object, registry, http>>
    <2>1. /\ class.driver = "ami" /\ Key = IF image.state = "available" THEN image.id ELSE 0
          /\ Key' = IF image'.state = "available" THEN image'.id ELSE 0
      BY <1>1, <1>13, KeyFacts
         DEF AMIStep, AMIObserve, AMIObserveFails, AlreadyGone, Describe, DescribeFails,
             Deregister, DeregisterUnknown, DeregisterFails, SnapshotsDone, DeleteSnapshot,
             DeleteSnapshotFails, AMIFails, At, world, Key
    <2>2. DeregisterImage => Key' = 0
      BY <2>1 DEF DeregisterImage, NoImage
    <2>3. UNCHANGED image => Key' = Key
      BY <2>1
    <2>4. CASE AMIObserve
      BY <1>4, <2>1, <2>3, <2>4 DEF AMIObserve, ObservedWithMetadata, At, ami
    <2>5. CASE AMIObserveFails \/ DescribeFails \/ DeregisterUnknown
      BY <1>3, <2>3, <2>5 DEF AMIObserveFails, DescribeFails, DeregisterUnknown, AMIFails,
                              CallFails, At, Over, ec2
    <2>6. CASE AlreadyGone
      <3>1. Promised' = 0
        BY <2>1, <2>6 DEF AlreadyGone, ami, TypeOK, AMITypeOK, Promised
      <3> QED
        BY <1>5, <2>6, <3>1 DEF AlreadyGone, At
    <2>7. CASE Describe \/ SnapshotsDone
      BY <1>6, <2>7 DEF Describe, SnapshotsDone, Proceed, ReturnNil, At, DeleteCall
    <2>8. CASE Deregister
      BY <2>2, <2>8 DEF Deregister, At, Proceed, DeleteCall, Promised, Driver!Next, Driver!Remove
    <2>9. CASE DeregisterFails
      BY <1>3, <2>2, <2>3, <2>9 DEF DeregisterFails, AMIFails, CallFails, At, Over
    <2>10. ASSUME NEW s \in SnapshotIDs, DeleteSnapshot(s)
           PROVE  Driver!Next
      BY <1>7, <1>13, <2>10 DEF DeleteSnapshot
    <2>11. ASSUME NEW s \in SnapshotIDs, DeleteSnapshotFails(s)
           PROVE  Driver!Next \/ UNCHANGED <<Promised, DeleteCall>>
      BY <1>3, <2>3, <2>11 DEF DeleteSnapshotFails, AMIFails, CallFails, At, Over
    <2> QED
      BY <1>13, <2>4, <2>5, <2>6, <2>7, <2>8, <2>9, <2>10, <2>11 DEF AMIStep
  <1>14. CASE Put \/ Remove
    <2>1. CASE pc # "asset"
      BY <1>7, <1>14, <2>1 DEF Put, Remove
    <2>2. CASE pc = "asset" /\ object # ref
      <3>1. object' # ref
        BY <1>14, <2>2 DEF Put, Remove, LookupInv, TypeOK, CallTypeOK
      <3> QED
        BY <1>6, <1>14, <2>2, <3>1 DEF Put, Remove, DeleteCall, call
    <2>3. CASE pc = "asset" /\ object = ref
      <3>1. Remove /\ class.driver = "nexus" /\ ref # 0
        BY <1>14, <2>3 DEF Put, LookupInv
      <3>2. Promised' = 0
        BY <1>1, <3>1 DEF Remove, Promised, Key, world
      <3>3. DeleteCall = "delete" /\ DeleteCall' = "gone"
        BY <2>3, <3>1 DEF Remove, call, DeleteCall
      <3> QED
        BY <3>2, <3>3 DEF Promised, Driver!Next, Driver!Remove
    <2> QED
      BY <2>1, <2>2, <2>3
  <1>15. CASE OthersUse
    BY <1>7, <1>14, <1>15, OthersLeaveCall
       DEF OthersUse, OCIUse, EC2Use, RegisterImage, BecomeAvailable, DeregisterByHand,
           OthersUseEC2, Tick
  <1>16. CASE UNCHANGED vars
    BY <1>7, <1>16 DEF vars
  <1> QED
    BY <1>8, <1>9, <1>10, <1>11, <1>12, <1>13, <1>15, <1>16 DEF Next, Deletion, DriverStep

\* Every driver keeps the promise of the Driver interface, with every class that can.
THEOREM ImplementsDriver == Spec => DriverContract
  <1>1. Init => Driver!Init
    <2> SUFFICES ASSUME Init PROVE Driver!Init
      OBVIOUS
    <2>1. Promised = 0
      BY DEF Init, CallInit, OCIInit, AMIInit, NoImage, Promised, Key, Resolve, Tags
    <2> QED
      BY <2>1 DEF Init, CallInit, Driver!Init, DeleteCall, Promised
  <1>2. Init => LookupInv
    BY DEF Init, CallInit, LookupInv
  <1>3. TypeOK /\ TypeOK' /\ LookupInv /\ [Next]_vars =>
          [Driver!Next]_<<IF CanPromise THEN Key ELSE 0, DeleteCall>>
    BY DriverNext DEF Promised
  <1> QED
    BY <1>1, <1>2, <1>3, LookupStep, TypeCorrect, PTL DEF Spec, DriverContract, Driver!Spec
=============================================================================
