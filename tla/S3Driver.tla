------------------------------- MODULE S3Driver -------------------------------
(***************************************************************************)
(* The s3 driver: one request per operation.                               *)
(***************************************************************************)
EXTENDS DriverCall

S3Observe ==
  /\ At("s3", "observe") /\ ObservedWithMetadata(object)
  /\ UNCHANGED object

\* Deleting what is not there is no error.
S3Delete ==
  /\ At("s3", "delete") /\ ReturnNil
  /\ object' = 0

S3Fails ==
  /\ CallFails
  /\ \/ At("s3", "observe") /\ UNCHANGED object
     \/ At("s3", "delete") /\ object' \in {object, 0}

S3Step == S3Observe \/ S3Delete \/ S3Fails
=============================================================================
