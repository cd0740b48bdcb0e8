------------------------------ MODULE DriverCall ------------------------------
(***************************************************************************)
(* The deletion of an Artifact's object through a store driver, as         *)
(* reconcileDelete runs it: DriverFor builds the driver that the class     *)
(* names, Observe looks at the key, Delete follows unless the key is empty *)
(* or its object is stamped for another identity.  An error ends the       *)
(* reconcile, and the next one starts over with a new driver.  Any call    *)
(* may fail, and one that fails may have been carried out.                 *)
(*                                                                         *)
(* This is what the drivers have in common; each has a module of its own   *)
(* and StoreDrivers puts them together.                                    *)
(***************************************************************************)
EXTENDS Integers

CONSTANTS
  Classes,    \* versions of the ArtifactClass
  MaxPuts,    \* bound on the objects put into the store
  MaxFaults   \* bound on the calls that fail

Registered == {"s3", "artifactory", "nexus", "oci", "http", "ami"}

Class ==
  [driver    : Registered,
   stampKey  : {"unset", "custom"},             \* the stamp key in the driver's stanza
   auth      : {"static", "clientCredentials"}, \* http: how requests are authorized
   exists    : {"default", "strict"},           \* http: any 2xx, or an expression that
                                                \* fails on what is neither 2xx nor 404
   delete    : BOOLEAN,                         \* http: there is a delete request
   retires   : BOOLEAN,                         \* oci: a tag goes with its manifest
   tagDelete : BOOLEAN]                         \* oci: tags can be deleted

ASSUME ClassAssumption == Classes \subseteq Class

ASSUME BoundAssumption == MaxPuts \in Nat /\ MaxFaults \in Nat

Stamps == {"ours", "none", "foreign"}

VARIABLES
  class,     \* the ArtifactClass
  stamps,    \* the stamp of every object that is or will be put
  object,    \* the object at the key, 0 for none (oci and ami have their own stores)
  puts,      \* objects put so far
  pc,        \* where the deletion is
  observed,  \* the object that Observe saw
  ref,       \* the object that Delete looked up, by digest or id
  faults

call  == <<pc, observed, ref, faults>>
world == <<class, stamps>>

\* The deletion is over: the finalizer is gone.
Over == {"absent", "kept", "deleted"}

At(d, p) == class.driver = d /\ pc = p

\* An error: the reconcile ends and is retried.
ReturnError == pc' = "driverFor" /\ observed' = 0 /\ ref' = 0

CallFails == faults < MaxFaults /\ faults' = faults + 1 /\ ReturnError

\* The metadata key under which the controller looks for the stamp.
StampMetadataKey(c) ==
  IF c.driver # "http" /\ c.stampKey # "unset" THEN c.stampKey
  ELSE IF c.driver = "oci" THEN "ociDefault" ELSE "default"

\* Observe returns object n, whose stamp s was published under the given key.
Observed(n, s, key) ==
  /\ observed' = n
  /\ pc' = IF n = 0 THEN "absent"
           ELSE IF s = "foreign" /\ key = StampMetadataKey(class) THEN "kept" ELSE "delete"
  /\ UNCHANGED <<ref, faults>>

\* The object with its metadata, which a generator stamps under the class's key.
ObservedWithMetadata(n) == Observed(n, stamps[n], StampMetadataKey(class))

\* Delete returns nil.
ReturnNil == pc' = "returned" /\ UNCHANGED <<observed, ref, faults>>

\* The next step of the call.
Proceed(p) == pc' = p /\ UNCHANGED <<observed, faults>>

-----------------------------------------------------------------------------
\* DriverFor finds and runs the factory.
NewDriver ==
  /\ pc = "driverFor" /\ class.driver \in Registered
  /\ pc' = "observe" /\ UNCHANGED <<observed, ref, faults>>

\* The factory cannot read a secret or a configuration.
NewDriverFails == pc = "driverFor" /\ CallFails

\* Delete returned nil: the finalizer is removed.
RemoveFinalizer == pc = "returned" /\ pc' = "deleted" /\ UNCHANGED <<observed, ref, faults>>

CallInit ==
  /\ class \in Classes
  /\ stamps \in {s \in [0..MaxPuts -> Stamps] :
                   s[0] = "none" /\ (class.driver = "nexus" => \A n \in 1..MaxPuts : s[n] = "none")}
  /\ object = 0 /\ puts = 0
  /\ pc = "driverFor" /\ observed = 0 /\ ref = 0 /\ faults = 0

CallTypeOK ==
  /\ class \in Class /\ stamps \in [0..MaxPuts -> Stamps] /\ stamps[0] = "none"
  /\ puts \in 0..MaxPuts /\ object \in 0..puts
  /\ pc \in {"driverFor", "observe", "config", "delete", "asset", "manifest", "tag",
             "deregister", "snapshots", "returned"} \cup Over
  /\ observed \in 0..puts /\ ref \in 0..puts /\ faults \in 0..MaxFaults
=============================================================================
