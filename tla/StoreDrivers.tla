----------------------------- MODULE StoreDrivers -----------------------------
(***************************************************************************)
(* All store drivers that main registers, under the deletion of one        *)
(* Artifact whose class names one of them, beside other users of the       *)
(* store.                                                                  *)
(***************************************************************************)
EXTENDS S3Driver, RepoManagerDriver, OCIDriver, HTTPDriver, AMIDriver

vars == <<class, stamps, object, puts, call, registry, http, ami>>

-----------------------------------------------------------------------------
\* Every reconcile builds its own driver, with an empty token cache.
DriverFor ==
  /\ NewDriver \/ NewDriverFails
  /\ token' = NoCache
  /\ UNCHANGED <<world, object, puts, registry, now, wire, ami>>

FinalizerRemoved ==
  RemoveFinalizer /\ UNCHANGED <<world, object, puts, registry, http, ami>>

\* A call of the driver.
DriverStep ==
  /\ \/ (S3Step \/ RepoManagerStep) /\ UNCHANGED <<registry, http, ami>>
     \/ (HTTPStep \/ Mint) /\ UNCHANGED <<registry, ami>>
     \/ OCIStep /\ UNCHANGED <<object, http, ami>>
     \/ AMIStep /\ UNCHANGED <<object, registry, http>>
  /\ UNCHANGED <<world, puts>>

\* A generator run or somebody else puts an object at the key; what is at a path
\* of nexus keeps its asset.
Put ==
  /\ class.driver \in {"s3", "artifactory", "http"} \/ (class.driver = "nexus" /\ object = 0)
  /\ puts < MaxPuts /\ puts' = puts + 1 /\ object' = puts'
  /\ UNCHANGED <<world, call, registry, http, ami>>

Remove ==
  /\ object # 0 /\ object' = 0
  /\ UNCHANGED <<world, puts, call, registry, http, ami>>

OthersUse ==
  \/ Put \/ Remove
  \/ (\E t \in Tags : OCIUse(t)) /\ UNCHANGED <<world, http, ami>>
  \/ EC2Use /\ UNCHANGED <<world, registry, http>>
  \/ Tick /\ UNCHANGED <<world, puts, registry, ami>>

Init == CallInit /\ OCIInit /\ HTTPInit /\ AMIInit

Deletion == DriverFor \/ DriverStep \/ FinalizerRemoved

Next == Deletion \/ OthersUse

Spec == Init /\ [][Next]_vars

\* The controller retries until the deletion is over, and a request ends.
FairSpec == Spec /\ WF_vars(Deletion)

-----------------------------------------------------------------------------
TypeOK == CallTypeOK /\ OCITypeOK /\ HTTPTypeOK /\ AMITypeOK

\* The object that the key resolves to; an image that cannot be launched yet is
\* none.
Key ==
  CASE class.driver = "ami" -> IF image.state = "available" THEN image.id ELSE 0
    [] class.driver = "oci" -> Resolve("key")
    [] OTHER -> object

\* Where the deletion is, in the terms of the Driver interface.  An asset of nexus
\* that was replaced has been gone in between.
DeleteCall ==
  CASE pc \in {"driverFor", "kept"} -> "none"
    [] pc \in {"returned", "snapshots"} -> "gone"
    [] pc = "asset" /\ object # ref -> "gone"
    [] pc \in {"absent", "deleted"} -> "ok"
    [] OTHER -> "delete"

\* Two kinds of class cannot keep the contract.  A registry that refuses to delete
\* tags leaves a tag that was moved during Delete, and an http class that takes
\* every answer but success for an empty key takes an outage for one.
CanPromise ==
  /\ class.driver = "oci" => class.tagDelete
  /\ class.driver = "http" => class.exists = "strict"

Driver == INSTANCE StoreDriver WITH object <- IF CanPromise THEN Key ELSE 0, call <- DeleteCall

\* Whatever fails and whoever else uses the store, the deletion ends without an
\* error only if the key was empty at some time since it began (the Driver
\* interface), with every class that can promise it.
DriverContract == Driver!Spec

\* With finitely many failing calls the deletion is over in the end, unless the
\* class cannot delete at all: an object that goes away or is replaced under the
\* driver does not keep it from returning.
DeletionEnds == (class.driver = "http" => class.delete) => <>(pc \in Over)

\* What Observe reports is stamped for another identity or it is not: an object of
\* another identity is never one that the controller goes on to delete.
ForeignIsRecognised == pc \notin {"absent", "kept", "observe", "config"} =>
                         stamps[observed] # "foreign"

\* Delete removes an object by the id or digest that it looked up.
DeletesByID ==
  class.driver \in {"nexus", "ami"} \/ (class.driver = "oci" /\ ~class.tagDelete)

\* A Delete by id leaves content alone that was put at the key after the lookup:
\* the key loses no object to it but the one that was looked up.
ReplacementSurvives ==
  [][DeletesByID /\ call' # call /\ Key' # Key => Key = ref /\ Key' = 0]_vars

\* Delete of the oci driver takes the content of another tag only if that tag names
\* the very manifest that the key named when Delete looked.
OtherTagsKeepContent ==
  [][call' # call /\ Resolve("other") # 0 =>
       Resolve("other")' = Resolve("other") \/ Resolve("other") = ref]_vars
=============================================================================
