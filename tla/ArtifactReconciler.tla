------------------------- MODULE ArtifactReconciler -------------------------
(***************************************************************************)
(* The reconcile loop of one Artifact                                      *)
(* (internal/controller/artifact_controller.go).                           *)
(*                                                                         *)
(* The loop reads the Artifact from the informer cache, which may lag the  *)
(* API server, works on a copy in memory, talks to the store and to the    *)
(* generator engine, and writes the difference to what it read back to the *)
(* API server when it returns.  A reconcile is therefore three steps here, *)
(* with everything else free to happen between them:                       *)
(*   read   the cached Artifact, the class and the store object;           *)
(*   act    the one handler that the observation selects;                  *)
(*   patch  the deferred SerialPatcher call.                               *)
(* The work queue never hands one key to two workers, so there is one loop.*)
(*                                                                         *)
(* Time is left out: a timer that has been started (backoff, grace period, *)
(* progress deadline) may be found running or over by any reconcile.       *)
(***************************************************************************)
EXTENDS Integers

CONSTANTS
  Specs,        \* Artifact specs that may be created
  Classes,      \* versions the ArtifactClass may have
  Objects,      \* objects that other writers may put at the store key
  Ops,          \* kinds of user operation that happen
  Faults,       \* kinds of fault that happen
  MaxAttempts,  \* the largest failure budget of any class version
  MaxRuns,      \* bound on status.attempts
  MaxOps,       \* bound on user operations
  MaxFaults,    \* bound on faults
  MaxStale,     \* bound on reconciles that start from a cache that lags
  MaxWrites     \* bound on writes of others to the store key

States == {"", "Pending", "Generating", "AwaitingArtifact", "Ready", "Suspended",
           "KeyConflict", "Degraded", "Missing", "Expired", "Deleting"}

Cond == {"absent", "True", "False"}

(***************************************************************************)
(* What the user owns of the CR.  ttl and deleteAfter say whether the      *)
(* field is set; retry is the value of the retry annotation, 0 for none.   *)
(***************************************************************************)
ArtifactSpec ==
  [exists: BOOLEAN, deleting: BOOLEAN, managementPolicy: {"Full", "Observe"},
   suspend: BOOLEAN, deletionPolicy: {"Orphan", "Delete"}, ttl: BOOLEAN,
   deleteAfter: BOOLEAN, retry: Nat]

(***************************************************************************)
(* What the controller writes: .status and its entry in                    *)
(* metadata.finalizers.  generatorRef is the attempt number of the run it  *)
(* names; generatorSucceededAt and lastFailureTime are the number of the   *)
(* attempt whose success or failure they date; 0 is nil, and digest 0 is   *)
(* the empty string.  The last five are conditions, without their reasons  *)
(* and messages.                                                           *)
(***************************************************************************)
ArtifactStatus ==
  [finalizer: BOOLEAN, state: States, key: BOOLEAN, digest: Int, attempts: Nat,
   failedAttempts: Nat, lastFailureTime: Nat, generatorRef: Nat,
   generatorSucceededAt: Nat, retryToken: Nat, ready: Cond, inStore: Cond,
   stalled: Cond, reconciling: Cond, drifted: Cond]

NewStatus ==
  [finalizer |-> FALSE, state |-> "", key |-> FALSE, digest |-> 0, attempts |-> 0,
   failedAttempts |-> 0, lastFailureTime |-> 0, generatorRef |-> 0,
   generatorSucceededAt |-> 0, retryToken |-> 0, ready |-> "absent",
   inStore |-> "absent", stalled |-> "absent", reconciling |-> "absent",
   drifted |-> "absent"]

(***************************************************************************)
(* A version of the class: does it exist, can its store driver be built,   *)
(* do its key template and its run template render, has it a generator     *)
(* with a progress deadline, its drift policy and its failure budget.      *)
(***************************************************************************)
ArtifactClass ==
  [exists: BOOLEAN, driver: BOOLEAN, keyTemplate: BOOLEAN, generator: BOOLEAN,
   template: BOOLEAN, deadline: BOOLEAN, drift: {"Warn", "Ignore", "Regenerate"},
   maxAttempts: 1..MaxAttempts]

(***************************************************************************)
(* The object at the store key.  Attempt n uploads content n; content of   *)
(* other writers is negative, and 0 where the store reports no digest.     *)
(***************************************************************************)
Object == [present: BOOLEAN, digest: Int, stamp: {"ours", "none", "foreign"}]

NoObject == [present |-> FALSE, digest |-> 0, stamp |-> "none"]

(***************************************************************************)
(* Attempt n of the generator: its object in the API server (alien is an   *)
(* object of that name that this Artifact does not control), and whether   *)
(* the workload behind it may still upload.  Deleting the object does not  *)
(* stop the workload at once: deletion propagates in the background.       *)
(***************************************************************************)
Run == [api: {"none", "running", "succeeded", "failed", "alien"}, worker: BOOLEAN]

NoRun == [api |-> "none", worker |-> FALSE]

Handlers == {"idle", "reconcileExisting", "reconcileMissing",
             "reconcileMissingObserved", "reconcileExpired", "reconcileDelete",
             "patch"}

ASSUME BoundsAssumption ==
  /\ MaxAttempts \in Nat \ {0} /\ MaxRuns \in Nat
  /\ MaxOps \in Nat /\ MaxFaults \in Nat /\ MaxStale \in Nat /\ MaxWrites \in Nat

\* The CRD's validation rules keep Observe apart from deleteAfter and Delete.
ASSUME InputsAssumption ==
  /\ Specs \subseteq {s \in ArtifactSpec :
       /\ s.exists /\ ~s.deleting /\ s.retry = 0
       /\ s.managementPolicy = "Observe" => ~s.deleteAfter /\ s.deletionPolicy = "Orphan"}
  /\ Classes \subseteq ArtifactClass
  /\ Objects \subseteq {o \in Object : o.present /\ o.digest <= 0}

VARIABLES
  spec, status,      \* the Artifact in the API server
  cSpec, cStatus,    \* the Artifact in the informer cache
  class,             \* the ArtifactClass
  runs,              \* attempt -> Run
  store,             \* the object at the store key
  due,               \* the age limits the CR has passed
  queued,            \* the work queue holds the key, or a delayed add of it
  watching,          \* the owner watch on the generator kind is registered
  pc,                \* the handler to run next, "idle" between reconciles
  obj, base, oSpec,  \* the copy in memory, and what was read of it
  klass, obs,        \* the class and the store object that were read
  again,             \* the reconcile returns an error or a RequeueAfter
  ops, faults, stale, writes

api    == <<spec, status>>
cached == <<cSpec, cStatus>>
memory == <<obj, base, oSpec, klass, obs, again>>
bounds == <<ops, faults, stale, writes>>
vars   == <<spec, status, cSpec, cStatus, class, runs, store, due, queued, watching,
            pc, obj, base, oSpec, klass, obs, again, ops, faults, stale, writes>>

-----------------------------------------------------------------------------
(***************************************************************************)
(* The helpers: what each does to the Artifact in memory.                  *)
(***************************************************************************)

NoSpec ==
  [exists |-> FALSE, deleting |-> FALSE, managementPolicy |-> "Full", suspend |-> FALSE,
   deletionPolicy |-> "Orphan", ttl |-> FALSE, deleteAfter |-> FALSE, retry |-> 0]

NoClass ==
  [exists |-> FALSE, driver |-> FALSE, keyTemplate |-> FALSE, generator |-> FALSE,
   template |-> FALSE, deadline |-> FALSE, drift |-> "Warn", maxAttempts |-> 1]

ObserveOnly(s) == s.managementPolicy = "Observe"

MarkStalled(o) == [o EXCEPT !.reconciling = "absent", !.stalled = "True"]

MarkReconciling(o) == [o EXCEPT !.stalled = "absent", !.reconciling = "True"]

\* Faulty variant: Ready stays what it was.
ReadyKept(o) == o

NotReady(o) == [o EXCEPT !.ready = "False"]

\* Neither in progress nor stuck.
Settled(o) == [o EXCEPT !.reconciling = "absent", !.stalled = "absent"]

\* Faulty variant: the success of the run is kept.
ForgetRefOnly(o) == [o EXCEPT !.generatorRef = 0]

\* No run is in flight.
Forget(o) == [o EXCEPT !.generatorRef = 0, !.generatorSucceededAt = 0]

\* Faulty variant: the lifetime counter is reset with the failures.
ClearFailuresAndAttempts(o) ==
  [o EXCEPT !.failedAttempts = 0, !.lastFailureTime = 0, !.attempts = 0]

ClearFailures(o) == [o EXCEPT !.failedAttempts = 0, !.lastFailureTime = 0]

\* The top of reconcile: the initial state and the retry annotation.
HonorRetry(o, s) ==
  LET p == [o EXCEPT !.state = IF @ = "" THEN "Pending" ELSE @]
  IN  IF s.retry = 0 \/ s.retry = o.retryToken THEN p
      ELSE [ClearFailures(p) EXCEPT !.retryToken = s.retry, !.stalled = "absent"]

Suspended(o) ==
  [o EXCEPT !.state = "Suspended", !.reconciling = "absent", !.ready = "False"]

\* Faulty variant: the failed run stays in flight.
RecordFailureOnly(o, maxAttempts) ==
  NotReady([MarkReconciling(o) EXCEPT !.failedAttempts = @ + 1,
                                      !.lastFailureTime = o.generatorRef])

\* Faulty variant: the budget is counted down.
RecordFailureDownwards(o, maxAttempts) ==
  NotReady([Forget(MarkReconciling(o)) EXCEPT !.failedAttempts = @ - 1,
                                              !.lastFailureTime = o.generatorRef])

RecordAttemptFailure(o, maxAttempts) ==
  LET p == [Forget(o) EXCEPT !.failedAttempts = @ + 1, !.lastFailureTime = o.generatorRef]
  IN  NotReady(IF p.failedAttempts >= maxAttempts
               THEN [MarkStalled(p) EXCEPT !.state = "Degraded"]
               ELSE [MarkReconciling(p) EXCEPT !.state = "Generating"])

\* Faulty variant: the stamp is not looked at.
AnyStamp(seen) == seen.stamp \in {"ours", "none", "foreign"}

\* The object does not carry the stamp of another identity.
Ours(seen) == seen.stamp \in {"ours", "none"}

\* The content changed with no run of ours since the last verification.
IsDrift(o, seen) ==
  /\ seen.digest # 0 /\ o.digest # 0 /\ seen.digest # o.digest
  /\ o.generatorSucceededAt = 0 /\ o.generatorRef = 0

RecordDrift(o, policy) == IF policy = "Ignore" THEN o ELSE [o EXCEPT !.drifted = "True"]

\* An expected change, or a first observation, ends the drift.
Rebaselined(o, seen) ==
  IF seen.digest \notin {0, o.digest} THEN [o EXCEPT !.drifted = "absent"] ELSE o

\* The end of reconcileExisting: what was observed is the new baseline.
Verified(o, seen) ==
  [Settled(Forget(ClearFailures(o))) EXCEPT
     !.digest = seen.digest, !.state = "Ready", !.inStore = "True", !.ready = "True"]

Conflicting(o) ==
  [o EXCEPT !.state = "KeyConflict", !.reconciling = "absent", !.inStore = "False",
            !.ready = "False"]

Expired(o) ==
  [Settled(Forget(o)) EXCEPT
     !.state = "Expired", !.digest = 0, !.inStore = "False", !.ready = "False"]

MissingObserved(o) ==
  [Settled(ClearFailures(o)) EXCEPT
     !.digest = 0, !.state = "Missing", !.inStore = "False", !.ready = "False"]

\* The top of reconcileMissing.
Absent(o) == [o EXCEPT !.inStore = "False", !.digest = 0]

Degraded(o) == NotReady([MarkStalled(o) EXCEPT !.state = "Degraded"])

Generating(o) == NotReady([MarkReconciling(o) EXCEPT !.state = "Generating"])

Awaiting(o) ==
  NotReady([MarkReconciling(o) EXCEPT
              !.state = "AwaitingArtifact",
              !.generatorSucceededAt = IF @ = 0 THEN o.generatorRef ELSE @])

Created(o) ==
  [Generating(o) EXCEPT !.attempts = @ + 1, !.generatorRef = o.attempts + 1,
                        !.generatorSucceededAt = 0]

\* Faulty variant: the recovered run is not counted.
AdoptedUncounted(o) == [o EXCEPT !.generatorRef = o.attempts + 1]

\* Crash recovery: the run exists and is ours, only the status update was lost.
Adopted(o) == [o EXCEPT !.attempts = @ + 1, !.generatorRef = o.attempts + 1]

WithFinalizer(o, held) == [o EXCEPT !.finalizer = held]

WithKey(o) == [o EXCEPT !.key = TRUE]

WithoutDigest(o) == [o EXCEPT !.digest = 0]

DeletionBlocked(o) == [o EXCEPT !.state = "Deleting", !.ready = "False"]

(***************************************************************************)
(* A merge patch of what changed between b, the Artifact as it was read,   *)
(* and o, the Artifact as it was left, applied to s in the API server.  A  *)
(* condition that looks the same may still differ in the reason or message *)
(* that Cond leaves out, and is then written too.                          *)
(***************************************************************************)
\* Faulty variant: an update with the object as it was left.
Overwrite(o, b, s) == {o}

Change(o, b, s) == IF o # b THEN {o} ELSE {s}

CondChange(o, b, s) ==
  IF o # b THEN {o} ELSE IF o = "absent" THEN {s} ELSE {o, s}

Merge(o, b, s) ==
  [finalizer            : Change(o.finalizer, b.finalizer, s.finalizer),
   state                : Change(o.state, b.state, s.state),
   key                  : Change(o.key, b.key, s.key),
   digest               : Change(o.digest, b.digest, s.digest),
   attempts             : Change(o.attempts, b.attempts, s.attempts),
   failedAttempts       : Change(o.failedAttempts, b.failedAttempts, s.failedAttempts),
   lastFailureTime      : Change(o.lastFailureTime, b.lastFailureTime, s.lastFailureTime),
   generatorRef         : Change(o.generatorRef, b.generatorRef, s.generatorRef),
   generatorSucceededAt : Change(o.generatorSucceededAt, b.generatorSucceededAt,
                                 s.generatorSucceededAt),
   retryToken           : Change(o.retryToken, b.retryToken, s.retryToken),
   ready                : CondChange(o.ready, b.ready, s.ready),
   inStore              : CondChange(o.inStore, b.inStore, s.inStore),
   stalled              : CondChange(o.stalled, b.stalled, s.stalled),
   reconciling          : CondChange(o.reconciling, b.reconciling, s.reconciling),
   drifted              : CondChange(o.drifted, b.drifted, s.drifted)]

DeleteRun(n) == [runs EXCEPT ![n].api = "none"]

\* A DELETE of the CR: the finalizer keeps it until the controller lets go.
DeleteArtifact ==
  spec' = IF status.finalizer THEN [spec EXCEPT !.deleting = TRUE]
                              ELSE [spec EXCEPT !.exists = FALSE]

-----------------------------------------------------------------------------
(***************************************************************************)
(* The read step: Reconcile and reconcile up to the store observation.     *)
(***************************************************************************)

Fault(kind) == kind \in Faults /\ faults < MaxFaults /\ faults' = faults + 1

\* The worker takes the key from the queue and reads the Artifact.
Dequeue ==
  /\ pc = "idle" /\ queued /\ cSpec.exists
  /\ IF cached = api THEN UNCHANGED stale ELSE stale < MaxStale /\ stale' = stale + 1
  /\ queued' = FALSE /\ base' = cStatus /\ oSpec' = cSpec
  /\ UNCHANGED <<cSpec, cStatus, status, class, store, due, watching, ops, writes>>

\* The handler returns: the patch is next.
Return(o, requeue) ==
  /\ pc' = "patch" /\ obj' = o /\ again' = requeue
  /\ klass' = NoClass /\ obs' = NoObject

\* The observation goes to handler h.
Dispatch(h, o) ==
  pc' = h /\ obj' = o /\ again' = FALSE /\ klass' = class /\ obs' = store

ReadGone ==
  /\ pc = "idle" /\ queued /\ ~cSpec.exists /\ queued' = FALSE
  /\ UNCHANGED <<spec, status, cSpec, cStatus, class, runs, store, due, watching, pc,
                 memory, bounds>>

AddFinalizer ==
  /\ Dequeue /\ ~cSpec.deleting /\ ~cStatus.finalizer
  /\ Return(WithFinalizer(cStatus, TRUE), TRUE)
  /\ UNCHANGED <<spec, runs, faults>>

Active == Dequeue /\ ~cSpec.deleting /\ cStatus.finalizer

ReadSuspended ==
  /\ Active /\ cSpec.suspend
  /\ Return(Suspended(cStatus), FALSE)
  /\ UNCHANGED <<spec, runs, faults>>

\* Faulty variant: a sensor keeps the run it had.
NeverCancel == FALSE

MustCancel == ObserveOnly(cSpec) /\ cStatus.generatorRef # 0

\* Faulty variant: the reference is dropped although the run is still there.
CancelFailsAndForgets ==
  /\ Active /\ ~cSpec.suspend /\ MustCancel /\ Fault("cancel")
  /\ Return(Forget(HonorRetry(cStatus, cSpec)), TRUE)
  /\ UNCHANGED <<spec, runs>>

\* The flip to Observe: deleteAbandonedRun fails, the reference is kept.
CancelFails ==
  /\ Active /\ ~cSpec.suspend /\ MustCancel /\ Fault("cancel")
  /\ Return(HonorRetry(cStatus, cSpec), TRUE)
  /\ UNCHANGED <<spec, runs>>

\* The flip to Observe, if there is one, has been dealt with.
Cancelled ==
  /\ Active /\ ~cSpec.suspend
  /\ runs' = IF MustCancel THEN DeleteRun(cStatus.generatorRef) ELSE runs

AfterCancel ==
  IF MustCancel THEN Forget(HonorRetry(cStatus, cSpec)) ELSE HonorRetry(cStatus, cSpec)

ClassUnreadable ==
  /\ Cancelled /\ Fault("get")
  /\ Return(AfterCancel, TRUE)
  /\ UNCHANGED spec

ClassNotFound ==
  /\ Cancelled /\ ~class.exists
  /\ Return(NotReady(AfterCancel), TRUE)
  /\ UNCHANGED <<spec, faults>>

KeyTemplateError ==
  /\ Cancelled /\ class.exists /\ ~class.keyTemplate
  /\ Return(NotReady(MarkStalled(AfterCancel)), FALSE)
  /\ UNCHANGED <<spec, faults>>

\* The key is rendered; status.specHash goes with it.
Keyed == Cancelled /\ class.exists /\ class.keyTemplate

TTLReached == cSpec.ttl /\ "ttl" \in due

TTLExpired ==
  /\ Keyed /\ TTLReached
  /\ DeleteArtifact
  /\ Return(WithKey(AfterCancel), FALSE)
  /\ UNCHANGED faults

\* Faulty variant: the error is swallowed.
TTLDeleteFailsSilently ==
  /\ Keyed /\ TTLReached /\ Fault("ttl")
  /\ Return(WithKey(AfterCancel), FALSE)
  /\ UNCHANGED spec

TTLDeleteFails ==
  /\ Keyed /\ TTLReached /\ Fault("ttl")
  /\ Return(WithKey(AfterCancel), TRUE)
  /\ UNCHANGED spec

\* DriverFor or Observe fails, in reconcile or at the top of reconcileExpired.
StoreUnavailable ==
  /\ Keyed /\ ~TTLReached
  /\ IF class.driver THEN Fault("store") ELSE UNCHANGED faults
  /\ Return(NotReady(WithKey(AfterCancel)), TRUE)
  /\ UNCHANGED spec

\* Faulty variant: an Artifact that has expired already is reconciled as usual.
ExpiresOnce ==
  /\ cSpec.deleteAfter /\ "deleteAfter" \in due /\ ~ObserveOnly(cSpec)
  /\ cStatus.state # "Expired"

\* deleteAfter has passed.
Expires == cSpec.deleteAfter /\ "deleteAfter" \in due /\ ~ObserveOnly(cSpec)

Observed ==
  /\ Keyed /\ ~TTLReached /\ class.driver
  /\ Dispatch(IF Expires THEN "reconcileExpired"
              ELSE IF store.present THEN "reconcileExisting"
              ELSE IF ObserveOnly(cSpec) THEN "reconcileMissingObserved"
              ELSE "reconcileMissing",
              WithKey(AfterCancel))
  /\ UNCHANGED <<spec, faults>>

(***************************************************************************)
(* reconcileDelete up to its store observation.                            *)
(***************************************************************************)
ReadDeleting == Dequeue /\ cSpec.deleting /\ cStatus.finalizer /\ UNCHANGED <<spec, runs>>

OwnsObject == cSpec.deletionPolicy = "Delete" /\ cStatus.key /\ ~ObserveOnly(cSpec)

\* Nothing to clean up, or no class left to clean up with.
LetGo ==
  /\ ReadDeleting /\ (OwnsObject => ~class.exists)
  /\ Return(WithFinalizer(cStatus, FALSE), FALSE)
  /\ UNCHANGED faults

DeleteUnavailable ==
  /\ ReadDeleting /\ OwnsObject
  /\ IF class.exists /\ ~class.driver THEN UNCHANGED faults ELSE Fault("store")
  /\ Return(cStatus, TRUE)

ObservedDeleting ==
  /\ ReadDeleting /\ OwnsObject /\ class.exists /\ class.driver
  /\ Dispatch("reconcileDelete", cStatus)
  /\ UNCHANGED faults

-----------------------------------------------------------------------------
(***************************************************************************)
(* The act step: the handlers, on what the read step saw.                  *)
(***************************************************************************)

In(h) ==
  /\ pc = h
  /\ UNCHANGED <<spec, status, cSpec, cStatus, class, due, queued, base, oSpec, klass,
                 obs, ops, stale, writes>>

Finish(o, requeue) == pc' = "patch" /\ obj' = o /\ again' = requeue

KeyConflict ==
  /\ In("reconcileExisting") /\ ~Ours(obs)
  /\ Finish(Conflicting(obj), TRUE)
  /\ UNCHANGED <<runs, store, watching, faults>>

Regenerates == klass.drift = "Regenerate" /\ ~ObserveOnly(oSpec)

\* Drift is treated as missing content.
DriftRegenerate ==
  /\ In("reconcileExisting") /\ Ours(obs) /\ IsDrift(obj, obs) /\ Regenerates
  /\ pc' = "reconcileMissing"
  /\ obj' = WithoutDigest(RecordDrift(obj, klass.drift))
  /\ UNCHANGED <<runs, store, watching, again, faults>>

DriftReported ==
  /\ In("reconcileExisting") /\ Ours(obs) /\ IsDrift(obj, obs) /\ ~Regenerates
  /\ Finish(Verified(RecordDrift(obj, klass.drift), obs), TRUE)
  /\ UNCHANGED <<runs, store, watching, faults>>

\* Faulty variant: a Ready Artifact is not requeued.
ArtifactAvailableForGood ==
  /\ In("reconcileExisting") /\ Ours(obs) /\ ~IsDrift(obj, obs)
  /\ Finish(Verified(Rebaselined(obj, obs), obs), FALSE)
  /\ UNCHANGED <<runs, store, watching, faults>>

ArtifactAvailable ==
  /\ In("reconcileExisting") /\ Ours(obs) /\ ~IsDrift(obj, obs)
  /\ Finish(Verified(Rebaselined(obj, obs), obs), TRUE)
  /\ UNCHANGED <<runs, store, watching, faults>>

ArtifactMissingObserved ==
  /\ In("reconcileMissingObserved")
  /\ Finish(MissingObserved(obj), TRUE)
  /\ UNCHANGED <<runs, store, watching, faults>>

(***************************************************************************)
(* reconcileMissing and evaluateRun.                                       *)
(***************************************************************************)
Missing == In("reconcileMissing") /\ UNCHANGED store

GeneratorNotConfigured ==
  /\ Missing /\ ~klass.generator
  /\ \/ /\ obj.generatorRef = 0
        /\ Finish(Degraded(Absent(obj)), TRUE)
        /\ UNCHANGED <<runs, faults>>
     \/ /\ obj.generatorRef # 0
        /\ runs' = DeleteRun(obj.generatorRef)
        /\ Finish(Degraded(Forget(Absent(obj))), TRUE)
        /\ UNCHANGED faults
     \/ /\ obj.generatorRef # 0 /\ Fault("cancel")
        /\ Finish(Absent(obj), TRUE)
        /\ UNCHANGED runs
  /\ UNCHANGED watching

FailureBudgetExhausted ==
  /\ Missing /\ klass.generator /\ obj.failedAttempts >= klass.maxAttempts
  /\ Finish(Degraded(Absent(obj)), TRUE)
  /\ UNCHANGED <<runs, watching, faults>>

\* Faulty variant: the budget is not looked at.
AnyBudget == Missing /\ klass.generator

InBudget == Missing /\ klass.generator /\ obj.failedAttempts < klass.maxAttempts

\* The Get of the run in flight fails.
RunUnreadable ==
  /\ InBudget /\ obj.generatorRef # 0 /\ Fault("get")
  /\ Finish(Absent(obj), TRUE)
  /\ UNCHANGED <<runs, watching>>

\* evaluateRun finds the run in flight in state s.
Evaluate(s) ==
  /\ InBudget /\ obj.generatorRef # 0 /\ runs[obj.generatorRef].api = s
  /\ UNCHANGED watching

RunVanished ==
  /\ Evaluate("none")
  /\ Finish(Forget(Absent(obj)), TRUE)
  /\ UNCHANGED <<runs, faults>>

Failure == RecordAttemptFailure(Absent(obj), klass.maxAttempts)

GeneratorFailed ==
  /\ Evaluate("failed")
  /\ Finish(Failure, TRUE)
  /\ UNCHANGED <<runs, faults>>

AwaitingArtifact ==
  /\ Evaluate("succeeded")
  /\ Finish(Awaiting(Absent(obj)), TRUE)
  /\ UNCHANGED <<runs, faults>>

\* The grace period started with an earlier observation of the success.
SucceededWithoutArtifact ==
  /\ Evaluate("succeeded") /\ obj.generatorSucceededAt # 0
  /\ Finish(Failure, TRUE)
  /\ UNCHANGED <<runs, faults>>

RunInProgress ==
  /\ Evaluate("running")
  /\ Finish(Generating(Absent(obj)), TRUE)
  /\ UNCHANGED <<runs, faults>>

\* The stalled run is deleted; if that fails the error is only logged.
ProgressDeadlineExceeded ==
  /\ Evaluate("running") /\ klass.deadline
  /\ Finish(Failure, TRUE)
  /\ \/ runs' = DeleteRun(obj.generatorRef) /\ UNCHANGED faults
     \/ Fault("deadline") /\ UNCHANGED runs

(***************************************************************************)
(* The backoff gate and createRun.                                         *)
(***************************************************************************)
NoRunInFlight == InBudget /\ obj.generatorRef = 0

InBackoff == obj.lastFailureTime # 0 /\ obj.failedAttempts > 0

\* Faulty variant: the backoff is not requeued.
BackoffForgotten ==
  /\ NoRunInFlight /\ InBackoff
  /\ Finish(Generating(Absent(obj)), FALSE)
  /\ UNCHANGED <<runs, watching, faults>>

BackoffPending ==
  /\ NoRunInFlight /\ InBackoff
  /\ Finish(Generating(Absent(obj)), TRUE)
  /\ UNCHANGED <<runs, watching, faults>>

RunTemplateError ==
  /\ NoRunInFlight /\ ~klass.template
  /\ Finish(NotReady(MarkStalled(Absent(obj))), FALSE)
  /\ UNCHANGED <<runs, watching, faults>>

\* Faulty variant: a fresh name where the name is taken.
FreshRun ==
  IF obj.attempts < MaxRuns /\ runs[obj.attempts + 1].api # "none"
  THEN obj.attempts + 2 ELSE obj.attempts + 1

\* The name of the next attempt.
NextRun == obj.attempts + 1

\* ensureGeneratorWatch, then a Create.
TryCreate ==
  /\ NoRunInFlight /\ klass.template /\ NextRun <= MaxRuns
  /\ watching' = TRUE

CreateRun ==
  /\ TryCreate /\ runs[NextRun].api = "none"
  /\ runs' = [runs EXCEPT ![NextRun] = [api |-> "running", worker |-> TRUE]]
  /\ Finish(Created(Absent(obj)), TRUE)
  /\ UNCHANGED faults

AdoptRun ==
  /\ TryCreate /\ runs[NextRun].api \in {"running", "succeeded", "failed"}
  /\ Finish(Adopted(Absent(obj)), TRUE)
  /\ UNCHANGED <<runs, faults>>

\* The name is taken, by an alien object or by one that cannot be read.
RunNotOwned ==
  /\ TryCreate
  /\ \/ runs[NextRun].api = "alien" /\ UNCHANGED faults
     \/ runs[NextRun].api \notin {"none", "alien"} /\ Fault("get")
  /\ Finish(NotReady(Absent(obj)), TRUE)
  /\ UNCHANGED runs

\* The Create returns an error; the API server may have carried it out.
CreateFails ==
  /\ TryCreate /\ runs[NextRun].api = "none" /\ Fault("create")
  /\ \/ UNCHANGED runs
     \/ runs' = [runs EXCEPT ![NextRun] = [api |-> "running", worker |-> TRUE]]
  /\ Finish(NotReady(Absent(obj)), TRUE)

(***************************************************************************)
(* reconcileExpired and reconcileDelete after their store observation.     *)
(***************************************************************************)
\* The observed object, if any, is deleted or left to its other owner.
DeleteObserved ==
  store' = IF obs.present /\ Ours(obs) THEN NoObject ELSE store

DeleteRefused == obs.present /\ Ours(obs) /\ Fault("delete") /\ UNCHANGED store

\* Faulty variant: an expired Artifact is not requeued for its ttl.
DeleteAfterExpiredForGood ==
  /\ In("reconcileExpired") /\ DeleteObserved
  /\ Finish(Expired(obj), FALSE)
  /\ UNCHANGED <<runs, watching, faults>>

DeleteAfterExpired ==
  /\ In("reconcileExpired") /\ DeleteObserved
  /\ Finish(Expired(obj), oSpec.ttl)
  /\ UNCHANGED <<runs, watching, faults>>

ExpireRefused ==
  /\ In("reconcileExpired") /\ DeleteRefused
  /\ Finish(NotReady(obj), TRUE)
  /\ UNCHANGED <<runs, watching>>

ArtifactDeleted ==
  /\ In("reconcileDelete") /\ DeleteObserved
  /\ Finish(WithFinalizer(obj, FALSE), FALSE)
  /\ UNCHANGED <<runs, watching, faults>>

\* Faulty variant: the finalizer goes although the object is still there.
DeletionIgnored ==
  /\ In("reconcileDelete") /\ DeleteRefused
  /\ Finish(WithFinalizer(obj, FALSE), TRUE)
  /\ UNCHANGED <<runs, watching>>

DeletionRefused ==
  /\ In("reconcileDelete") /\ DeleteRefused
  /\ Finish(DeletionBlocked(obj), TRUE)
  /\ UNCHANGED <<runs, watching>>

-----------------------------------------------------------------------------
(***************************************************************************)
(* The deferred patch, and what can prevent it.                            *)
(***************************************************************************)

\* The reconcile is over, its copies are gone.
Idle ==
  /\ pc' = "idle" /\ obj' = NewStatus /\ base' = NewStatus /\ oSpec' = NoSpec
  /\ klass' = NoClass /\ obs' = NoObject /\ again' = FALSE

Patch ==
  /\ pc = "patch" /\ spec.exists
  /\ status' \in Merge(obj, base, status)
  /\ spec' = [spec EXCEPT !.exists = ~spec.deleting \/ status'.finalizer]
  /\ Idle /\ queued' = (queued \/ again)
  /\ UNCHANGED <<cSpec, cStatus, class, runs, store, due, watching, bounds>>

\* NotFound is an error unless the Artifact that was read was being deleted.
PatchNotFound ==
  /\ pc = "patch" /\ ~spec.exists
  /\ Idle /\ queued' = (queued \/ again \/ ~oSpec.deleting)
  /\ UNCHANGED <<spec, status, cSpec, cStatus, class, runs, store, due, watching, bounds>>

\* The patch fails: the error puts the key back on the queue.
PatchFails ==
  /\ pc = "patch" /\ Fault("patch")
  /\ Idle /\ queued' = TRUE
  /\ UNCHANGED <<spec, status, cSpec, cStatus, class, runs, store, due, watching, ops,
                 stale, writes>>

\* The process restarts: caches, watches and queue are built afresh.
Crash ==
  /\ Fault("crash")
  /\ Idle /\ queued' = TRUE /\ watching' = FALSE
  /\ cSpec' = spec /\ cStatus' = status
  /\ UNCHANGED <<spec, status, class, runs, store, due, ops, stale, writes>>

-----------------------------------------------------------------------------
(***************************************************************************)
(* The cluster, the generator engine, the user and other writers.          *)
(***************************************************************************)

\* The watch brings the cache up to date and queues the key.
SyncCache ==
  /\ cached # api
  /\ cSpec' = spec /\ cStatus' = status /\ queued' = TRUE
  /\ UNCHANGED <<spec, status, class, runs, store, due, watching, pc, memory, bounds>>

Environment(changed) ==
  /\ UNCHANGED <<cSpec, cStatus, watching, pc, memory, faults, stale>>
  /\ UNCHANGED changed

\* The owner watch queues the Artifact when a run changes.
RunChanges(n, s, w) ==
  /\ runs' = [runs EXCEPT ![n] = [api |-> s, worker |-> w]]
  /\ queued' = (queued \/ watching)
  /\ Environment(<<spec, status, class, due, writes>>)

RunSucceeds(n) ==
  /\ runs[n].api = "running"
  /\ RunChanges(n, "succeeded", runs[n].worker)
  /\ UNCHANGED <<store, ops>>

RunFails(n) ==
  /\ runs[n].api = "running"
  /\ RunChanges(n, "failed", FALSE)
  /\ UNCHANGED <<store, ops>>

Upload(n) ==
  /\ runs[n].worker
  /\ runs' = [runs EXCEPT ![n].worker = FALSE]
  /\ store' = [present |-> TRUE, digest |-> n, stamp |-> "ours"]
  /\ Environment(<<spec, status, class, due, queued, ops, writes>>)

\* The workload of a deleted run is stopped.
StopWorker(n) ==
  /\ runs[n].api = "none" /\ runs[n].worker
  /\ runs' = [runs EXCEPT ![n].worker = FALSE]
  /\ Environment(<<spec, status, class, store, due, queued, ops, writes>>)

\* Owned runs are garbage collected after the Artifact; so are alien ones after theirs.
CollectRun(n) ==
  /\ runs[n].api = "alien" \/ (~spec.exists /\ runs[n].api # "none")
  /\ RunChanges(n, "none", runs[n].worker)
  /\ UNCHANGED <<store, ops>>

Op(kind) == kind \in Ops /\ ops < MaxOps /\ ops' = ops + 1 /\ spec.exists

DeleteRunByHand(n) ==
  /\ Op("vanish") /\ runs[n].api \notin {"none", "alien"}
  /\ RunChanges(n, "none", runs[n].worker)
  /\ UNCHANGED store

Edits(s) ==
  /\ spec' = s
  /\ Environment(<<status, class, runs, store, due, queued, writes>>)

\* The validation rules hold for an edit, too.
FlipPolicy ==
  /\ Op("flip") /\ ~spec.deleteAfter /\ spec.deletionPolicy = "Orphan"
  /\ Edits([spec EXCEPT !.managementPolicy = IF @ = "Full" THEN "Observe" ELSE "Full"])

ToggleSuspend == Op("suspend") /\ Edits([spec EXCEPT !.suspend = ~@])

AnnotateRetry == Op("retry") /\ Edits([spec EXCEPT !.retry = @ + 1])

UserDelete ==
  /\ Op("delete") /\ ~spec.deleting /\ DeleteArtifact
  /\ Environment(<<status, class, runs, store, due, queued, writes>>)

\* Faulty variant: the class is not watched.
EditClassUnwatched ==
  /\ Op("class")
  /\ class' \in Classes \ {class}
  /\ Environment(<<spec, status, runs, store, due, queued, writes>>)

\* The class watch queues the class's Artifacts.
EditClass ==
  /\ Op("class")
  /\ class' \in Classes \ {class} /\ queued' = TRUE
  /\ Environment(<<spec, status, runs, store, due, writes>>)

Age(limit) ==
  /\ limit \notin due /\ spec.exists
  /\ \/ limit = "ttl" /\ spec.ttl
     \/ limit = "deleteAfter" /\ spec.deleteAfter
  /\ due' = due \cup {limit}
  /\ Environment(<<spec, status, class, runs, store, queued, ops, writes>>)

Write(o) ==
  /\ writes < MaxWrites /\ writes' = writes + 1
  /\ o # store /\ store' = o
  /\ Environment(<<spec, status, class, runs, due, queued, ops>>)

-----------------------------------------------------------------------------
Init ==
  /\ spec \in Specs /\ status = NewStatus
  /\ cSpec = spec /\ cStatus = status
  /\ class \in Classes
  /\ runs \in {[n \in 1..MaxRuns |-> NoRun]}
       \cup {[n \in 1..MaxRuns |-> IF n = 1 THEN [NoRun EXCEPT !.api = "alien"]
                                            ELSE NoRun] : f \in {"alien"} \cap Faults}
  /\ store \in {NoObject} \cup Objects
  /\ due = {} /\ queued = TRUE /\ watching = FALSE
  /\ pc = "idle" /\ obj = NewStatus /\ base = NewStatus /\ oSpec = NoSpec
  /\ klass = NoClass /\ obs = NoObject /\ again = FALSE
  /\ ops = 0 /\ faults = 0 /\ stale = 0 /\ writes = 0

Read ==
  \/ ReadGone \/ AddFinalizer \/ ReadSuspended \/ CancelFails
  \/ ClassUnreadable \/ ClassNotFound \/ KeyTemplateError
  \/ TTLExpired \/ TTLDeleteFails \/ StoreUnavailable \/ Observed
  \/ LetGo \/ DeleteUnavailable \/ ObservedDeleting

Act ==
  \/ KeyConflict \/ DriftRegenerate \/ DriftReported \/ ArtifactAvailable
  \/ ArtifactMissingObserved
  \/ GeneratorNotConfigured \/ FailureBudgetExhausted
  \/ RunUnreadable \/ RunVanished \/ GeneratorFailed
  \/ AwaitingArtifact \/ SucceededWithoutArtifact
  \/ RunInProgress \/ ProgressDeadlineExceeded
  \/ BackoffPending \/ RunTemplateError
  \/ CreateRun \/ AdoptRun \/ RunNotOwned \/ CreateFails
  \/ DeleteAfterExpired \/ ExpireRefused \/ ArtifactDeleted \/ DeletionRefused

Reconcile == Read \/ Act \/ Patch \/ PatchNotFound \/ PatchFails

Engine ==
  \E n \in 1..MaxRuns :
    \/ RunSucceeds(n) \/ RunFails(n) \/ Upload(n) \/ StopWorker(n) \/ CollectRun(n)
    \/ DeleteRunByHand(n)

User ==
  \/ FlipPolicy \/ ToggleSuspend \/ AnnotateRetry \/ UserDelete \/ EditClass
  \/ \E limit \in {"ttl", "deleteAfter"} : Age(limit)

Others == \E o \in Objects \cup {NoObject} : Write(o)

Next == Reconcile \/ Crash \/ SyncCache \/ Engine \/ User \/ Others

Spec == Init /\ [][Next]_vars

-----------------------------------------------------------------------------
TypeOK ==
  /\ spec \in ArtifactSpec /\ cSpec \in ArtifactSpec /\ oSpec \in ArtifactSpec
  /\ status \in ArtifactStatus /\ cStatus \in ArtifactStatus
  /\ obj \in ArtifactStatus /\ base \in ArtifactStatus
  /\ class \in ArtifactClass /\ klass \in ArtifactClass
  /\ runs \in [1..MaxRuns -> Run]
  /\ store \in Object /\ obs \in Object
  /\ due \subseteq {"ttl", "deleteAfter"}
  /\ queued \in BOOLEAN /\ watching \in BOOLEAN /\ again \in BOOLEAN
  /\ pc \in Handlers
  /\ ops \in 0..MaxOps /\ faults \in 0..MaxFaults
  /\ stale \in 0..MaxStale /\ writes \in 0..MaxWrites

(***************************************************************************)
(* Safety.                                                                 *)
(***************************************************************************)

\* The API server's status never refers to any run but the latest attempt: a
\* lost status update or a stale read of the Artifact cannot bring back an
\* older run (createRun, recordAttemptFailure and the merge patch).
RefIsLatestAttempt == status.generatorRef \in {0, status.attempts}

\* Every failure in failedAttempts is the failure of a different run, and the
\* run in flight is none of them: re-reading a stale Artifact, or losing the
\* patch after a failure, never charges one run twice to the budget.
FailuresAreDistinctRuns ==
  status.failedAttempts + (IF status.generatorRef = 0 THEN 0 ELSE 1) <= status.attempts

(***************************************************************************)
(* The ledger of attempts, as an inductive invariant.  A copy of the       *)
(* status never runs more than one attempt behind the API server, and only *)
(* a copy with no run in flight can be behind at all; what a reconcile has *)
(* done to its copy is one of three things.                                *)
(***************************************************************************)
InFlight(s) == IF s.generatorRef = 0 THEN 0 ELSE 1

Balanced(s) ==
  /\ s.generatorRef \in {0, s.attempts}
  /\ s.failedAttempts + InFlight(s) <= s.attempts

\* s may be the status in the API server when c is an older copy of it.
Follows(s, c) ==
  \/ s.attempts = c.attempts /\ s.generatorRef \in {c.generatorRef, 0}
  \/ /\ s.attempts = c.attempts + 1 /\ s.generatorRef = s.attempts
     /\ c.generatorRef = 0

Kept(o, b) ==
  /\ o.attempts = b.attempts /\ o.generatorRef \in {b.generatorRef, 0}
  /\ o.failedAttempts \in {b.failedAttempts, 0}

Charged(o, b) ==
  /\ o.attempts = b.attempts /\ b.generatorRef # 0 /\ o.generatorRef = 0
  /\ o.failedAttempts <= b.attempts

Started(o, b) ==
  /\ o.attempts = b.attempts + 1 /\ b.generatorRef = 0 /\ o.generatorRef = o.attempts
  /\ o.failedAttempts \in {b.failedAttempts, 0}

\* Whatever copies of the status exist, in the cache and in a reconcile, their
\* attempts, generatorRef and failedAttempts are the API server's of at most one
\* attempt ago, and the patch that a reconcile is about to send keeps, charges
\* or starts an attempt that its copy entitles it to.
Ledger ==
  /\ Balanced(status) /\ Balanced(cStatus) /\ Follows(status, cStatus)
  /\ pc # "idle" => /\ Balanced(base) /\ Follows(status, base) /\ Follows(cStatus, base)
                    /\ Kept(obj, base) \/ Charged(obj, base) \/ Started(obj, base)
  /\ pc \notin {"idle", "patch"} =>
       Kept(obj, base) /\ (~ObserveOnly(oSpec) => obj.generatorRef = base.generatorRef)
  /\ pc = "reconcileMissing" => ~ObserveOnly(oSpec)

\* There is never more than one run of this Artifact reported as running.
\* createRun's deterministic name is what makes a run whose reference was lost
\* the next run again.
SingleFlight ==
  \A m, n \in 1..MaxRuns : runs[m].api = "running" /\ runs[n].api = "running" => m = n

Creates(n) == runs[n].api = "none" /\ runs'[n].api = "running"

\* attempts is a lifetime counter: it never decreases, and a run is created
\* under the current attempt's name or the next one, never under the name of an
\* earlier attempt.
RunNamesMoveForward ==
  [][/\ status'.attempts >= status.attempts
     /\ \A n \in 1..MaxRuns : Creates(n) => n \in {status.attempts, status.attempts + 1}]_vars

AttemptLedger ==
  INSTANCE Attempts WITH attempts <- status.attempts, ref <- status.generatorRef,
                         failed <- status.failedAttempts

\* attempts, generatorRef and failedAttempts of the status keep the promise of
\* Attempts: no attempt is skipped, overlaps another or comes back, and a failure
\* is never charged while the status still names a run in flight.
AttemptsContract == AttemptLedger!Spec

\* No run is created once the failure budget recorded in the API server is
\* spent, whatever the reconcile that creates it had read, unless a retry
\* annotation that the API server's status does not record yet asks for it.
BudgetRespected ==
  [][\A n \in 1..MaxRuns : Creates(n) =>
       status.failedAttempts < MaxAttempts \/ spec.retry # status.retryToken]_vars

\* Failures are forgotten only by a reconcile that has seen the artifact, has found
\* a sensor's artifact missing or honours a retry annotation: an older copy of the
\* status, patched late, does not lower the count that keeps an Artifact degraded.
FailuresStay ==
  [][status'.failedAttempts < status.failedAttempts =>
       obj.state \in {"Ready", "Missing"} \/ obj.retryToken # base.retryToken]_vars

\* The reference to a running run is dropped only by a reconcile that has seen the
\* artifact or has expired it: in particular the flip to Observe and a class that
\* lost its generator drop it only after the run's object is gone
\* (deleteAbandonedRun).
RunningRunIsNotForgotten ==
  [][\A n \in 1..MaxRuns :
       /\ status.generatorRef = n /\ status'.generatorRef = 0
       /\ ~(obj.state = "Ready" /\ obs.present) /\ obj.state # "Expired"
       => runs[n].api # "running"]_vars

\* An object stamped for another identity is neither deleted by the controller
\* nor overwritten by a run of its (KeyConflict).
ForeignIsLeftAlone ==
  [][store.present /\ store.stamp = "foreign" /\ writes' = writes => store' = store]_vars

\* The weaker half: such an object is not deleted by the controller.
ForeignIsNotDeleted ==
  [][store.present /\ store.stamp = "foreign" /\ writes' = writes => store'.present]_vars

\* When the finalizer lets go of an Artifact with deletionPolicy Delete whose key
\* the reconcile knew, the object that others had put at the key is gone, unless
\* it is stamped for another identity: a refused delete keeps the finalizer.
DeletedMeansDeleted ==
  [][/\ spec.exists /\ ~spec'.exists
     /\ spec.deletionPolicy = "Delete" /\ status.finalizer /\ base.key
     => ~(store.present /\ Ours(store) /\ store.digest <= 0)]_vars

DeleteAfterReached == spec.deleteAfter /\ "deleteAfter" \in due /\ ~ObserveOnly(spec)

\* Every copy of the status that says Expired, stale ones too, is of an Artifact
\* whose deleteAfter has passed; a copy of the spec that lags agrees on whether
\* it has; so a reconcile that looks for the artifact, or for a run of it, began
\* before the Artifact expired and cannot be overtaken by its expiry.
ExpiryInv ==
  /\ cSpec.deleteAfter = spec.deleteAfter
  /\ spec.deleteAfter => cSpec.managementPolicy = spec.managementPolicy
  /\ "Expired" \in {status.state, cStatus.state, obj.state} => DeleteAfterReached
  /\ pc = "reconcileExpired" => DeleteAfterReached
  /\ pc \in {"reconcileExisting", "reconcileMissing", "reconcileMissingObserved"}
       => status.state # "Expired"

\* Once an Artifact is Expired no generator run is started for it again.
ExpiredStartsNothing ==
  [][\A n \in 1..MaxRuns : Creates(n) => status.state # "Expired"]_vars

\* A copy drops the reference to a run only once the run no longer runs, unless
\* the reconcile has seen the artifact or has expired it (deleteAbandonedRun
\* before the reference is cleared, evaluateRun before a failure is charged).
DropInv ==
  /\ pc = "reconcileExisting" => obs.present
  /\ /\ pc # "idle" /\ obj.generatorRef = 0
     /\ pc = "patch" => ~(obj.state = "Ready" /\ obs.present) /\ obj.state # "Expired"
     => \A n \in 1..MaxRuns : n = base.generatorRef => runs[n].api # "running"

\* n is the run in flight, or the next one and already created.
Claimed(n) ==
  \/ n = status.generatorRef
  \/ n = status.attempts + 1 /\ status.generatorRef = 0

\* No further run will be created unless the object is lost.
Released == store.present \/ cSpec.deleting \/ DeleteAfterReached

\* Every running run is one that the status, or the next createRun, will find
\* again, or else one that was dropped when no other can follow it; a reconcile
\* that may create a run began with none of the latter.
FlightInv ==
  /\ DropInv
  /\ cSpec.deleting => spec.deleting
  /\ pc = "reconcileDelete" => cSpec.deleting
  /\ obs.present => Released
  /\ \A n \in 1..MaxRuns : runs[n].api = "running" =>
       /\ Claimed(n) \/ (n = status.attempts /\ Released /\ pc # "reconcileMissing")
       /\ pc = "patch" /\ obj.attempts # base.attempts => n = obj.attempts

\* The Artifact s with status o waits for nobody but its user, and its status says
\* why: it is suspended, a template of its class does not render, or it has
\* expired and has no ttl to be deleted by.
AtRest(s, o) ==
  /\ ~s.deleting /\ o.ready = "False"
  /\ \/ s.suspend /\ o.state = "Suspended"
     \/ (~class.keyTemplate \/ ~class.template) /\ o.stalled = "True"
     \/ ~s.ttl /\ o.state = "Expired"

\* No wake-up is lost.  An Artifact that no worker holds, that is not queued, and
\* of which the watch has nothing left to deliver, is at rest: every other
\* reconcile ends with a requeue, an error or a write that the watch brings back
\* (the returns of reconcile, reconcileMissing, reconcileExpired and
\* reconcileDelete), whatever changed while it ran.
NoLostWakeup ==
  spec.exists /\ pc = "idle" /\ ~queued /\ cached = api => AtRest(spec, status)

\* While the key is off the queue, the cache is what the running reconcile read and
\* the class is what it read; a reconcile that will not be requeued leaves the
\* Artifact at rest, has deleted it, or lets go of it.  Between reconciles the
\* copies in the cache are at rest, or the watch has a status or a deletion to
\* deliver, which no later edit can take back.
WakeInv ==
  /\ spec.exists => cSpec.exists
  /\ cSpec.deleting => spec.deleting
  /\ pc = "idle" /\ ~queued /\ spec.exists =>
       \/ cStatus # status
       \/ cSpec.deleting # spec.deleting
       \/ AtRest(cSpec, cStatus)
  /\ oSpec.deleting => spec.deleting
  /\ pc # "idle" /\ ~queued => cSpec = oSpec /\ cStatus = base
  /\ pc = "reconcileDelete" => oSpec.deleting /\ base.finalizer
  /\ pc \notin {"idle", "patch", "reconcileDelete"} => ~oSpec.deleting
  /\ pc \notin {"idle", "patch"} /\ ~queued => klass = class
  /\ pc = "patch" /\ ~queued /\ ~again =>
       \/ AtRest(oSpec, obj)
       \/ ~oSpec.deleting /\ (spec.deleting \/ ~spec.exists)
       \/ oSpec.deleting /\ base.finalizer /\ ~obj.finalizer

\* A sensor's report that its artifact is missing means that no run of this
\* controller is writing to the key (the comment on the flip to Observe).
SensorHasNoRun ==
  pc = "idle" /\ ObserveOnly(cSpec) /\ status.state = "Missing"
    => \A n \in 1..MaxRuns : runs[n].api # "running"

\* The verification grace period of a run starts when that run was first seen to
\* have succeeded, never at the success of an earlier one.
GraceIsOwn == status.generatorRef # 0 => status.generatorSucceededAt \in {0, status.generatorRef}

\* Ready says that the artifact exists in its store: it is never True next to
\* an ArtifactInStore that is not.
ReadyMeansInStore == status.ready = "True" => status.inStore = "True"

\* With drift policy Regenerate, once drift is recorded Ready is True again only
\* for content that a run of this Artifact uploaded.
DriftIsRebuilt ==
  [][status.drifted = "True" /\ status.digest = 0
     => (status'.ready = "True" => status.ready = "True" \/ obs.digest > 0)]_vars

(***************************************************************************)
(* Liveness.  The worker serves its queue and the watch delivers; a timer  *)
(* that is consulted again and again is over in the end, because every     *)
(* wait is requeued.  Nothing is assumed of generator runs, users, other   *)
(* writers or the bounded faults.                                          *)
(***************************************************************************)

\* The steps that wait for a progress deadline, a grace period or a backoff.
WaitEnds ==
  ProgressDeadlineExceeded \/ SucceededWithoutArtifact \/ CreateRun \/ AdoptRun

Fairness == WF_vars(Reconcile) /\ WF_vars(SyncCache) /\ SF_vars(WaitEnds)

FairSpec == Spec /\ Fairness

\* Generation does not go on forever: with a progress deadline every Artifact
\* ends up available, degraded or otherwise settled, even if its runs hang.
Settles ==
  <>[](~spec.exists \/ status.state \notin {"", "Pending", "Generating", "AwaitingArtifact"})

\* An Artifact cannot stay Ready after its object is gone for good.
ReadyIsCurrent == <>[](spec.exists /\ status.ready = "True" => store.present /\ Ours(store))

\* A deleted Artifact goes away, and so does one that is older than its ttl (the
\* controller then deletes it itself).
DeletionCompletes == spec.deleting \/ "ttl" \in due ~> ~spec.exists

\* A run in flight when the Artifact becomes a sensor does not stay its run.
SensorLetsGo ==
  spec.exists /\ ObserveOnly(spec) /\ status.generatorRef # 0
    ~> ~spec.exists \/ ~ObserveOnly(spec) \/ status.generatorRef = 0
=============================================================================
