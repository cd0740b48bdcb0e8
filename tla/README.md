# Verification of artifact-controller

TLA+ models of artifact-controller, checked with TLC on small instances, and
theorems about them checked with TLAPS. `PROJECT.json` lists the runs, the source
lines behind every definition, the hazards and the theorems.

## The system and its parts

An `Artifact` declares that an object must exist in an external store. The
controller looks for it, starts a *generator run* (an object of any kind, owned by
the Artifact) when it is missing, judges the run by the class's expressions,
verifies what appears, and cleans up by `ttl`, `deleteAfter` and `deletionPolicy`.

| part | source | model |
| --- | --- | --- |
| reconcile loop | `internal/controller/artifact_controller.go` | `ArtifactReconciler` |
| Artifact and ArtifactClass API | `api/v1alpha1/` | records of `ArtifactReconciler` |
| ledger of attempts in the status | `artifact_controller.go` | `Attempts` (abstract) |
| driver interface | `internal/store/store.go` | `StoreDriver` (abstract) |
| registry, deletion through a driver | `store.go`, `reconcileDelete` | `DriverCall`, `StoreDrivers` |
| s3 driver | `internal/store/s3` | `S3Driver` |
| artifactory and nexus drivers | `internal/store/repomanager` | `RepoManagerDriver` |
| oci driver | `internal/store/oci` | `OCIDriver` |
| http driver, OAuth token cache | `internal/store/httpstore` | `HTTPDriver` |
| ami driver | `internal/store/ami` | `AMIDriver` |
| generator engine, store contents, users | external | actions of `ArtifactReconciler` and `StoreDrivers` |
| templates, CEL, hash, signing | `internal/generator`, `hash`, `awsauth` | not modelled: pure functions |
| start-up, chart, generated code | `cmd`, `charts`, `zz_generated` | a restart and the registered drivers only |

## ArtifactReconciler

One Artifact, its class, its runs and its store key. The work queue never gives one
key to two workers, so there is one loop. A reconcile is three steps with
everything else free to happen between them:

1. **read** (`pc = "idle"`): take the cached Artifact, which may lag the API
   server, and go through `Reconcile`, `reconcile` or `reconcileDelete` up to the
   store observation. Early returns are actions of their own (`AddFinalizer`,
   `ReadSuspended`, `CancelFails`, `ClassNotFound`, `KeyTemplateError`,
   `TTLExpired`, `StoreUnavailable`, `LetGo`, ...); `Observed` and
   `ObservedDeleting` go on to a handler.
2. **act** (`pc` is the handler): one action per way through `reconcileExisting`,
   `reconcileMissing` with `evaluateRun` and `createRun`,
   `reconcileMissingObserved`, `reconcileExpired` and `reconcileDelete`.
3. **patch**: the deferred `SerialPatcher` call. It merges the difference between
   the copy as it was read (`base`) and as it was left (`obj`) into whatever status
   the API server has by then. The patch may fail, or find the Artifact gone.

The steps of one read are joined because they touch nothing that others write
except what is read last; the window between an observation and the act on it,
where the races are, is kept. Within the act step a single external effect happens
(one Create, or one Delete), followed by changes of the copy in memory.

| variable | stands for |
| --- | --- |
| `spec`, `status` | the Artifact in the API server: what the user and what the controller owns |
| `cSpec`, `cStatus` | the informer cache |
| `class`, `runs`, `store` | the class, attempt → run object and workload, the object at the key |
| `due` | which of `ttl` and `deleteAfter` has passed |
| `queued`, `watching` | the key is queued or has a delayed add; the owner watch is registered |
| `pc`, `obj`, `base`, `oSpec`, `klass`, `obs`, `again` | the reconcile under way |
| `ops`, `faults`, `stale`, `writes` | counters against the bounds |

A run is identified by its attempt number, as in `runName`; `generatorRef`,
`generatorSucceededAt` and `lastFailureTime` hold attempt numbers, 0 for nil.
Attempt *n* uploads content *n*, other writers' content is not positive, so a digest
tells whose content it is. Conditions are absent, True or False; reasons and messages
are dropped, and since a message may change when the status does not, a patch may
or may not rewrite an unchanged condition (`CondChange`).

Time is not modelled. A timer that was started (backoff, grace period, progress
deadline) may be found running or over by any reconcile. This allows every timing
and says nothing about delays.

In this module the store is atomic: a driver call is one step. What happens inside the
calls is the subject of the driver modules.

`Attempts` is the abstract specification of what the status says about attempts: an
attempt begins under the next number, and the one in flight is released, or charged as a
failure, once. `AttemptLedger == INSTANCE Attempts` reads it off the status in the API
server; every other variable is hidden, so each patch, whatever copy it was made from, has
to be one of those three steps.

## The store drivers

`StoreDrivers` composes the six drivers under the part of `reconcileDelete` that uses
them, which is where two or more calls to a store have to add up: `DriverFor` makes a
driver (`NewDriver`, with an empty token cache), `Observe` looks, a foreign stamp ends the
deletion (`kept`), otherwise `Delete` runs, and an error ends the reconcile and starts the
next one. Every call is a step; it may fail, also after the store has carried it out; and
between any two, others put, move or remove objects. `class` picks the driver and its
variant.

* `S3Driver` and artifactory delete by key, in one call. In `RepoManagerDriver` nexus
  searches for the id of the asset and deletes by it.
* `OCIDriver` has a registry with two tags. `Observe` reads the annotation, or the label in
  the config of an image manifest. `Delete` resolves the tag, deletes the manifest by
  digest and then the tag, and ignores a registry that does not support the latter.
  `retires` and `tagDelete` are the behaviours of registries that the code handles.
* `HTTPDriver` has a clock. A request is authorized, with a static credential, a cached
  token or one that is exchanged first, and then sent; each takes up to `Timeout`. The
  token server mints at any time during the exchange. `exists` is the default expression
  (a 2xx) or one that fails on what is neither success nor 404.
* `AMIDriver` has DescribeImages, DeregisterImage and one DeleteSnapshot per snapshot.

`StoreDriver` is the abstract specification: a deletion ends without an error only if the
key was empty at some time since it began. `Driver == INSTANCE StoreDriver` maps what the
key resolves to and the program counter to it. Two kinds of class cannot promise this and
are left out of the mapping (`CanPromise`). A registry that refuses tag deletes keeps a
tag that was moved during `Delete`; `ReplacementSurvives` says that the new content is
then left alone. And with the default `exists` of an http class an outage, or a rejected
token, passes for an empty key; the default is documented, so this is a hazard and no
finding.

## Runs

Drivers, AMISnapshots and HTTPStamp use `MCDrivers`, the others `MCReconciler`; they
define the specs, classes and objects the cfgs choose from.

| run | checks | shows |
| --- | --- | --- |
| Protocol | `TypeOK`, `RefIsLatestAttempt`, `FailuresAreDistinctRuns`, `SingleFlight`, `Ledger`, `FlightInv`, `RunNamesMoveForward`, `BudgetRespected`, `FailuresStay`, `AttemptsContract` | bookkeeping of runs under a stale read and one of: lost patch, restart, failed or ambiguous create, unreadable object; an alien object under the run's name; a retry or a vanished run |
| Policy | `RunningRunIsNotForgotten`, `NoLostWakeup` | two of flip, suspend and class edits (seven versions), a failing cancellation or read, a stale read, a foreign upload |
| Lifecycle | `ExpiryInv`, `NoLostWakeup`, `WakeInv`, `DeletedMeansDeleted`, `ForeignIsLeftAlone`, `ExpiredStartsNothing` | `ttl`, `deleteAfter` and deletion with store, delete and patch failures, objects of every stamp |
| Liveness | `ReadyMeansInStore`, `Settles`, `ReadyIsCurrent`, no deadlock | generation ends although runs may hang; Ready follows the store and agrees with ArtifactInStore |
| Ending | `GraceIsOwn`, `SensorLetsGo`, `DeletionCompletes` | with a fault, deletion completes and a sensor lets go of its run; with a cache that does not lag, a grace period is that of its run |
| Drivers | `TypeOK`, `DriverContract`, `DeletionEnds`, `ForeignIsRecognised`, `ReplacementSurvives`, `OtherTagsKeepContent`, `TokenOutlivesRequest`, `ImageKeepsSnapshots`, `SnapshotInv` | six drivers in twelve classes, with two objects and two failing calls |

Six runs show where the code and a statement about it disagree.

* **Regenerate** (`DriftIsRebuilt`). Drift policy Regenerate clears the digest and starts
  a run. The next reconcile sees the drifted object with a run in flight, takes it
  for the run's result, reports Ready and drops the run.
* **SensorRun** (`SensorHasNoRun`). A run whose reference was lost with a failed patch is
  not cancelled by a flip to Observe.
* **ForeignRace** (`ForeignIsNotDeleted`). An object of another identity written between
  Observe and Delete is deleted.
* **GraceWindow** (`GraceIsOwn`). `createRun` resets `generatorSucceededAt` for a run it
  creates, not for one it adopts. A reconcile whose copy does not show the success yet
  drops the reference of a run that vanished and leaves the time in place; when the patch
  after the next Create is lost too, the adopted run inherits it, and its grace period may
  be over before it has begun.
* **AMISnapshots** (`SnapshotsDeleted`). A failure after DeregisterImage leaves the
  snapshots behind, and the retry reports success.
* **HTTPStamp** (`ForeignIsRecognised`). The http driver publishes the stamp under
  `store.http.stampKey`; `StampMetadataKey` does not know that field. With it set, a foreign
  object is taken for one without a stamp and is deleted.

Three more disagreements were met and have no run of their own.

* The comment on `maxAttempts` lets a spec change end the stall of an exhausted budget. The
  code resets the count for a new retry annotation, a present artifact or a sensor, and for
  no other change; that is what `FailuresStay` says.
* `ReadyMeansInStore` is checked without faults and stale reads. After a lost patch, or from
  a copy that does not show the last patch, the path that adopts an existing run (469-472)
  leaves Ready=True beside ArtifactInStore=False until the next reconcile.
* A token whose lifetime is at most `earlyExpiry` is cached for a minute, and may expire
  before that; the comment there says that it is used once. The model has such
  tokens (`Lifetimes` contains 1); the store rejects them and the deletion is retried.

### Bounds

`MaxRuns` is 3 in Protocol, so that a failed attempt, its successor and a recovered
one meet; 4 in Liveness, more than the failure budget of 2 plus an adoption; 2 in
Lifecycle and Ending; 1 in Policy, whose property is about one run. One fault at
every possible place, one stale read and one or two user operations are enough for each
hazard in `PROJECT.json` to happen, and every action fires in some passing run. GraceWindow needs two runs, a stale read, a lost patch
and a vanished run.
Liveness runs without faults, because a lost patch can cost one more attempt and five
attempts are 1.4 million states, too many for a run to repeat; Ending has one fault. A deadlock is checked in Liveness;
elsewhere a deleted or suspended Artifact, the end of a deletion, or the bound on runs, may stop
the system.

In Drivers two objects (`MaxPuts`) are one that is looked up and one that replaces it, and two
failing calls allow a retry that fails as well. `EarlyExpiry` 2, `Timeout` 1 and
`Lifetimes` {1, 3} stand for 60 s, the default of 30 s, and tokens on both sides of the
boundary; seven ticks let a token of length 3 age to its end across an Observe and a Delete.
One of the three devices is an instance store without a snapshot.

Three exclusions matter. `SingleFlight` is checked without the fault "deadline": when
the delete of a run past its deadline fails, the code logs it and starts the next
run beside it. `BudgetRespected` is checked with one stale read and without other writers.
With two stale reads in a row one run beyond the budget can be created: both copies honour
one retry annotation and charge the same failure, or others put an object and remove
it again in between. So the property does not hold for every constant; `BudgetIsRespected`
proves it for at most one stale read, whoever else writes. `FailuresStay` has the same bound.
`ForeignIsLeftAlone` is checked for foreign objects that are there from the start;
ForeignRace shows what happens to one that arrives later.

### Fairness

The worker serves its queue (weak fairness of `Reconcile`) and the watch delivers (weak
fairness of `SyncCache`). The steps that wait for a timer are strongly fair: each wait is
requeued, so a timer is looked at again and again, and it is over in the end. Nothing is
assumed of runs (they may hang), of users, of other writers or of faults, which are
bounded. In StoreDrivers only the deletion itself (`Deletion`) is
weakly fair, because the work queue retries an error and a request ends by its timeout.

## Proofs

The theorems hold for every value of the constants, so for any number of runs, objects,
operations, faults, stale reads and writes. They assume the named assumptions of the
modules: bounds are naturals; specs, classes and objects have their types; Artifacts start
undeleted; and a spec with policy Observe has neither `deleteAfter` nor deletion policy
Delete, which the validation rules of `artifact_types.go` (lines 51-52) reject. Where a
theorem needs more it says so, in one of two forms. A hypothesis on the constants excludes
a fault or a kind of class, or bounds the stale reads. A hypothesis `[][A]_vars` excludes a step of the surroundings,
never one of the controller, with the exceptions of `AdoptsWhileReady` and, in the ami driver,
a call that fails too late (`CutShort`).

| module | about |
| --- | --- |
| `ArtifactReconcilerProofs` | types, the ledger of attempts, the refinement of `Attempts` |
| `ExpiryProofs` | an Expired Artifact gets no run |
| `FlightProofs` | running runs are not forgotten; one run at a time |
| `DeletionProofs` | deletion, and the objects of other identities |
| `FreshProofs` | Ready and the grace period, for a cache that does not lag |
| `BudgetProofs` | the failure budget, for at most one stale read |
| `WakeProofs` | no wake-up is lost |
| `StoreDriversProofs` | the drivers, the refinement of `StoreDriver` |

Each of the first six extends the one before it, and `WakeProofs` extends `FreshProofs`.

* `TypeCorrect` (in both parts): `TypeOK`.
* `LedgerHolds`: `Ledger`, from which `RefIsLatest`, `FailuresDistinct` and
  `NamesMoveForward` follow.
* `ImplementsAttempts`: `ArtifactReconciler` implements `Attempts`.
* `ExpiryHolds`, `ExpiredStaysExpired`: an Expired Artifact gets no run.
* `RunsAreNotForgotten`: `RunningRunIsNotForgotten`, if the delete of a run past its deadline
  does not fail (`"deadline" \notin Faults`).
* `FlightHolds`: `FlightInv`, if in addition no class version regenerates on drift and
  nobody else removes the object (`KeepsObject`). `OneRunInFlight` is the same for
  `SingleFlight`, which it implies. `OneRunAlone` is the case of
  `MaxWrites = 0`. All three are needed: the code starts a run beside one whose delete
  failed, Regenerate drops a run it has just started, and so does a reconcile that takes
  an object of others for the result of its run, after which the object may go.
* `DeletionIsCarriedOut`: `DeletedMeansDeleted`, if every version of the class exists
  (without its class `reconcileDelete` lets go of the object) and nobody writes between the
  observation and the release (`NoWriteInWindow`).
* `ForeignLeftAlone`: `ForeignIsLeftAlone`, if a foreign object is put only while no reconcile
  has an observation in hand and no workload is about to upload (`ForeignComesUnobserved`).
  ForeignRace shows what happens otherwise.
* `ReadyTellsTheTruth`: `ReadyMeansInStore` for `MaxStale = 0`, if no run is adopted while
  Ready is True. `ReadyTellsTheTruthUninterrupted` drops that condition where neither a
  lost patch nor a restart nor a failed create comes between a create and its patch.
* `GraceIsTheRunsOwn`: `GraceIsOwn` for `MaxStale = 0`. GraceWindow shows that one stale read
  is too many.
* `BudgetIsRespected`, `FailuresAreKept`: `BudgetRespected` and `FailuresStay` for
  `MaxStale <= 1`, which is what Protocol checks.
* `WakeHolds`, `WakeupsAreNotLost`: `WakeInv` and `NoLostWakeup`, with no hypothesis.
* `ImplementsDriver`: `StoreDrivers` implements `StoreDriver`.
* `ReplacementsSurvive`, `OtherTagsAreKept`: what a Delete by id, and one of a tag, leaves
  alone.
* `ForeignIsNotDeleted`: `ForeignIsRecognised`, if no http class names a stamp key. HTTPStamp
  shows that the assumption is needed.
* `TokensOutliveRequests`: `TokenOutlivesRequest`, if `2 * Timeout <= EarlyExpiry`. With
  the defaults of 30 s and 60 s it holds with nothing to spare; a class may set a longer
  timeout.
* `SnapshotInvHolds`, `SnapshotsAreSafe`: a registered image keeps its snapshots.
* `SnapshotsGoWithTheImage`: `SnapshotsDeleted`, if no call fails after the image is
  deregistered (`CutShort`). So what AMISnapshots shows is the only way: an image that is
  replaced or deregistered by others during a Delete, or an earlier error, leaves none behind.

`RefIsLatestAttempt` and `FailuresAreDistinctRuns` are not inductive: a patch merges
fields of an old copy into a newer status. `Ledger` says how far copies can be apart.
The status in the API server is at most one attempt ahead of the cache and of the
copy that was read, and only of a copy without a run in flight (`Follows`), and
what a reconcile has done to its copy is to keep the attempt, to charge it as failed,
or to start the next (`Kept`, `Charged`, `Started`). A patch that charges comes from a
copy with a run in flight, so its attempts are current. A patch that starts writes
the attempt the API server already has, or the next. The proof has one lemma per group of
actions (`ReadsLedger`, `ActsLedger`, `PatchLedger`, `LedgerUnchanged`) over
lemmas on what each helper does to the three fields.

`ImplementsAttempts` uses the same: by `Ledger` the merge of a diff from an old copy
changes attempts, reference and count the way one step of `Attempts` does
(`PatchIsLedgerStep`).

`ExpiredStartsNothing` needs `ExpiryInv`, which relates four pieces of state: once the
status in the API server says Expired, `deleteAfter` has passed for every copy of the spec,
and no reconcile that has gone past that check can still be on its way to `createRun`.
`ExpiryProofs` proves it from what a read and an act leave in the copy.

`SingleFlight` is far from inductive. A run may be running that the status does not name,
because the patch after its create was lost, or that the status no longer names, because
an object was seen. `FlightInv` sorts these out. A running run is named by the status, or
is the next attempt, which the next `createRun` finds under its name (`Claimed`); or it is the last
attempt, dropped when the object was there or the Artifact is ending (`Released`), and then
no reconcile is in `reconcileMissing`. Its first conjunct, `DropInv`, is the copy's side:
between the act and the patch, a reference that the copy has dropped names no running run
unless the artifact was seen or the Artifact expired. Protocol checks `FlightInv`. The proof
uses `Ledger` for how far a copy can lag, `ExpiryInv`, and `ClassInv`: the class that a
reconcile holds is a version that existed.

`DeletionInv` follows the finalizer: a copy without it, while the API server has it, comes
from a deletion that found the key empty or foreign or has emptied it. `ForeignInv`: while a foreign
object is at the key, no workload is alive, and a reconcile under way has observed it
or is past its effects.

With `MaxStale = 0` the status changes only by the patch of the reconcile that read it
(`FreshInv`), so a patch leaves exactly the copy. `ReadyInv` then says that a status or copy
with Ready=True has ArtifactInStore=True and no run in flight; the second half is needed
because a handler that returns an error early, with a run in flight, leaves Ready as it was
beside ArtifactInStore=False. `UnusedInv` says that no run exists under a name later than
the counted attempts, so that nothing can be adopted.

`BudgetInv` allows one stale read. Until it happens every patch is made from the status that
is there, so the cache is at most one reconcile behind: if its copy has no run in flight,
that reconcile charged none, and if it honoured a retry it cleared the failures (`Near`).
The stale reconcile starts from such a copy. What it counts is then what the API server
records, or the API server records no failure, or it lacks the retry. After it, every reconcile
reads the current status again. A second stale read would meet a cache that is two patches
behind, and `Near` fails.

`FailuresAreKept` bounds the same distance in failures (`ChargeInv`): the one stale copy has missed
at most one. A reconcile that ends with fewer failures than it read has a reason to forget them
(`Excused`); one without a reason writes the count only after adding one to it, which brings
it up to the API server's. With three stale reads and an object that is put and removed again, a late
reset and two late charges lower the count with no reason in sight.

`GraceInv` says of every copy that the time of a success beside a reference is that of the
run referred to, and that there is none beside no reference; the second half is what the
adoption of a run relies on.

`NoLostWakeup` speaks of idle states only. `WakeInv` says why a reconcile can leave the queue
empty. While it runs and nothing is queued, no watch has delivered anything, so the cache and
the class are still what it read. If it will not be requeued it has left a copy that is at rest
(suspended, stalled on a template, expired for good), or the Artifact is on its way out. Its
patch then leaves the cache behind, and the watch queues the key again, or changes nothing, and
what was at rest for the copy is so for the API server. An edit of the spec that is taken back
before the watch delivers it queues nothing, so `WakeInv` counts on differences in the status
and in `deleting` only, which no edit undoes.

`SnapshotInv` adds to `ImageKeepsSnapshots` that image ids are not reused, that the
snapshots to delete belong to the image described, and that this image is no longer
registered when the first of them is deleted. For `SnapshotsDeleted`, `LeftInv` says that Delete
collected all the snapshots of the image, and that what is left of a deregistered image is
what the Delete that did it still has to delete. The other theorems on drivers follow from
`TypeOK` and invariants of one or two lines each, stated with their theorems; that of
the tokens bounds the age of a token by its cache entry and the timeouts.

Only model-checked: liveness, because fairness is out of the prover's reach. Every safety
property of a passing run has a theorem, under the hypotheses above. `SensorHasNoRun` has none:
it needs that no patch is lost and every hypothesis of `OneRunInFlight` and `MaxStale = 0` beside.

## Not modelled

Several Artifacts that share a key or a run name appear only as other writers and as an
alien object; the race of two first uses of a generator kind in `ensureWatch` needs two
Artifacts as well. Two controllers at once (leader election is off by default), a change of
the key by a `keyTemplate` edit, the clock of the reconciler, events and messages are left
out. An unrecognised run status is a run in progress.

Templates, CEL expressions, the identity hash, request signing, the header of each auth type and
the parsing of answers are pure functions of library code; the models keep what they
decide. The fake driver, the chart and generated code have no behaviour to check.

## Plan

1. `backoffDelay`, `EffectiveBackoff`, `GracePeriod` and the clock: a timed module that the
   untimed waits of `ArtifactReconciler` abstract.
2. Two Artifacts with one identity, composed over one store key.
3. Proofs: `SensorHasNoRun` where no patch is lost. `ReadyMeansInStore` stays with a cache that
   does not lag: a patch from an old copy may rewrite one of the two conditions and not the other.
