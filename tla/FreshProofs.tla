----------------------------- MODULE FreshProofs -----------------------------
(***************************************************************************)
(* Reconciles that start from a cache that does not lag (MaxStale = 0):    *)
(* Ready means that the artifact is in its store, and a grace period is    *)
(* that of its run.  Restarts, lost patches, edits and writes by others,   *)
(* at any time, are allowed.                                               *)
(***************************************************************************)
EXTENDS DeletionProofs

\* A reconcile started from the status that the API server still has.
FreshInv == pc # "idle" => base = status

\* The worker takes the key only when the cache is up to date.
LEMMA FreshRead ==
  ASSUME MaxStale = 0, TypeOK, Read, ~ReadGone
  PROVE  cSpec = spec /\ cStatus = status /\ spec.exists
<1>1. Dequeue
  BY ZenonT(40)
      DEF Read, AddFinalizer, ReadSuspended, CancelFails, ClassUnreadable, ClassNotFound,
          KeyTemplateError, TTLExpired, TTLDeleteFails, StoreUnavailable, Observed, LetGo,
          DeleteUnavailable, ObservedDeleting, ReadDeleting, Keyed, Cancelled, Active
<1>2. ~(stale < MaxStale)
  BY DEF TypeOK
<1> QED
  BY <1>1, <1>2 DEF Dequeue, cached, api

\* Every step keeps FreshInv: nobody but the reconcile writes the status.
LEMMA NextFresh ==
  ASSUME MaxStale = 0, TypeOK, FreshInv, [Next]_vars
  PROVE  FreshInv'
<1>1. CASE Read /\ ~ReadGone
  BY <1>1, FreshRead, ReadFrame DEF FreshInv
<1>2. CASE Act
  BY <1>2, ActFrame DEF FreshInv
<1>3. CASE Patch \/ PatchNotFound \/ PatchFails \/ Crash
  BY <1>3, EndFrame DEF FreshInv
<1>4. CASE SyncCache \/ Engine \/ User \/ Others \/ UNCHANGED vars \/ ReadGone
  BY <1>4, SurroundingsFrame DEF FreshInv
<1> QED
  BY <1>1, <1>2, <1>3, <1>4, StepCases

\* What a reconcile patches is what it read.
THEOREM FreshHolds ==
  ASSUME MaxStale = 0
  PROVE  Spec => []FreshInv
<1>1. Init => FreshInv
  BY DEF Init, FreshInv
<1>2. TypeOK /\ FreshInv /\ [Next]_vars => FreshInv'
  BY NextFresh
<1> QED
  BY <1>1, <1>2, TypeCorrect, PTL DEF Spec

\* A patch of what was read leaves the copy of the reconcile.
LEMMA FreshPatch ==
  ASSUME NEW o \in ArtifactStatus, NEW b \in ArtifactStatus, NEW p \in Merge(o, b, b)
  PROVE  /\ p.ready = o.ready /\ p.inStore = o.inStore /\ p.generatorRef = o.generatorRef
         /\ p.attempts = o.attempts /\ p.failedAttempts = o.failedAttempts
         /\ p.retryToken = o.retryToken /\ p.generatorSucceededAt = o.generatorSucceededAt
         /\ p.state = o.state
<1>1. p.ready = o.ready /\ p.inStore = o.inStore
  BY DEF Merge, CondChange
<1>2. /\ p.generatorRef = o.generatorRef /\ p.attempts = o.attempts
      /\ p.failedAttempts = o.failedAttempts /\ p.retryToken = o.retryToken
      /\ p.generatorSucceededAt = o.generatorSucceededAt /\ p.state = o.state
  BY DEF Merge, Change
<1> QED
  BY <1>1, <1>2

-----------------------------------------------------------------------------
(***************************************************************************)
(* Ready means in store.                                                   *)
(***************************************************************************)

\* Ready is True only for an artifact in its store that no run is replacing.
Honest(s) == s.ready = "True" => s.inStore = "True" /\ s.generatorRef = 0

\* p is as ready as o, and its artifact as much in store.
SameReady(p, o) == p.ready = o.ready /\ p.inStore = o.inStore

\* What the helpers say of Ready.
LEMMA ReadyFacts ==
  ASSUME NEW o \in ArtifactStatus, NEW held, NEW s, NEW policy, NEW m
  PROVE  /\ NotReady(o).ready = "False" /\ Suspended(o).ready = "False"
         /\ Conflicting(o).ready = "False" /\ DeletionBlocked(o).ready = "False"
         /\ Expired(o).ready = "False" /\ MissingObserved(o).ready = "False"
         /\ Degraded(o).ready = "False" /\ Generating(o).ready = "False"
         /\ Awaiting(o).ready = "False" /\ Created(o).ready = "False"
         /\ RecordAttemptFailure(o, m).ready = "False"
         /\ SameReady(MarkStalled(o), o) /\ SameReady(WithKey(o), o)
         /\ SameReady(WithFinalizer(o, held), o) /\ SameReady(WithoutDigest(o), o)
         /\ SameReady(RecordDrift(o, policy), o) /\ SameReady(Forget(o), o)
         /\ SameReady(HonorRetry(o, s), o)
         /\ Absent(o).ready = o.ready /\ Adopted(o).ready = o.ready
<1> USE DEF ArtifactStatus, SameReady
<1>1. /\ NotReady(o).ready = "False" /\ Suspended(o).ready = "False"
      /\ Conflicting(o).ready = "False" /\ DeletionBlocked(o).ready = "False"
  BY DEF NotReady, Suspended, Conflicting, DeletionBlocked
<1>2. /\ Expired(o).ready = "False" /\ MissingObserved(o).ready = "False"
  BY Zenon DEF Expired, MissingObserved, Settled, Forget, ClearFailures
<1>3. /\ Degraded(o).ready = "False" /\ Generating(o).ready = "False"
      /\ Awaiting(o).ready = "False" /\ Created(o).ready = "False"
  BY DEF Degraded, Generating, Awaiting, Created, NotReady, MarkStalled, MarkReconciling
<1>4. RecordAttemptFailure(o, m).ready = "False"
  BY DEF RecordAttemptFailure, NotReady, MarkStalled, MarkReconciling, Forget
<1>5. /\ SameReady(MarkStalled(o), o) /\ SameReady(WithKey(o), o)
      /\ SameReady(WithFinalizer(o, held), o) /\ SameReady(WithoutDigest(o), o)
      /\ SameReady(RecordDrift(o, policy), o) /\ SameReady(Forget(o), o)
      /\ Absent(o).ready = o.ready /\ Adopted(o).ready = o.ready
  BY DEF MarkStalled, WithKey, WithFinalizer, WithoutDigest, RecordDrift, Forget, Absent,
         Adopted
<1>6. SameReady(HonorRetry(o, s), o)
  BY ZenonT(40) DEF ClearFailures, HonorRetry
<1> QED
  BY <1>1, <1>2, <1>3, <1>4, <1>5, <1>6

\* A read step reports at most what its copy does.
LEMMA ReadReady ==
  ASSUME TypeOK, Read, ~ReadGone
  PROVE  obj'.ready = "False" \/ SameReady(obj', cStatus)
<1> DEFINE after == WithKey(AfterCancel)
           retried == HonorRetry(cStatus, cSpec)
<1>0. /\ cStatus \in ArtifactStatus /\ retried \in ArtifactStatus
      /\ AfterCancel \in ArtifactStatus /\ after \in ArtifactStatus
      /\ MarkStalled(AfterCancel) \in ArtifactStatus
  BY RetryFacts, AfterCancelFacts, MarkFacts DEF TypeOK
<1>1. /\ SameReady(retried, cStatus) /\ SameReady(Forget(retried), retried)
      /\ SameReady(after, AfterCancel)
  BY <1>0, ReadyFacts
<1>2. AfterCancel \in {retried, Forget(retried)}
  BY DEF AfterCancel
<1> HIDE DEF after, retried
<1>3. /\ \A o \in {AfterCancel, after, MarkStalled(AfterCancel)} : NotReady(o).ready = "False"
      /\ Suspended(cStatus).ready = "False"
      /\ \A held : SameReady(WithFinalizer(cStatus, held), cStatus)
  BY <1>0, ReadyFacts
<1>4. \/ obj' \in {cStatus, retried, AfterCancel, after, Suspended(cStatus),
                   WithFinalizer(cStatus, TRUE), WithFinalizer(cStatus, FALSE)}
      \/ obj' \in {NotReady(AfterCancel), NotReady(after), NotReady(MarkStalled(AfterCancel))}
  BY ZenonT(40)
  DEF Read, AddFinalizer, ReadSuspended, CancelFails, ClassUnreadable, ClassNotFound,
      KeyTemplateError, TTLExpired, TTLDeleteFails, StoreUnavailable, Observed, LetGo,
      DeleteUnavailable, ObservedDeleting, Return, Dispatch, after, retried
<1> QED
  BY <1>1, <1>2, <1>3, <1>4 DEF SameReady

\* A handler reports Ready for what it has verified; otherwise what it leaves of
\* Ready is what it found, next to the same ArtifactInStore, to a run in flight,
\* or to a run that it adopts.
LEMMA ActReady ==
  ASSUME TypeOK, Act
  PROVE  \/ obj'.ready = "False"
         \/ obj'.inStore = "True" /\ obj'.generatorRef = 0
         \/ SameReady(obj', obj) /\ SameRun(obj', obj)
         \/ obj'.ready = obj.ready /\ (obj.generatorRef # 0 \/ AdoptRun)
<1> DEFINE p == Absent(obj)
<1>1. /\ obj \in ArtifactStatus /\ p \in ArtifactStatus /\ MarkStalled(p) \in ArtifactStatus
      /\ Forget(p) \in ArtifactStatus /\ obs \in Object
  BY MarkFacts, LedgerFacts DEF TypeOK
<1>2. p.ready = obj.ready
  BY <1>1, ReadyFacts
<1> HIDE DEF p
<1>3. /\ Degraded(p).ready = "False" /\ Generating(p).ready = "False"
      /\ Awaiting(p).ready = "False" /\ NotReady(p).ready = "False"
      /\ Created(p).ready = "False" /\ Degraded(Forget(p)).ready = "False"
      /\ NotReady(MarkStalled(p)).ready = "False"
      /\ Forget(p).ready = obj.ready /\ Adopted(p).ready = obj.ready
  BY <1>1, <1>2, ReadyFacts DEF SameReady
<1>4. Failure.ready = "False"
  BY <1>1, ReadyFacts DEF Failure, p
<1>5. CASE KeyConflict \/ DeletionRefused \/ ExpireRefused \/ ArtifactMissingObserved
           \/ DeleteAfterExpired
  <2>1. /\ Conflicting(obj).ready = "False" /\ DeletionBlocked(obj).ready = "False"
        /\ NotReady(obj).ready = "False" /\ MissingObserved(obj).ready = "False"
        /\ Expired(obj).ready = "False"
    BY <1>1, ReadyFacts
  <2> QED
    BY <1>5, <2>1
    DEF KeyConflict, DeletionRefused, ExpireRefused, ArtifactMissingObserved,
        DeleteAfterExpired, Finish
<1>6. CASE DriftRegenerate
  <2>1. LET d == RecordDrift(obj, klass.drift)
        IN  /\ d \in ArtifactStatus /\ SameLedger(d, obj) /\ SameReady(d, obj)
            /\ obj' = WithoutDigest(d)
    BY <1>1, <1>6, MarkFacts2, ReadyFacts, Zenon DEF DriftRegenerate
  <2> QED
    BY <2>1, MarkFacts, ReadyFacts DEF SameReady, SameRun, SameLedger
<1>7. CASE DriftReported \/ ArtifactAvailable
  <2>1. PICK d \in ArtifactStatus : obj' = Verified(d, obs)
    BY <1>1, <1>7, MarkFacts2, Zenon DEF DriftReported, ArtifactAvailable, Finish
  <2>2. obj'.inStore = "True"
    BY <2>1, Zenon DEF ArtifactStatus, Verified, Settled, Forget, ClearFailures
  <2>3. obj'.generatorRef = 0
    BY <1>1, <2>1, VerifiedFacts, Zenon
  <2> QED
    BY <2>2, <2>3
<1>8. CASE GeneratorNotConfigured \/ FailureBudgetExhausted \/ RunUnreadable
  BY <1>2, <1>3, <1>8
  DEF GeneratorNotConfigured, FailureBudgetExhausted, RunUnreadable, Finish, p
<1>9. CASE \/ RunVanished \/ GeneratorFailed \/ AwaitingArtifact \/ SucceededWithoutArtifact
           \/ RunInProgress \/ ProgressDeadlineExceeded
  BY <1>3, <1>4, <1>9
  DEF RunVanished, GeneratorFailed, AwaitingArtifact, SucceededWithoutArtifact,
      RunInProgress, ProgressDeadlineExceeded, Evaluate, Finish, p
<1>10. CASE BackoffPending \/ RunTemplateError \/ CreateRun \/ AdoptRun \/ RunNotOwned
            \/ CreateFails
  BY <1>3, <1>10
  DEF BackoffPending, RunTemplateError, CreateRun, AdoptRun, RunNotOwned, CreateFails,
      Finish, p
<1>11. CASE ArtifactDeleted
  <2>1. obj' = WithFinalizer(obj, FALSE)
    BY <1>11 DEF ArtifactDeleted, Finish
  <2>2. SameReady(obj', obj)
    BY <1>1, <2>1, ReadyFacts
  <2>3. SameLedger(obj', obj)
    BY <1>1, <2>1, MarkFacts2, Zenon
  <2> QED
    BY <2>2, <2>3 DEF SameRun, SameLedger
<1> QED
  BY <1>5, <1>6, <1>7, <1>8, <1>9, <1>10, <1>11 DEF Act

\* Ready is honest in the API server, and in the copy of a reconcile.
ReadyInv == Honest(status) /\ (pc # "idle" => Honest(obj))

\* A lost run is adopted under a Ready that is still True.
AdoptsWhileReady == AdoptRun /\ obj.ready = "True"

\* A status keeps honest when only a run is forgotten.
LEMMA StillHonest ==
  ASSUME NEW o, NEW p, Honest(o), SameReady(p, o), p.generatorRef \in {o.generatorRef, 0}
  PROVE  Honest(p)
BY DEF Honest, SameReady

\* Every step but such an adoption keeps Ready honest.
LEMMA NextReady ==
  ASSUME MaxStale = 0, TypeOK, FreshInv, ReadyInv, [Next]_vars, ~AdoptsWhileReady
  PROVE  ReadyInv'
<1>1. CASE Read /\ ~ReadGone
  <2>1. cStatus = status /\ UNCHANGED status
    BY <1>1, FreshRead, ReadFrame
  <2>2. obj'.generatorRef \in {cStatus.generatorRef, 0}
    BY <1>1, ReadDrops
  <2>3. obj'.ready = "False" \/ SameReady(obj', cStatus)
    BY <1>1, ReadReady
  <2> QED
    BY <2>1, <2>2, <2>3, StillHonest DEF ReadyInv, Honest
<1>2. CASE Act
  <2>1. pc # "idle" /\ UNCHANGED status
    BY <1>2, ActFrame
  <2>2. CASE SameReady(obj', obj) /\ SameRun(obj', obj)
    BY <2>1, <2>2, StillHonest DEF ReadyInv, SameRun
  <2>3. CASE obj'.ready = "False" \/ (obj'.inStore = "True" /\ obj'.generatorRef = 0)
    BY <2>1, <2>3 DEF ReadyInv, Honest
  <2>4. CASE obj'.ready = obj.ready /\ (obj.generatorRef # 0 \/ AdoptRun)
    BY <2>1, <2>4 DEF ReadyInv, Honest, AdoptsWhileReady
  <2> QED
    BY <1>2, <2>2, <2>3, <2>4, ActReady
<1>3. CASE Patch
  <2>1. pc = "patch" /\ status' \in Merge(obj, base, status) /\ pc' = "idle"
    BY <1>3, EndFrame DEF Patch
  <2>2. status' \in Merge(obj, status, status)
    BY <2>1 DEF FreshInv
  <2>3. SameReady(status', obj) /\ status'.generatorRef = obj.generatorRef
    BY <2>2, FreshPatch DEF TypeOK, SameReady
  <2> QED
    BY <2>1, <2>3, StillHonest DEF ReadyInv
<1>4. CASE ~Patch /\ (PatchNotFound \/ PatchFails \/ Crash)
  BY <1>4, EndFrame DEF ReadyInv
<1>5. CASE SyncCache \/ Engine \/ User \/ Others \/ UNCHANGED vars \/ ReadGone
  BY <1>5, SurroundingsFrame DEF ReadyInv
<1> QED
  BY <1>1, <1>2, <1>3, <1>4, <1>5, StepCases

\* With a cache that does not lag, Ready is never True next to an ArtifactInStore
\* that is not, whatever fails, unless createRun adopts a run whose status update
\* was lost: it leaves Ready as it found it.
THEOREM ReadyTellsTheTruth ==
  ASSUME MaxStale = 0
  PROVE  Spec /\ [][~AdoptsWhileReady]_vars => []ReadyMeansInStore
<1>1. Init => ReadyInv
  <2>1. NewStatus.ready # "True"
    BY Zenon DEF NewStatus
  <2> QED
    BY <2>1 DEF Init, ReadyInv, Honest
<1>2. TypeOK /\ FreshInv /\ ReadyInv /\ [Next]_vars /\ [~AdoptsWhileReady]_vars => ReadyInv'
  <2>1. UNCHANGED vars => ~AdoptsWhileReady
    BY Zenon DEF AdoptsWhileReady, AdoptRun, TryCreate, NoRunInFlight, InBudget, Missing, In,
                 Finish, vars
  <2> QED
    BY <2>1, NextReady
<1>3. ReadyInv => ReadyMeansInStore
  BY DEF ReadyInv, Honest, ReadyMeansInStore
<1> QED
  BY <1>1, <1>2, <1>3, TypeCorrect, FreshHolds, PTL DEF Spec

-----------------------------------------------------------------------------
(***************************************************************************)
(* No patch is lost: no run is ever adopted.                               *)
(***************************************************************************)

\* No run was created under a name later than the a-th.
Unused(a) == \A n \in 1..MaxRuns : n > a => runs[n].api \in {"none", "alien"}

\* The status counts every run that was created, and so does the copy of a
\* reconcile under way.
UnusedInv ==
  /\ pc = "idle" /\ spec.exists => Unused(status.attempts)
  /\ pc # "idle" => Unused(obj.attempts)

\* Nothing that interrupts a reconcile between its create and its patch.
Uninterrupted == Faults \cap {"patch", "crash", "create"} = {}

\* Only a create puts a run of the Artifact under a free name.
LEMMA OnlyCreateNames ==
  ASSUME TypeOK, [Next]_vars, ~CreateRun, ~CreateFails, NEW n \in 1..MaxRuns,
         runs[n].api \in {"none", "alien"}
  PROVE  runs'[n].api \in {"none", "alien"}
<1>0. ASSUME NEW m, runs' \in {runs, DeleteRun(m)}
      PROVE  runs'[n].api \in {"none", "alien"}
  <2>1. runs \in [1..MaxRuns -> Run]
    BY DEF TypeOK
  <2> QED
    BY <1>0, <2>1 DEF Run, DeleteRun
<1>1. CASE Read /\ ~ReadGone
  BY <1>0, <1>1, ReadDrops
<1>2. CASE Act
  <2>1. runs' \in {runs, DeleteRun(obj.generatorRef)}
    BY <1>2, ZenonT(40)
        DEF Act, KeyConflict, DriftRegenerate, DriftReported, ArtifactAvailable,
            ArtifactMissingObserved, GeneratorNotConfigured, FailureBudgetExhausted,
            RunUnreadable, RunVanished, GeneratorFailed, AwaitingArtifact,
            SucceededWithoutArtifact, RunInProgress, ProgressDeadlineExceeded,
            BackoffPending, RunTemplateError, AdoptRun, RunNotOwned,
            DeleteAfterExpired, ExpireRefused, ArtifactDeleted, DeletionRefused
  <2> QED
    BY <1>0, <2>1
<1>3. CASE Engine
  <2>1. PICK m \in 1..MaxRuns :
          \/ RunSucceeds(m) \/ RunFails(m) \/ Upload(m) \/ StopWorker(m) \/ CollectRun(m)
          \/ DeleteRunByHand(m)
    BY <1>3 DEF Engine
  <2>2. CASE Upload(m) \/ StopWorker(m)
    <3>1. runs' = [runs EXCEPT ![m].worker = FALSE]
      BY <2>2 DEF Upload, StopWorker
    <3> QED
      BY <3>1 DEF TypeOK, Run
  <2>3. CASE RunSucceeds(m) \/ RunFails(m)
    <3>1. runs[m].api = "running" /\ \A k \in 1..MaxRuns : k # m => runs'[k] = runs[k]
      BY <2>3 DEF RunSucceeds, RunFails, RunChanges, TypeOK
    <3> QED
      BY <3>1
  <2>4. CASE CollectRun(m) \/ DeleteRunByHand(m)
    <3>1. runs' = [runs EXCEPT ![m] = [api |-> "none", worker |-> runs[m].worker]]
      BY <2>4, Zenon DEF CollectRun, DeleteRunByHand, RunChanges
    <3> QED
      BY <3>1 DEF TypeOK, Run
  <2> QED
    BY <2>1, <2>2, <2>3, <2>4
<1>4. CASE Patch \/ PatchNotFound \/ PatchFails \/ Crash \/ SyncCache \/ User \/ Others
           \/ UNCHANGED vars \/ ReadGone
  BY <1>4, EndFrame, SyncFrame, UserFrame, OthersFrame, StutterFrame
<1> QED
  BY <1>1, <1>2, <1>3, <1>4, StepCases

\* An Artifact that is gone does not come back, and retries are only added.
LEMMA SpecMoves ==
  ASSUME TypeOK, [Next]_vars
  PROVE  /\ spec'.exists => spec.exists
         /\ spec'.retry \in Nat /\ spec'.retry >= spec.retry
<1>0. spec \in ArtifactSpec /\ spec.retry \in Nat
  BY DEF TypeOK, ArtifactSpec
<1>1. CASE spec' = spec
  BY <1>0, <1>1
<1>2. CASE DeleteArtifact
  BY <1>0, <1>2 DEF DeleteArtifact, ArtifactSpec
<1>3. CASE Patch
  BY <1>0, <1>3 DEF Patch, ArtifactSpec
<1>4. CASE User
  <2>1. CASE FlipPolicy \/ ToggleSuspend \/ AnnotateRetry
    BY <1>0, <2>1 DEF FlipPolicy, ToggleSuspend, AnnotateRetry, Op, Edits, ArtifactSpec
  <2>2. UserDelete => DeleteArtifact
    BY DEF UserDelete
  <2>3. EditClass \/ (\E limit \in {"ttl", "deleteAfter"} : Age(limit)) => spec' = spec
    BY Zenon DEF EditClass, Age, Environment
  <2> QED
    BY <1>1, <1>2, <1>4, <2>1, <2>2, <2>3 DEF User
<1> QED
  BY <1>1, <1>2, <1>3, <1>4, StepCases, ReadFrame, ActFrame, EndFrame, SyncFrame, EngineFrame,
     OthersFrame, StutterFrame

\* Without faults in that window no step creates a run that is not counted.
LEMMA NextUnused ==
  ASSUME MaxStale = 0, Uninterrupted, TypeOK, FreshInv, UnusedInv, [Next]_vars
  PROVE  UnusedInv'
<1>0. /\ ~CreateFails /\ ~PatchFails /\ ~Crash
      /\ CreateRun => Act /\ pc = "reconcileMissing" /\ pc' = "patch"
  BY Zenon DEF Uninterrupted, CreateFails, PatchFails, Crash, Fault, CreateRun, TryCreate,
               NoRunInFlight, InBudget, Missing, In, Finish, Act
<1>1. ASSUME NEW a, Unused(a), ~CreateRun
      PROVE  Unused(a)'
  BY <1>0, <1>1, OnlyCreateNames DEF Unused
<1>2. CASE Read /\ ~ReadGone
  <2>1. /\ cStatus = status /\ spec.exists /\ obj'.attempts = cStatus.attempts
        /\ pc = "idle" /\ pc' # "idle"
    BY <1>2, FreshRead, ReadDrops, ReadFrame
  <2>2. Unused(status.attempts)'
    BY <1>0, <1>1, <1>2, <2>1, ReadFrame DEF UnusedInv
  <2> QED
    BY <1>2, <2>1, <2>2, ReadFrame DEF UnusedInv
<1>3. CASE CreateRun
  <2>1. /\ runs' = [runs EXCEPT ![NextRun] = [api |-> "running", worker |-> TRUE]]
        /\ obj' = Created(Absent(obj))
    BY <1>3, Zenon DEF CreateRun, Finish
  <2>2. obj'.attempts = NextRun /\ obj.attempts \in Nat /\ Unused(obj.attempts)
    <3>1. obj \in ArtifactStatus /\ Absent(obj) \in ArtifactStatus
          /\ Absent(obj).attempts = obj.attempts
      BY AbsentFacts DEF TypeOK, SameRun
    <3>2. /\ Generating(Absent(obj)) \in ArtifactStatus
          /\ Generating(Absent(obj)).attempts = obj.attempts
      BY <3>1, LedgerFacts DEF SameLedger
    <3>3. obj'.attempts = obj.attempts + 1
      BY <2>1, <3>2 DEF Created, ArtifactStatus
    <3>4. obj.attempts \in Nat /\ Unused(obj.attempts)
      BY <1>0, <1>3, <3>1 DEF UnusedInv, ArtifactStatus
    <3> QED
      BY <3>3, <3>4 DEF NextRun
  <2>3. \A n \in 1..MaxRuns : n > NextRun => runs'[n] = runs[n] /\ n > obj.attempts
    BY <2>1, <2>2 DEF TypeOK, NextRun
  <2> QED
    BY <1>0, <1>3, <2>2, <2>3 DEF UnusedInv, Unused
<1>4. CASE Act /\ ~CreateRun
  <2>1. pc # "idle" /\ pc' # "idle"
    BY <1>4, ActFrame, Zenon DEF DriftRegenerate
  <2>2. Unused(obj.attempts)
    BY <2>1 DEF UnusedInv
  <2>3. \A n \in 1..MaxRuns : n > obj.attempts => runs'[n].api \in {"none", "alien"}
    BY <1>0, <1>4, <2>2, OnlyCreateNames DEF Unused
  <2>4. obj.attempts \in Nat /\ obj'.attempts \in {obj.attempts, obj.attempts + 1}
    <3>1. obj.attempts \in Nat
      BY DEF TypeOK, ArtifactStatus
    <3> QED
      BY <1>4, <3>1, ActCases DEF SameRun, NextRun
  <2> QED
    BY <2>1, <2>3, <2>4 DEF UnusedInv, Unused
<1>5. CASE Patch
  <2>1. pc = "patch" /\ status' \in Merge(obj, status, status) /\ pc' = "idle" /\ runs' = runs
    BY <1>5, EndFrame DEF Patch, FreshInv
  <2>2. status'.attempts = obj.attempts
    BY <2>1, FreshPatch DEF TypeOK
  <2> QED
    BY <2>1, <2>2 DEF UnusedInv, Unused
<1>6. CASE PatchNotFound
  <2>1. pc' = "idle" /\ ~spec'.exists
    BY <1>6, EndFrame DEF PatchNotFound
  <2> QED
    BY <2>1 DEF UnusedInv
<1>7. CASE SyncCache \/ Engine \/ User \/ Others \/ UNCHANGED vars \/ ReadGone
  <2>1. UNCHANGED <<status, pc, obj>>
    BY <1>7, SurroundingsFrame
  <2>2. ~CreateRun
    BY <1>0, <2>1
  <2>3. (Unused(status.attempts) => Unused(status.attempts)')
        /\ (Unused(obj.attempts) => Unused(obj.attempts)')
    BY <1>0, <2>1, <2>2, OnlyCreateNames DEF Unused
  <2> QED
    BY <2>1, <2>3, SpecMoves DEF UnusedInv
<1> QED
  BY <1>0, <1>2, <1>3, <1>4, <1>5, <1>6, <1>7, StepCases

\* Ready tells the truth where no reconcile is interrupted between its create and
\* its patch, for every other fault.
THEOREM ReadyTellsTheTruthUninterrupted ==
  ASSUME MaxStale = 0, Uninterrupted
  PROVE  Spec => []ReadyMeansInStore
<1>1. Init => UnusedInv
  <2>1. Init => \A n \in 1..MaxRuns : runs[n] \in {NoRun, [NoRun EXCEPT !.api = "alien"]}
    BY Zenon DEF Init
  <2> QED
    BY <2>1 DEF Init, UnusedInv, Unused, NoRun
<1>2. TypeOK /\ FreshInv /\ UnusedInv /\ [Next]_vars => UnusedInv'
  BY NextUnused
<1>3. TypeOK /\ UnusedInv => [~AdoptsWhileReady]_vars
  <2> SUFFICES ASSUME TypeOK, UnusedInv, AdoptRun
               PROVE  FALSE
    BY DEF AdoptsWhileReady
  <2>1. /\ pc = "reconcileMissing" /\ NextRun <= MaxRuns
        /\ runs[NextRun].api \notin {"none", "alien"}
    BY Zenon DEF AdoptRun, TryCreate, NoRunInFlight, InBudget, Missing, In
  <2>2. obj.attempts \in Nat /\ Unused(obj.attempts)
    BY <2>1 DEF TypeOK, ArtifactStatus, UnusedInv
  <2>3. NextRun \in 1..MaxRuns /\ NextRun > obj.attempts
    BY <2>1, <2>2, BoundsAssumption DEF NextRun
  <2> QED
    BY <2>1, <2>2, <2>3 DEF Unused
<1> QED
  BY <1>1, <1>2, <1>3, TypeCorrect, FreshHolds, ReadyTellsTheTruth, PTL DEF Spec

-----------------------------------------------------------------------------
(***************************************************************************)
(* The verification grace period is the run's own.                         *)
(***************************************************************************)

\* No success is on record, or that of the run in flight.
Own(s) == s.generatorSucceededAt \in {0, s.generatorRef}

\* Every helper keeps a success with its run; the runs that createRun starts or
\* adopts follow one whose success was forgotten with it.
LEMMA GraceFacts ==
  ASSUME NEW o \in ArtifactStatus, NEW held, NEW s, NEW seen, NEW policy, NEW m, Own(o)
  PROVE  /\ Own(NotReady(o)) /\ Own(MarkStalled(o)) /\ Own(Suspended(o))
         /\ Own(Conflicting(o)) /\ Own(DeletionBlocked(o)) /\ Own(WithKey(o))
         /\ Own(WithoutDigest(o)) /\ Own(Absent(o)) /\ Own(WithFinalizer(o, held))
         /\ Own(RecordDrift(o, policy)) /\ Own(Rebaselined(o, seen))
         /\ Own(HonorRetry(o, s)) /\ Own(Forget(o)) /\ Own(Expired(o))
         /\ Own(MissingObserved(o)) /\ Own(Verified(o, seen)) /\ Own(Degraded(o))
         /\ Own(Generating(o)) /\ Own(Awaiting(o)) /\ Own(Created(o))
         /\ o.generatorRef = 0 => Own(Adopted(o))
         /\ Own(RecordAttemptFailure(o, m))
<1> USE DEF Own, ArtifactStatus
<1>1. /\ Own(NotReady(o)) /\ Own(MarkStalled(o)) /\ Own(Suspended(o))
      /\ Own(Conflicting(o)) /\ Own(DeletionBlocked(o))
  BY DEF NotReady, MarkStalled, Suspended, Conflicting, DeletionBlocked
<1>2. /\ Own(WithKey(o)) /\ Own(WithoutDigest(o)) /\ Own(Absent(o))
      /\ Own(WithFinalizer(o, held))
  BY DEF WithKey, WithoutDigest, Absent, WithFinalizer
<1>3. Own(RecordDrift(o, policy)) /\ Own(Rebaselined(o, seen))
  BY DEF RecordDrift, Rebaselined
<1>4. Own(HonorRetry(o, s))
  BY ZenonT(40) DEF HonorRetry, ClearFailures
<1>5. Own(Forget(o)) /\ Own(Expired(o)) /\ Own(Verified(o, seen))
  BY Zenon DEF Forget, Expired, Verified, Settled, ClearFailures
<1>6. Own(MissingObserved(o))
  BY DEF MissingObserved, Settled, ClearFailures
<1>7. Own(Degraded(o)) /\ Own(Generating(o)) /\ Own(Created(o))
  BY DEF Degraded, Generating, Created, NotReady, MarkStalled, MarkReconciling
<1>8. Own(Awaiting(o))
  BY DEF Awaiting, NotReady, MarkReconciling
<1>9. o.generatorRef = 0 => Own(Adopted(o))
  BY DEF Adopted
<1>10. Own(RecordAttemptFailure(o, m))
  BY DEF RecordAttemptFailure, NotReady, MarkStalled, MarkReconciling, Forget
<1> QED
  BY <1>1, <1>2, <1>3, <1>4, <1>5, <1>6, <1>7, <1>8, <1>9, <1>10

\* A read step keeps the success with its run.
LEMMA ReadGrace ==
  ASSUME TypeOK, Read, ~ReadGone, Own(cStatus)
  PROVE  Own(obj')
<1> DEFINE after == WithKey(AfterCancel)
           retried == HonorRetry(cStatus, cSpec)
<1>0. /\ cStatus \in ArtifactStatus /\ retried \in ArtifactStatus
      /\ AfterCancel \in ArtifactStatus /\ after \in ArtifactStatus
      /\ MarkStalled(AfterCancel) \in ArtifactStatus
  BY RetryFacts, AfterCancelFacts, MarkFacts DEF TypeOK
<1>1. Own(retried)
  BY <1>0, GraceFacts
<1>2. AfterCancel \in {retried, Forget(retried)}
  BY DEF AfterCancel
<1> HIDE DEF after, retried
<1>3. Own(AfterCancel)
  BY <1>0, <1>1, <1>2, GraceFacts
<1>4. Own(after) /\ Own(MarkStalled(AfterCancel))
  BY <1>0, <1>3, GraceFacts DEF after
<1>5. /\ \A o \in {AfterCancel, after, MarkStalled(AfterCancel)} : Own(NotReady(o))
      /\ Own(Suspended(cStatus)) /\ \A held : Own(WithFinalizer(cStatus, held))
  BY <1>0, <1>3, <1>4, GraceFacts
<1>6. \/ obj' \in {cStatus, retried, AfterCancel, after, Suspended(cStatus),
                   WithFinalizer(cStatus, TRUE), WithFinalizer(cStatus, FALSE)}
      \/ obj' \in {NotReady(AfterCancel), NotReady(after), NotReady(MarkStalled(AfterCancel))}
  BY ZenonT(40)
  DEF Read, AddFinalizer, ReadSuspended, CancelFails, ClassUnreadable, ClassNotFound,
      KeyTemplateError, TTLExpired, TTLDeleteFails, StoreUnavailable, Observed, LetGo,
      DeleteUnavailable, ObservedDeleting, Return, Dispatch, after, retried
<1> QED
  BY <1>1, <1>3, <1>4, <1>5, <1>6

\* A handler keeps the success with its run.
LEMMA ActGrace ==
  ASSUME TypeOK, Act, Own(obj)
  PROVE  Own(obj')
<1> DEFINE p == Absent(obj)
<1>1. /\ obj \in ArtifactStatus /\ p \in ArtifactStatus /\ MarkStalled(p) \in ArtifactStatus
      /\ Forget(p) \in ArtifactStatus /\ obs \in Object
  BY MarkFacts, LedgerFacts DEF TypeOK
<1>2. Own(p) /\ p.generatorRef = obj.generatorRef
  BY <1>1, GraceFacts, MarkFacts DEF SameLedger
<1> HIDE DEF p
<1>3. /\ Own(Degraded(p)) /\ Own(Generating(p)) /\ Own(Awaiting(p)) /\ Own(NotReady(p))
      /\ Own(Created(p)) /\ Own(Forget(p)) /\ Own(MarkStalled(p))
      /\ obj.generatorRef = 0 => Own(Adopted(p))
      /\ Own(RecordAttemptFailure(p, klass.maxAttempts))
  BY <1>1, <1>2, GraceFacts
<1>4. Own(Degraded(Forget(p))) /\ Own(NotReady(MarkStalled(p)))
  BY <1>1, <1>3, GraceFacts
<1>5. CASE KeyConflict \/ DeletionRefused \/ ExpireRefused \/ ArtifactMissingObserved
           \/ DeleteAfterExpired \/ ArtifactDeleted
  <2>1. /\ Own(Conflicting(obj)) /\ Own(DeletionBlocked(obj)) /\ Own(NotReady(obj))
        /\ Own(MissingObserved(obj)) /\ Own(Expired(obj)) /\ Own(WithFinalizer(obj, FALSE))
    BY <1>1, GraceFacts
  <2> QED
    BY <1>5, <2>1, Zenon
    DEF KeyConflict, DeletionRefused, ExpireRefused, ArtifactMissingObserved,
        DeleteAfterExpired, ArtifactDeleted, Finish
<1>6. CASE DriftRegenerate
  <2>1. LET d == RecordDrift(obj, klass.drift)
        IN  d \in ArtifactStatus /\ Own(d) /\ obj' = WithoutDigest(d)
    BY <1>1, <1>6, MarkFacts2, GraceFacts, Zenon DEF DriftRegenerate
  <2> QED
    BY <2>1, GraceFacts
<1>7. CASE DriftReported \/ ArtifactAvailable
  <2>1. PICK d \in ArtifactStatus : Own(d) /\ obj' = Verified(d, obs)
    BY <1>1, <1>7, MarkFacts2, GraceFacts, Zenon DEF DriftReported, ArtifactAvailable, Finish
  <2> QED
    BY <2>1, GraceFacts
<1>8. CASE GeneratorNotConfigured \/ FailureBudgetExhausted \/ RunUnreadable
  BY <1>2, <1>3, <1>4, <1>8
  DEF GeneratorNotConfigured, FailureBudgetExhausted, RunUnreadable, Finish, p
<1>9. CASE \/ RunVanished \/ GeneratorFailed \/ AwaitingArtifact \/ SucceededWithoutArtifact
           \/ RunInProgress \/ ProgressDeadlineExceeded
  BY <1>3, <1>9
  DEF RunVanished, GeneratorFailed, AwaitingArtifact, SucceededWithoutArtifact,
      RunInProgress, ProgressDeadlineExceeded, Failure, Finish, p
<1>10. CASE BackoffPending \/ RunTemplateError \/ CreateRun \/ RunNotOwned \/ CreateFails
  BY <1>3, <1>4, <1>10
  DEF BackoffPending, RunTemplateError, CreateRun, RunNotOwned, CreateFails, Finish, p
<1>11. CASE AdoptRun
  BY <1>3, <1>11 DEF AdoptRun, TryCreate, NoRunInFlight, Finish, p
<1> QED
  BY <1>5, <1>6, <1>7, <1>8, <1>9, <1>10, <1>11 DEF Act

\* The success on record is that of the run in flight, in the API server and in
\* the copy of a reconcile.
GraceInv == Own(status) /\ (pc # "idle" => Own(obj))

\* Every step keeps GraceInv.
LEMMA NextGrace ==
  ASSUME MaxStale = 0, TypeOK, FreshInv, GraceInv, [Next]_vars
  PROVE  GraceInv'
<1>1. CASE Read /\ ~ReadGone
  <2>1. cStatus = status /\ UNCHANGED status
    BY <1>1, FreshRead, ReadFrame
  <2> QED
    BY <1>1, <2>1, ReadGrace DEF GraceInv
<1>2. CASE Act
  <2>1. pc # "idle" /\ UNCHANGED status
    BY <1>2, ActFrame
  <2> QED
    BY <1>2, <2>1, ActGrace DEF GraceInv
<1>3. CASE Patch
  <2>1. pc = "patch" /\ status' \in Merge(obj, base, status) /\ pc' = "idle"
    BY <1>3, EndFrame DEF Patch
  <2>2. status' \in Merge(obj, status, status)
    BY <2>1 DEF FreshInv
  <2>3. /\ status'.generatorRef = obj.generatorRef
        /\ status'.generatorSucceededAt = obj.generatorSucceededAt
    BY <2>2, FreshPatch DEF TypeOK
  <2> QED
    BY <2>1, <2>3 DEF GraceInv, Own
<1>4. CASE ~Patch /\ (PatchNotFound \/ PatchFails \/ Crash)
  BY <1>4, EndFrame DEF GraceInv
<1>5. CASE SyncCache \/ Engine \/ User \/ Others \/ UNCHANGED vars \/ ReadGone
  BY <1>5, SurroundingsFrame DEF GraceInv
<1> QED
  BY <1>1, <1>2, <1>3, <1>4, <1>5, StepCases

\* With a cache that does not lag, the verification grace period of a run starts
\* at that run's own success, whatever fails and whoever restarts: a copy of an
\* earlier run's success can reach a later run only through a stale patch.
THEOREM GraceIsTheRunsOwn ==
  ASSUME MaxStale = 0
  PROVE  Spec => []GraceIsOwn
<1>1. Init => GraceInv
  <2>1. NewStatus.generatorSucceededAt = 0
    BY Zenon DEF NewStatus
  <2> QED
    BY <2>1 DEF Init, GraceInv, Own
<1>2. TypeOK /\ FreshInv /\ GraceInv /\ [Next]_vars => GraceInv'
  BY NextGrace
<1>3. GraceInv => GraceIsOwn
  BY DEF GraceInv, Own, GraceIsOwn
<1> QED
  BY <1>1, <1>2, <1>3, TypeCorrect, FreshHolds, PTL DEF Spec
=============================================================================
