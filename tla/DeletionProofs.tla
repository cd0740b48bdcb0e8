---------------------------- MODULE DeletionProofs ----------------------------
(***************************************************************************)
(* What the controller deletes from the store, and what it leaves alone:   *)
(* DeletedMeansDeleted and ForeignIsLeftAlone.                             *)
(***************************************************************************)
EXTENDS FlightProofs

-----------------------------------------------------------------------------
(***************************************************************************)
(* The finalizer and the deletion policy.                                  *)
(***************************************************************************)

\* Nobody changes the deletion policy, nor the management policy beside Delete;
\* and an Artifact that has the finalizer is removed by the patch only.
LEMMA PolicyKept ==
  ASSUME TypeOK, [Next]_vars
  PROVE  /\ spec'.deletionPolicy = spec.deletionPolicy
         /\ spec.deletionPolicy = "Delete" => spec'.managementPolicy = spec.managementPolicy
         /\ spec.exists /\ ~spec'.exists /\ status.finalizer => Patch
<1>1. CASE (Read /\ ~ReadGone) \/ UserDelete
  <2>1. spec' = spec \/ DeleteArtifact
    BY <1>1, ReadFrame DEF UserDelete
  <2> QED
    BY <2>1 DEF DeleteArtifact, TypeOK, ArtifactSpec
<1>2. CASE Patch
  BY <1>2 DEF Patch, TypeOK, ArtifactSpec
<1>3. CASE FlipPolicy \/ ToggleSuspend \/ AnnotateRetry
  BY <1>3 DEF FlipPolicy, ToggleSuspend, AnnotateRetry, Edits, TypeOK, ArtifactSpec
<1>4. CASE Act \/ PatchNotFound \/ PatchFails \/ Crash \/ SyncCache \/ Engine \/ Others
           \/ UNCHANGED vars \/ ReadGone
  <2>1. Patch \/ spec' = spec
    BY <1>4, ActFrame, EndFrame, SyncFrame, EngineFrame, OthersFrame, StutterFrame
  <2> QED
    BY <1>2, <2>1
<1>5. CASE EditClass \/ \E limit \in {"ttl", "deleteAfter"} : Age(limit)
  <2>1. spec' = spec
    BY <1>5, Zenon DEF EditClass, Age, Environment
  <2> QED
    BY <2>1
<1> QED
  BY <1>1, <1>2, <1>3, <1>4, <1>5, StepCases DEF User

\* p has the finalizer exactly if o has it.
SameFinalizer(p, o) == p.finalizer = o.finalizer

\* The finalizer and the token of the last retry honoured are those of o.
Untouched(p, o) == SameFinalizer(p, o) /\ p.retryToken = o.retryToken

\* No helper but WithFinalizer touches the finalizer, and none but HonorRetry the
\* token.
LEMMA FinalizerFacts ==
  ASSUME NEW o \in ArtifactStatus, NEW s, NEW seen, NEW policy, NEW m
  PROVE  /\ Untouched(NotReady(o), o) /\ Untouched(MarkStalled(o), o)
         /\ Untouched(Suspended(o), o) /\ Untouched(Conflicting(o), o)
         /\ Untouched(WithKey(o), o) /\ Untouched(WithoutDigest(o), o)
         /\ Untouched(Forget(o), o) /\ Untouched(Absent(o), o)
         /\ Untouched(RecordDrift(o, policy), o) /\ Untouched(Rebaselined(o, seen), o)
         /\ SameFinalizer(HonorRetry(o, s), o)
         /\ HonorRetry(o, s).retryToken \in {o.retryToken, s.retry}
         /\ Untouched(DeletionBlocked(o), o)
         /\ Untouched(Verified(o, seen), o) /\ Untouched(MissingObserved(o), o)
         /\ Untouched(Expired(o), o) /\ Untouched(Degraded(o), o)
         /\ Untouched(Generating(o), o) /\ Untouched(Awaiting(o), o)
         /\ Untouched(Created(o), o) /\ Untouched(Adopted(o), o)
         /\ Untouched(RecordAttemptFailure(o, m), o)
<1> USE DEF Untouched, SameFinalizer, ArtifactStatus
<1>1. /\ Untouched(NotReady(o), o) /\ Untouched(MarkStalled(o), o)
      /\ Untouched(Suspended(o), o) /\ Untouched(Conflicting(o), o)
      /\ Untouched(WithKey(o), o) /\ Untouched(WithoutDigest(o), o)
      /\ Untouched(Forget(o), o) /\ Untouched(Absent(o), o)
      /\ Untouched(DeletionBlocked(o), o) /\ Untouched(Adopted(o), o)
  BY DEF NotReady, MarkStalled, Suspended, Conflicting, WithKey, WithoutDigest, Forget,
         Absent, DeletionBlocked, Adopted
<1>2. Untouched(RecordDrift(o, policy), o) /\ Untouched(Rebaselined(o, seen), o)
  BY DEF RecordDrift, Rebaselined
<1>3. /\ SameFinalizer(HonorRetry(o, s), o)
      /\ HonorRetry(o, s).retryToken \in {o.retryToken, s.retry}
  BY ZenonT(40) DEF ClearFailures, HonorRetry
<1>4. /\ Untouched(Verified(o, seen), o) /\ Untouched(MissingObserved(o), o)
      /\ Untouched(Expired(o), o)
  BY DEF Verified, MissingObserved, Expired, Settled, Forget, ClearFailures
<1>5. /\ Untouched(Degraded(o), o) /\ Untouched(Generating(o), o)
      /\ Untouched(Awaiting(o), o) /\ Untouched(Created(o), o)
  BY DEF Degraded, Generating, Awaiting, Created, NotReady, MarkStalled, MarkReconciling
<1>6. Untouched(RecordAttemptFailure(o, m), o)
  BY DEF RecordAttemptFailure, NotReady, MarkStalled, MarkReconciling, Forget
<1> QED
  BY <1>1, <1>2, <1>3, <1>4, <1>5, <1>6

\* A read step gives up the finalizer in LetGo only, and records no token but the
\* one of the annotation that it read.
LEMMA ReadFinalizer ==
  ASSUME TypeOK, Read, ~ReadGone
  PROVE  /\ \/ SameFinalizer(obj', cStatus)
            \/ obj'.finalizer = TRUE
            \/ LetGo
         /\ obj'.retryToken \in {cStatus.retryToken, cSpec.retry}
<1> DEFINE after == WithKey(AfterCancel)
           retried == HonorRetry(cStatus, cSpec)
<1>0. cStatus \in ArtifactStatus /\ retried \in ArtifactStatus /\ AfterCancel \in ArtifactStatus
  BY RetryFacts, AfterCancelFacts DEF TypeOK
<1>1. /\ SameFinalizer(retried, cStatus) /\ Untouched(Forget(retried), retried)
      /\ retried.retryToken \in {cStatus.retryToken, cSpec.retry}
  BY <1>0, FinalizerFacts
<1>2. AfterCancel \in {retried, Forget(retried)}
  BY DEF AfterCancel
<1>3. /\ after \in ArtifactStatus /\ MarkStalled(AfterCancel) \in ArtifactStatus
      /\ Untouched(after, AfterCancel)
      /\ Untouched(NotReady(AfterCancel), AfterCancel)
      /\ Untouched(MarkStalled(AfterCancel), AfterCancel)
  BY <1>0, MarkFacts, FinalizerFacts
<1> HIDE DEF after, retried
<1>4. /\ Untouched(NotReady(after), after)
      /\ Untouched(NotReady(MarkStalled(AfterCancel)), MarkStalled(AfterCancel))
      /\ Untouched(Suspended(cStatus), cStatus)
  BY <1>0, <1>3, FinalizerFacts
<1>5. ASSUME NEW o \in {cStatus, Suspended(cStatus), retried, AfterCancel, after,
                        NotReady(AfterCancel), NotReady(after),
                        NotReady(MarkStalled(AfterCancel))}
      PROVE  SameFinalizer(o, cStatus) /\ o.retryToken \in {cStatus.retryToken, cSpec.retry}
  BY <1>1, <1>2, <1>3, <1>4 DEF Untouched, SameFinalizer
<1>6. CASE AddFinalizer \/ LetGo
  <2>1. PICK held \in BOOLEAN :
          /\ obj' = WithFinalizer(cStatus, held)
          /\ held \/ LetGo
    BY <1>6, Zenon DEF AddFinalizer, LetGo, Return
  <2> QED
    BY <1>0, <2>1 DEF ArtifactStatus, WithFinalizer
<1>7. CASE ~AddFinalizer /\ ~LetGo
  <2>1. obj' \in {cStatus, Suspended(cStatus), retried, AfterCancel, after,
                  NotReady(AfterCancel), NotReady(after),
                  NotReady(MarkStalled(AfterCancel))}
    BY <1>7, ZenonT(40)
    DEF Read, ReadSuspended, CancelFails, ClassUnreadable, ClassNotFound, KeyTemplateError,
        TTLExpired, TTLDeleteFails, StoreUnavailable, Observed, DeleteUnavailable,
        ObservedDeleting, Return, Dispatch, after, retried
  <2> QED
    BY <1>5, <2>1
<1> QED
  BY <1>6, <1>7

\* A handler gives up the finalizer at the end of reconcileDelete only, and leaves
\* the token alone.
LEMMA ActFinalizer ==
  ASSUME TypeOK, Act
  PROVE  /\ SameFinalizer(obj', obj) \/ ArtifactDeleted
         /\ obj'.retryToken = obj.retryToken
<1> DEFINE p == Absent(obj)
<1>1. /\ obj \in ArtifactStatus /\ p \in ArtifactStatus /\ MarkStalled(p) \in ArtifactStatus
      /\ Forget(p) \in ArtifactStatus
  BY MarkFacts, LedgerFacts DEF TypeOK
<1>2. Untouched(p, obj)
  BY <1>1, FinalizerFacts
<1> HIDE DEF p
<1>3. /\ Untouched(Degraded(p), p) /\ Untouched(Generating(p), p)
      /\ Untouched(Awaiting(p), p) /\ Untouched(NotReady(p), p)
      /\ Untouched(MarkStalled(p), p) /\ Untouched(Forget(p), p)
      /\ Untouched(Created(p), p) /\ Untouched(Adopted(p), p)
      /\ Untouched(Degraded(Forget(p)), Forget(p))
      /\ Untouched(NotReady(MarkStalled(p)), MarkStalled(p))
  BY <1>1, FinalizerFacts
<1>4. Untouched(Failure, p)
  BY <1>1, FinalizerFacts DEF Failure, p
<1>5. CASE KeyConflict \/ DeletionRefused \/ ExpireRefused \/ ArtifactMissingObserved
           \/ DeleteAfterExpired
  <2>1. /\ Untouched(Conflicting(obj), obj) /\ Untouched(DeletionBlocked(obj), obj)
        /\ Untouched(NotReady(obj), obj) /\ Untouched(MissingObserved(obj), obj)
        /\ Untouched(Expired(obj), obj)
    BY <1>1, FinalizerFacts
  <2> QED
    BY <1>5, <2>1
    DEF KeyConflict, DeletionRefused, ExpireRefused, ArtifactMissingObserved,
        DeleteAfterExpired, Finish, Untouched
<1>6. CASE DriftRegenerate \/ DriftReported \/ ArtifactAvailable
  <2>1. PICK d \in ArtifactStatus : /\ Untouched(d, obj)
                                    /\ obj' \in {WithoutDigest(d), Verified(d, obs)}
    <3>1. /\ RecordDrift(obj, klass.drift) \in ArtifactStatus
          /\ Rebaselined(obj, obs) \in ArtifactStatus
      BY <1>1, MarkFacts2, Zenon
    <3>2. /\ Untouched(RecordDrift(obj, klass.drift), obj)
          /\ Untouched(Rebaselined(obj, obs), obj)
      BY <1>1, FinalizerFacts
    <3> QED
      BY <1>6, <3>1, <3>2, Zenon DEF DriftRegenerate, DriftReported, ArtifactAvailable, Finish
  <2>2. Untouched(WithoutDigest(d), d) /\ Untouched(Verified(d, obs), d)
    BY <2>1, FinalizerFacts
  <2> QED
    BY <2>1, <2>2 DEF Untouched, SameFinalizer
<1>7. CASE GeneratorNotConfigured \/ FailureBudgetExhausted \/ RunUnreadable
           \/ RunVanished \/ GeneratorFailed \/ AwaitingArtifact \/ SucceededWithoutArtifact
  BY <1>2, <1>3, <1>4, <1>7
  DEF GeneratorNotConfigured, FailureBudgetExhausted, RunUnreadable, RunVanished,
      GeneratorFailed, AwaitingArtifact, SucceededWithoutArtifact, Finish, Untouched, SameFinalizer, p
<1>8. CASE \/ RunInProgress \/ ProgressDeadlineExceeded \/ BackoffPending \/ RunTemplateError
           \/ CreateRun \/ AdoptRun \/ RunNotOwned \/ CreateFails
  BY <1>2, <1>3, <1>4, <1>8
  DEF RunInProgress, ProgressDeadlineExceeded, BackoffPending, RunTemplateError, CreateRun,
      AdoptRun, RunNotOwned, CreateFails, Finish, Untouched, SameFinalizer, p
<1>9. CASE ArtifactDeleted
  <2>1. obj' = WithFinalizer(obj, FALSE)
    BY <1>9 DEF ArtifactDeleted, Finish
  <2> QED
    BY <1>1, <1>9, <2>1 DEF ArtifactStatus, WithFinalizer
<1> QED
  BY <1>5, <1>6, <1>7, <1>8, <1>9 DEF Act

-----------------------------------------------------------------------------
(***************************************************************************)
(* The object of a deleted Artifact is gone.                               *)
(***************************************************************************)

\* o was put at the key by another writer, and is the controller's to delete.
OthersPut(o) == o.present /\ Ours(o) /\ o.digest <= 0

\* No other writer writes between the observation of reconcileDelete and the
\* patch that releases the Artifact.
NoWriteInWindow == writes' # writes => pc \notin {"reconcileDelete", "patch"}

\* The class is there as long as its Artifacts.
ClassesExist == \A c \in Classes : c.exists

\* The copies agree on whether the object is to be deleted; a reconcile that is
\* about to delete it has seen it, and one that is about to let go of the
\* Artifact has deleted it.
DeletionInv ==
  /\ cSpec.deletionPolicy = spec.deletionPolicy
  /\ spec.deletionPolicy = "Delete" => ~ObserveOnly(spec) /\ ~ObserveOnly(cSpec)
  /\ pc \notin {"idle", "patch"} => SameFinalizer(obj, base)
  /\ pc = "reconcileDelete" /\ OthersPut(store) => obs.present /\ Ours(obs)
  /\ /\ pc = "patch" /\ base.finalizer /\ ~obj.finalizer
     /\ base.key /\ spec.deletionPolicy = "Delete"
     => ~OthersPut(store)

\* Every step keeps DeletionInv.
LEMMA NextDeletion ==
  ASSUME ClassesExist, TypeOK, ClassInv, DeletionInv, [Next]_vars, NoWriteInWindow
  PROVE  DeletionInv'
<1>1. /\ spec'.deletionPolicy = spec.deletionPolicy
      /\ spec.deletionPolicy = "Delete" => spec'.managementPolicy = spec.managementPolicy
  BY PolicyKept
<1>2. /\ cSpec.deletionPolicy = spec.deletionPolicy
      /\ spec.deletionPolicy = "Delete" => ~ObserveOnly(spec) /\ ~ObserveOnly(cSpec)
  BY DEF DeletionInv
<1>3. ASSUME cSpec' = cSpec \/ (cSpec' = spec /\ spec' = spec)
      PROVE  /\ cSpec'.deletionPolicy = spec'.deletionPolicy
             /\ spec'.deletionPolicy = "Delete" => ~ObserveOnly(spec)' /\ ~ObserveOnly(cSpec)'
  BY <1>1, <1>2, <1>3 DEF ObserveOnly
<1>4. CASE Read /\ ~ReadGone
  <2>1. base' = cStatus /\ UNCHANGED <<cSpec, store>>
    BY <1>4, ReadFrame
  <2>2. CASE LetGo
    <3>1. ~OwnsObject
      BY <2>2 DEF LetGo, ClassInv, ClassesExist
    <3>2. pc' = "patch"
      BY <2>2 DEF LetGo, Return
    <3>3. ~(base'.key /\ spec'.deletionPolicy = "Delete")
      BY <1>1, <1>2, <2>1, <3>1 DEF OwnsObject
    <3> QED
      BY <1>3, <2>1, <3>2, <3>3 DEF DeletionInv
  <2>3. CASE ~LetGo
    <3>1. SameFinalizer(obj', base') \/ obj'.finalizer = TRUE
      BY <1>4, <2>1, <2>3, ReadFinalizer
    <3>2. pc' # "patch" => SameFinalizer(obj', base')
      <4>1. pc' # "patch" => cStatus.finalizer
        <5>1. CASE Observed
          BY <5>1 DEF Observed, Keyed, Cancelled, Active
        <5>2. CASE ObservedDeleting
          BY <5>2 DEF ObservedDeleting, ReadDeleting
        <5>3. CASE ~Observed /\ ~ObservedDeleting
          BY <1>4, <5>3, Zenon
          DEF Read, AddFinalizer, ReadSuspended, CancelFails, ClassUnreadable, ClassNotFound,
              KeyTemplateError, TTLExpired, TTLDeleteFails, StoreUnavailable, LetGo,
              DeleteUnavailable, Return
        <5> QED
          BY <5>1, <5>2, <5>3
      <4>2. cStatus.finalizer \in BOOLEAN
        BY DEF TypeOK, ArtifactStatus
      <4> QED
        BY <2>1, <3>1, <4>1, <4>2 DEF SameFinalizer
    <3>3. pc' = "reconcileDelete" => obs' = store
      BY <1>4, ReadObserves
    <3> QED
      BY <1>3, <2>1, <3>1, <3>2, <3>3 DEF DeletionInv, OthersPut, SameFinalizer
  <2> QED
    BY <2>2, <2>3
<1>5. CASE Act
  <2>1. /\ UNCHANGED <<spec, cSpec, base, obs>> /\ pc \notin {"idle", "patch"}
        /\ pc' \in {"patch", "reconcileMissing"}
    BY <1>5, ActFrame DEF DriftRegenerate
  <2>2. SameFinalizer(obj, base)
    BY <2>1 DEF DeletionInv
  <2>3. CASE ArtifactDeleted
    <3>1. pc = "reconcileDelete" /\ pc' = "patch" /\ DeleteObserved
      BY <2>3 DEF ArtifactDeleted, In, Finish
    <3>2. ~OthersPut(store')
      <4>1. CASE obs.present /\ Ours(obs)
        BY <3>1, <4>1 DEF DeleteObserved, OthersPut, NoObject
      <4>2. CASE ~(obs.present /\ Ours(obs))
        BY <3>1, <4>2 DEF DeleteObserved, DeletionInv
      <4> QED
        BY <4>1, <4>2
    <3> QED
      BY <1>3, <2>1, <3>1, <3>2 DEF DeletionInv
  <2>4. CASE ~ArtifactDeleted
    <3>1. SameFinalizer(obj', base')
      BY <1>5, <2>1, <2>2, <2>4, ActFinalizer DEF SameFinalizer
    <3> QED
      BY <1>3, <2>1, <3>1 DEF DeletionInv, SameFinalizer
  <2> QED
    BY <2>3, <2>4
<1>6. CASE Patch \/ PatchNotFound \/ PatchFails \/ Crash
  BY <1>3, <1>6, EndFrame DEF DeletionInv
<1>7. CASE SyncCache \/ Engine \/ User \/ Others \/ UNCHANGED vars \/ ReadGone
  <2>1. UNCHANGED <<pc, obj, base, obs>>
    BY <1>7, SurroundingsFrame
  <2>2. cSpec' = cSpec \/ (cSpec' = spec /\ spec' = spec)
    BY <1>7, SyncFrame, EngineFrame, UserFrame, OthersFrame, StutterFrame
  <2>3. pc \in {"reconcileDelete", "patch"} => store' = store \/ ~OthersPut(store')
    <3>1. CASE Engine
      BY <3>1, EngineFrame DEF OthersPut
    <3>2. CASE ~Engine
      BY <1>7, <3>2, SyncFrame, UserFrame, OthersFrame, StutterFrame DEF NoWriteInWindow
    <3> QED
      BY <3>1, <3>2
  <2> QED
    BY <1>1, <1>3, <2>1, <2>2, <2>3 DEF DeletionInv, SameFinalizer
<1> QED
  BY <1>4, <1>5, <1>6, <1>7, StepCases

\* When an Artifact with deletionPolicy Delete is let go, the object that others
\* had put at its key is gone, for any lag of the cache, any restarts, lost
\* patches and refused deletes, provided that its class still exists and nobody
\* writes between the observation of the object and the release.
THEOREM DeletionIsCarriedOut ==
  ASSUME ClassesExist
  PROVE  Spec /\ [][NoWriteInWindow]_vars => DeletedMeansDeleted
<1>1. Init => DeletionInv
  <2>1. Init => /\ cSpec = spec /\ pc = "idle"
                /\ spec.deletionPolicy = "Delete" => ~ObserveOnly(spec)
    BY InputsAssumption DEF Init, ObserveOnly
  <2> QED
    BY <2>1 DEF DeletionInv
<1>2. TypeOK /\ ClassInv /\ DeletionInv /\ [Next]_vars /\ [NoWriteInWindow]_vars
        => DeletionInv'
  <2>1. [NoWriteInWindow]_vars => NoWriteInWindow
    BY Zenon DEF NoWriteInWindow, vars
  <2> QED
    BY <2>1, NextDeletion
<1>3. TypeOK /\ DeletionInv /\ [Next]_vars =>
        [/\ spec.exists /\ ~spec'.exists
         /\ spec.deletionPolicy = "Delete" /\ status.finalizer /\ base.key
         => ~(store.present /\ Ours(store) /\ store.digest <= 0)]_vars
  <2> SUFFICES ASSUME TypeOK, DeletionInv, [Next]_vars, spec.exists, ~spec'.exists,
                      spec.deletionPolicy = "Delete", status.finalizer, base.key
               PROVE  ~OthersPut(store)
    BY DEF OthersPut
  <2>1. Patch
    BY PolicyKept
  <2>2. pc = "patch" /\ status' \in Merge(obj, base, status) /\ ~status'.finalizer
    BY <2>1 DEF Patch, TypeOK, ArtifactSpec
  <2>3. base.finalizer /\ ~obj.finalizer
    <3>1. status'.finalizer \in Change(obj.finalizer, base.finalizer, status.finalizer)
      BY <2>2 DEF Merge
    <3>2. base.finalizer \in BOOLEAN /\ obj.finalizer \in BOOLEAN
      BY DEF TypeOK, ArtifactStatus
    <3> QED
      BY <2>2, <3>1, <3>2 DEF Change
  <2> QED
    BY <2>2, <2>3 DEF DeletionInv
<1> QED
  BY <1>1, <1>2, <1>3, TypeCorrect, ClassHolds, PTL DEF Spec, DeletedMeansDeleted

-----------------------------------------------------------------------------
(***************************************************************************)
(* An object of another identity is left alone.                            *)
(***************************************************************************)

\* The object carries the stamp of another identity.
Foreign(o) == o.present /\ o.stamp = "foreign"

\* An object of another identity is put at the key only while no reconcile looks
\* at the key and no workload of the Artifact is left that may upload to it.
ForeignComesUnobserved ==
  writes' # writes /\ Foreign(store') =>
    pc \in {"idle", "patch"} /\ \A n \in 1..MaxRuns : ~runs[n].worker

\* As long as the object is another's, every handler knows, and no workload of
\* this Artifact can overwrite it.
ForeignInv ==
  Foreign(store) =>
    /\ \A n \in 1..MaxRuns : ~runs[n].worker
    /\ pc # "reconcileMissing"
    /\ pc \notin {"idle", "patch"} => obs = store

\* A workload is started by a create only.
LEMMA WorkersStart ==
  ASSUME TypeOK, [Next]_vars, NEW n \in 1..MaxRuns, runs'[n].worker, ~runs[n].worker
  PROVE  pc = "reconcileMissing"
<1>1. CASE Read /\ ~ReadGone
  <2>1. runs' \in {runs, DeleteRun(cStatus.generatorRef)}
    BY <1>1, ReadDrops
  <2>2. runs \in [1..MaxRuns -> Run]
    BY DEF TypeOK
  <2>3. runs'[n].worker = runs[n].worker
    BY <2>1, <2>2 DEF Run, DeleteRun
  <2> QED
    BY <2>3
<1>2. CASE Act
  <2>1. runs' = runs \/ pc = "reconcileMissing"
    BY <1>2, ZenonT(40)
        DEF Act, KeyConflict, DriftRegenerate, DriftReported, ArtifactAvailable,
            ArtifactMissingObserved, GeneratorNotConfigured, FailureBudgetExhausted,
            RunUnreadable, RunVanished, GeneratorFailed, AwaitingArtifact,
            SucceededWithoutArtifact, RunInProgress, ProgressDeadlineExceeded,
            BackoffPending, RunTemplateError, CreateRun, AdoptRun, RunNotOwned,
            CreateFails, DeleteAfterExpired, ExpireRefused, ArtifactDeleted,
            DeletionRefused, TryCreate, NoRunInFlight, Evaluate, InBudget, Missing, In
  <2> QED
    BY <2>1
<1>3. CASE Engine
  <2>1. PICK m \in 1..MaxRuns :
          \/ RunSucceeds(m) \/ RunFails(m) \/ Upload(m) \/ StopWorker(m) \/ CollectRun(m)
          \/ DeleteRunByHand(m)
    BY <1>3 DEF Engine
  <2>2. n # m => runs'[n] = runs[n]
    BY <2>1, Zenon
    DEF RunSucceeds, RunFails, Upload, StopWorker, CollectRun, DeleteRunByHand, RunChanges,
        TypeOK
  <2>3. runs'[m].worker \in {runs[m].worker, FALSE}
    <3>1. CASE Upload(m) \/ StopWorker(m)
      BY <3>1 DEF Upload, StopWorker, TypeOK, Run
    <3>2. CASE RunSucceeds(m) \/ RunFails(m) \/ CollectRun(m) \/ DeleteRunByHand(m)
      <4>1. PICK s \in {"succeeded", "failed", "none"}, w \in {runs[m].worker, FALSE} :
              runs' = [runs EXCEPT ![m] = [api |-> s, worker |-> w]]
        BY <3>2, Zenon DEF RunSucceeds, RunFails, CollectRun, DeleteRunByHand, RunChanges
      <4>2. runs'[m] = [api |-> s, worker |-> w]
        BY <4>1 DEF TypeOK
      <4>3. runs'[m].worker = w
        BY <4>2
      <4>4. w \in {runs[m].worker, FALSE}
        OBVIOUS
      <4> QED
        BY <4>3, <4>4, Zenon
    <3> QED
      BY <2>1, <3>1, <3>2
  <2> QED
    BY <2>2, <2>3
<1>4. CASE Patch \/ PatchNotFound \/ PatchFails \/ Crash
  BY <1>4, EndFrame
<1>5. CASE SyncCache \/ User \/ Others \/ UNCHANGED vars \/ ReadGone
  BY <1>5, SyncFrame, UserFrame, OthersFrame, StutterFrame
<1> QED
  BY <1>1, <1>2, <1>3, <1>4, <1>5, StepCases

\* While ForeignInv holds, no step of the controller or of its runs touches an
\* object of another identity.
LEMMA ForeignKept ==
  ASSUME TypeOK, ForeignInv, [Next]_vars, Foreign(store), writes' = writes
  PROVE  store' = store
<1>1. CASE Read /\ ~ReadGone
  BY <1>1, ReadFrame
<1>2. CASE Act
  <2>1. pc \notin {"idle", "patch"}
    BY <1>2, ActFrame
  <2>2. ~Ours(obs)
    BY <2>1 DEF ForeignInv, Foreign, Ours
  <2> QED
    BY <1>2, <2>2, ZenonT(40)
        DEF Act, KeyConflict, DriftRegenerate, DriftReported, ArtifactAvailable,
            ArtifactMissingObserved, GeneratorNotConfigured, FailureBudgetExhausted,
            RunUnreadable, RunVanished, GeneratorFailed, AwaitingArtifact,
            SucceededWithoutArtifact, RunInProgress, ProgressDeadlineExceeded,
            BackoffPending, RunTemplateError, CreateRun, AdoptRun, RunNotOwned,
            CreateFails, DeleteAfterExpired, ExpireRefused, ArtifactDeleted,
            DeletionRefused, TryCreate, NoRunInFlight, Evaluate, InBudget, Missing,
            DeleteObserved, DeleteRefused
<1>3. CASE Patch \/ PatchNotFound \/ PatchFails \/ Crash
  BY <1>3, EndFrame
<1>4. CASE SyncCache \/ User \/ UNCHANGED vars \/ ReadGone
  BY <1>4, SyncFrame, UserFrame, StutterFrame
<1>5. CASE Engine
  BY <1>5, EngineFrame DEF ForeignInv
<1>6. CASE Others
  BY <1>6, OthersFrame
<1> QED
  BY <1>1, <1>2, <1>3, <1>4, <1>5, <1>6, StepCases

\* Only other writers put an object of another identity at the key.
LEMMA ForeignComes ==
  ASSUME TypeOK, [Next]_vars, Foreign(store'), store' # store
  PROVE  Others
<1>1. CASE (Read /\ ~ReadGone) \/ Patch \/ PatchNotFound \/ PatchFails \/ Crash \/ SyncCache
           \/ User \/ UNCHANGED vars \/ ReadGone
  BY <1>1, ReadFrame, EndFrame, SyncFrame, UserFrame, StutterFrame
<1>2. CASE Act
  <2>1. store' \in {store, NoObject}
    BY <1>2, ZenonT(40)
        DEF Act, KeyConflict, DriftRegenerate, DriftReported, ArtifactAvailable,
            ArtifactMissingObserved, GeneratorNotConfigured, FailureBudgetExhausted,
            RunUnreadable, RunVanished, GeneratorFailed, AwaitingArtifact,
            SucceededWithoutArtifact, RunInProgress, ProgressDeadlineExceeded,
            BackoffPending, RunTemplateError, CreateRun, AdoptRun, RunNotOwned,
            CreateFails, DeleteAfterExpired, ExpireRefused, ArtifactDeleted,
            DeletionRefused, TryCreate, NoRunInFlight, Evaluate, InBudget, Missing,
            DeleteObserved, DeleteRefused
  <2> QED
    BY <2>1 DEF Foreign, NoObject
<1>3. CASE Engine
  BY <1>3, EngineFrame DEF Foreign
<1> QED
  BY <1>1, <1>2, <1>3, StepCases

\* Every step keeps ForeignInv.
LEMMA NextForeign ==
  ASSUME TypeOK, ForeignInv, [Next]_vars, ForeignComesUnobserved
  PROVE  ForeignInv'
<1> SUFFICES ASSUME Foreign(store')
             PROVE  /\ \A n \in 1..MaxRuns : ~runs'[n].worker
                    /\ pc' # "reconcileMissing"
                    /\ pc' \notin {"idle", "patch"} => obs' = store'
  BY DEF ForeignInv, Foreign
<1>1. CASE Others
  <2>1. pc \in {"idle", "patch"} /\ \A n \in 1..MaxRuns : ~runs[n].worker
    BY <1>1, OthersFrame DEF ForeignComesUnobserved
  <2>2. UNCHANGED <<pc, runs>>
    BY <1>1, OthersFrame
  <2> QED
    BY <2>1, <2>2
<1>2. CASE ~Others
  <2>1. store' = store
    BY <1>2, ForeignComes
  <2>2. /\ \A n \in 1..MaxRuns : ~runs[n].worker
        /\ pc # "reconcileMissing"
        /\ pc \notin {"idle", "patch"} => obs = store
    BY <2>1 DEF ForeignInv
  <2>3. \A n \in 1..MaxRuns : ~runs'[n].worker
    BY <2>2, WorkersStart
  <2>4. CASE Read /\ ~ReadGone
    BY <2>1, <2>3, <2>4, ReadObserves DEF Foreign
  <2>5. CASE Act
    <3>1. ~DriftRegenerate
      BY <2>1, <2>2, <2>5, ActFrame DEF DriftRegenerate, Ours, Foreign
    <3> QED
      BY <2>3, <2>5, <3>1, ActFrame
  <2>6. CASE Patch \/ PatchNotFound \/ PatchFails \/ Crash
    BY <2>3, <2>6, EndFrame
  <2>7. CASE SyncCache \/ Engine \/ User \/ UNCHANGED vars \/ ReadGone
    BY <2>1, <2>2, <2>3, <2>7, SurroundingsFrame
  <2> QED
    BY <1>2, <2>4, <2>5, <2>6, <2>7, StepCases
<1> QED
  BY <1>1, <1>2

\* An object of another identity is neither deleted by the controller nor
\* overwritten by a run of its, for every policy, lag, fault and user, provided
\* that it does not appear between an observation of the key and what follows
\* from it.
THEOREM ForeignLeftAlone ==
  Spec /\ [][ForeignComesUnobserved]_vars => ForeignIsLeftAlone
<1>1. Init => ForeignInv
  <2> SUFFICES ASSUME Init
               PROVE  ForeignInv
    OBVIOUS
  <2>1. ASSUME NEW n \in 1..MaxRuns
        PROVE  ~runs[n].worker
    <3>1. runs[n] \in {NoRun, [NoRun EXCEPT !.api = "alien"]}
      BY Zenon DEF Init
    <3>2. ~NoRun.worker /\ ~[NoRun EXCEPT !.api = "alien"].worker
      BY DEF NoRun
    <3> QED
      BY <3>1, <3>2
  <2>2. pc = "idle"
    BY DEF Init
  <2> QED
    BY <2>1, <2>2 DEF ForeignInv
<1>2. TypeOK /\ ForeignInv /\ [Next]_vars /\ [ForeignComesUnobserved]_vars => ForeignInv'
  <2>1. [ForeignComesUnobserved]_vars => ForeignComesUnobserved
    BY Zenon DEF ForeignComesUnobserved, vars
  <2> QED
    BY <2>1, NextForeign
<1>3. TypeOK /\ ForeignInv /\ [Next]_vars =>
        [store.present /\ store.stamp = "foreign" /\ writes' = writes => store' = store]_vars
  BY ForeignKept DEF Foreign
<1> QED
  BY <1>1, <1>2, <1>3, TypeCorrect, PTL DEF Spec, ForeignIsLeftAlone
=============================================================================
