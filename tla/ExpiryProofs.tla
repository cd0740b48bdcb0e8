----------------------------- MODULE ExpiryProofs -----------------------------
(***************************************************************************)
(* An Artifact that has expired is never generated again: ExpiryInv is an  *)
(* invariant, and ExpiredStartsNothing follows from it.                    *)
(***************************************************************************)
EXTENDS ArtifactReconcilerProofs

\* p says Expired only if o does.
Unexpired(p, o) == p.state = "Expired" => o.state = "Expired"

\* Whether deleteAfter applies is settled by fields of the spec that nobody
\* changes, and time does not go back.
LEMMA SpecKept ==
  ASSUME TypeOK, [Next]_vars
  PROVE  /\ spec'.deleteAfter = spec.deleteAfter /\ due \subseteq due'
         /\ spec.deleteAfter => spec'.managementPolicy = spec.managementPolicy
<1>1. CASE Read /\ ~TTLExpired
  <2>1. spec' = spec /\ due' = due
    BY <1>1, ZenonT(40)
        DEF Read, ReadGone, AddFinalizer, ReadSuspended, CancelFails, ClassUnreadable,
            ClassNotFound, KeyTemplateError, TTLDeleteFails, StoreUnavailable, Observed,
            LetGo, DeleteUnavailable, ObservedDeleting, ReadDeleting, Keyed, Cancelled,
            Active, Dequeue
  <2> QED
    BY <2>1
<1>2. CASE TTLExpired \/ UserDelete
  <2>1. DeleteArtifact /\ due' = due
    BY <1>2, Zenon DEF TTLExpired, UserDelete, Keyed, Cancelled, Active, Dequeue, Environment
  <2> QED
    BY <2>1 DEF TypeOK, ArtifactSpec, DeleteArtifact
<1>3. CASE Act
  <2>1. spec' = spec /\ due' = due
    BY <1>3, ZenonT(40)
        DEF Act, KeyConflict, DriftRegenerate, DriftReported, ArtifactAvailable,
            ArtifactMissingObserved, GeneratorNotConfigured, FailureBudgetExhausted,
            RunUnreadable, RunVanished, GeneratorFailed, AwaitingArtifact,
            SucceededWithoutArtifact, RunInProgress, ProgressDeadlineExceeded,
            BackoffPending, RunTemplateError, CreateRun, AdoptRun, RunNotOwned,
            CreateFails, DeleteAfterExpired, ExpireRefused, ArtifactDeleted,
            DeletionRefused, TryCreate, NoRunInFlight, Evaluate, InBudget, Missing, In
  <2> QED
    BY <2>1
<1>4. CASE Patch
  <2>1. spec' = [spec EXCEPT !.exists = ~spec.deleting \/ status'.finalizer] /\ due' = due
    BY <1>4 DEF Patch
  <2> QED
    BY <2>1 DEF TypeOK, ArtifactSpec
<1>5. CASE PatchNotFound \/ PatchFails \/ Crash \/ SyncCache \/ Engine \/ EditClass \/ Others
           \/ UNCHANGED vars
  <2>1. spec' = spec /\ due' = due
    BY <1>5, ZenonT(40)
        DEF PatchNotFound, PatchFails, Crash, SyncCache, Engine, RunSucceeds, RunFails,
            Upload, StopWorker, CollectRun, DeleteRunByHand, RunChanges, EditClass, Others,
            Write, Environment, vars
  <2> QED
    BY <2>1
<1>6. CASE FlipPolicy \/ ToggleSuspend \/ AnnotateRetry
  BY <1>6, SMTT(30)
  DEF TypeOK, ArtifactSpec, FlipPolicy, ToggleSuspend, AnnotateRetry, Edits, Environment
<1>7. ASSUME NEW limit \in {"ttl", "deleteAfter"}, Age(limit)
      PROVE  spec' = spec /\ due \subseteq due'
  BY <1>7, SMTT(30) DEF Age, Environment
<1> QED
  BY <1>1, <1>2, <1>3, <1>4, <1>5, <1>6, <1>7, SMTT(30) DEF Next, Reconcile, User

\* Of the helpers, only Expired says Expired.
LEMMA StateFacts ==
  ASSUME NEW o \in ArtifactStatus, NEW held, NEW policy, NEW seen, NEW m, NEW s
  PROVE  /\ Unexpired(NotReady(o), o) /\ Unexpired(MarkStalled(o), o)
         /\ Unexpired(WithKey(o), o) /\ Unexpired(WithoutDigest(o), o)
         /\ Unexpired(WithFinalizer(o, held), o) /\ Unexpired(Forget(o), o)
         /\ Unexpired(Absent(o), o) /\ Unexpired(RecordDrift(o, policy), o)
         /\ Unexpired(HonorRetry(o, s), o) /\ Unexpired(Adopted(o), o)
         /\ Suspended(o).state # "Expired" /\ Conflicting(o).state # "Expired"
         /\ Verified(o, seen).state # "Expired" /\ MissingObserved(o).state # "Expired"
         /\ Degraded(o).state # "Expired" /\ Generating(o).state # "Expired"
         /\ Awaiting(o).state # "Expired" /\ Created(o).state # "Expired"
         /\ RecordAttemptFailure(o, m).state # "Expired"
         /\ DeletionBlocked(o).state # "Expired"
<1>1. /\ Unexpired(NotReady(o), o) /\ Unexpired(MarkStalled(o), o)
      /\ Unexpired(WithKey(o), o) /\ Unexpired(WithoutDigest(o), o)
      /\ Unexpired(WithFinalizer(o, held), o) /\ Unexpired(Forget(o), o)
      /\ Unexpired(Absent(o), o) /\ Unexpired(RecordDrift(o, policy), o)
      /\ Unexpired(Adopted(o), o)
  BY SMTT(30) DEF ArtifactStatus, Unexpired, NotReady, MarkStalled, WithKey, WithoutDigest,
                  WithFinalizer, Forget, Absent, RecordDrift, Adopted
<1>2. Unexpired(HonorRetry(o, s), o)
  BY ZenonT(40) DEF ArtifactStatus, Unexpired, ClearFailures, HonorRetry
<1>3. /\ Suspended(o).state # "Expired" /\ Conflicting(o).state # "Expired"
      /\ DeletionBlocked(o).state # "Expired"
  BY SMTT(30) DEF ArtifactStatus, Suspended, Conflicting, DeletionBlocked
<1>4. Verified(o, seen).state # "Expired" /\ MissingObserved(o).state # "Expired"
  BY SMTT(30) DEF ArtifactStatus, ClearFailures, Forget, Settled, Verified, MissingObserved
<1>5. /\ Degraded(o).state # "Expired" /\ Generating(o).state # "Expired"
      /\ Awaiting(o).state # "Expired" /\ Created(o).state # "Expired"
  BY SMTT(30) DEF ArtifactStatus, NotReady, MarkStalled, MarkReconciling, Degraded,
                  Generating, Awaiting, Created
<1>6. RecordAttemptFailure(o, m).state # "Expired"
  BY SMTT(30) DEF ArtifactStatus, NotReady, MarkStalled, MarkReconciling, Forget,
                  RecordAttemptFailure
<1> QED
  BY <1>1, <1>2, <1>3, <1>4, <1>5, <1>6

\* A read step leaves a copy that says Expired only if the cached one does, and
\* hands it to reconcileExpired exactly if deleteAfter has passed.
LEMMA ReadExpiry ==
  ASSUME TypeOK, Read, ~ReadGone
  PROVE  /\ Unexpired(obj', cStatus) /\ UNCHANGED <<cSpec, cStatus, status, due>>
         /\ pc' = "reconcileExpired" => Expires
         /\ pc' \in {"reconcileExisting", "reconcileMissing", "reconcileMissingObserved"}
              => ~Expires
<1> DEFINE after == WithKey(AfterCancel)
<1>1. /\ AfterCancel \in ArtifactStatus /\ after \in ArtifactStatus
      /\ MarkStalled(AfterCancel) \in ArtifactStatus
  BY AfterCancelFacts, MarkFacts
<1>2. Unexpired(AfterCancel, cStatus)
  <2>1. HonorRetry(cStatus, cSpec) \in ArtifactStatus
    BY RetryFacts DEF TypeOK
  <2> QED
    BY <2>1, StateFacts, SMTT(30) DEF TypeOK, AfterCancel, Unexpired
<1>3. /\ Unexpired(after, cStatus) /\ Unexpired(NotReady(AfterCancel), cStatus)
      /\ Unexpired(NotReady(MarkStalled(AfterCancel)), cStatus)
      /\ Unexpired(NotReady(after), cStatus)
  <2> HIDE DEF after
  <2>1. Unexpired(after, AfterCancel)
    BY <1>1, StateFacts DEF after
  <2>2. /\ Unexpired(NotReady(AfterCancel), AfterCancel) /\ Unexpired(NotReady(after), after)
        /\ Unexpired(MarkStalled(AfterCancel), AfterCancel)
        /\ Unexpired(NotReady(MarkStalled(AfterCancel)), MarkStalled(AfterCancel))
    BY <1>1, StateFacts
  <2> QED
    BY <1>2, <2>1, <2>2 DEF Unexpired
<1>4. /\ Unexpired(HonorRetry(cStatus, cSpec), cStatus) /\ Unexpired(cStatus, cStatus)
      /\ Unexpired(Suspended(cStatus), cStatus)
      /\ \A held : Unexpired(WithFinalizer(cStatus, held), cStatus)
  BY StateFacts DEF TypeOK, Unexpired
<1> HIDE DEF after
<1>5. Dequeue
  BY ZenonT(40)
      DEF Read, AddFinalizer, ReadSuspended, CancelFails, ClassUnreadable, ClassNotFound,
          KeyTemplateError, TTLExpired, TTLDeleteFails, StoreUnavailable, Observed, LetGo,
          DeleteUnavailable, ObservedDeleting, ReadDeleting, Keyed, Cancelled, Active
<1>6. \/ \E o, r : Return(o, r) /\ Unexpired(o, cStatus)
      \/ \E h : Dispatch(h, after) /\ (h = "reconcileExpired" <=> Expires)
      \/ Dispatch("reconcileDelete", cStatus)
  <2>1. CASE Observed
    <3>1. PICK h : Dispatch(h, after) /\ (h = "reconcileExpired" <=> Expires)
      BY <2>1, SMTT(30) DEF Observed, after
    <3> QED
      BY <3>1
  <2>2. CASE ~Observed
    BY <1>2, <1>3, <1>4, <2>2, ZenonT(60)
        DEF Read, AddFinalizer, ReadSuspended, CancelFails, ClassUnreadable, ClassNotFound,
            KeyTemplateError, TTLExpired, TTLDeleteFails, StoreUnavailable, LetGo,
            DeleteUnavailable, ObservedDeleting, after
  <2> QED
    BY <2>1, <2>2
<1> QED
  BY <1>3, <1>4, <1>5, <1>6, SMTT(30) DEF Dequeue, Return, Dispatch

\* A handler says Expired only in reconcileExpired, or if its copy did.
LEMMA ActExpiry ==
  ASSUME TypeOK, Act
  PROVE  /\ pc = "reconcileExpired" \/ Unexpired(obj', obj)
         /\ UNCHANGED <<cSpec, cStatus, status>>
         /\ \/ pc' = "patch"
            \/ pc = "reconcileExisting" /\ pc' = "reconcileMissing"
<1> DEFINE o == Absent(obj)
<1>1. o \in ArtifactStatus /\ Unexpired(o, obj) /\ obj \in ArtifactStatus
  BY MarkFacts, StateFacts DEF TypeOK
<1> HIDE DEF o
<1>2. /\ \A m : RecordAttemptFailure(o, m).state # "Expired"
      /\ Degraded(o).state # "Expired" /\ Generating(o).state # "Expired"
      /\ Awaiting(o).state # "Expired" /\ Created(o).state # "Expired"
      /\ Unexpired(NotReady(o), o) /\ Unexpired(Forget(o), o) /\ Unexpired(Adopted(o), o)
  BY <1>1, StateFacts
<1>3. Degraded(Forget(o)).state # "Expired"
  BY <1>1, LedgerFacts, StateFacts
<1>4. Unexpired(NotReady(MarkStalled(o)), o)
  <2>1. MarkStalled(o) \in ArtifactStatus /\ Unexpired(MarkStalled(o), o)
    BY <1>1, MarkFacts, StateFacts
  <2> QED
    BY <2>1, StateFacts DEF Unexpired
<1>5. /\ \A policy : /\ RecordDrift(obj, policy) \in ArtifactStatus
                     /\ Unexpired(RecordDrift(obj, policy), obj)
      /\ \A seen : Rebaselined(obj, seen) \in ArtifactStatus
  BY <1>1, MarkFacts2, StateFacts, Zenon
<1>6. /\ \A policy : Unexpired(WithoutDigest(RecordDrift(obj, policy)), obj)
      /\ \A policy, seen : Verified(RecordDrift(obj, policy), seen).state # "Expired"
      /\ \A seen : Verified(Rebaselined(obj, seen), seen).state # "Expired"
  BY <1>5, StateFacts, Zenon DEF Unexpired
<1>7. /\ Conflicting(obj).state # "Expired" /\ MissingObserved(obj).state # "Expired"
      /\ DeletionBlocked(obj).state # "Expired"
      /\ \A held : Unexpired(WithFinalizer(obj, held), obj)
  BY <1>1, StateFacts
<1>8. UNCHANGED <<cSpec, cStatus, status>>
  BY ZenonT(40)
      DEF Act, KeyConflict, DriftRegenerate, DriftReported, ArtifactAvailable,
          ArtifactMissingObserved, GeneratorNotConfigured, FailureBudgetExhausted,
          RunUnreadable, RunVanished, GeneratorFailed, AwaitingArtifact,
          SucceededWithoutArtifact, RunInProgress, ProgressDeadlineExceeded,
          BackoffPending, RunTemplateError, CreateRun, AdoptRun, RunNotOwned,
          CreateFails, DeleteAfterExpired, ExpireRefused, ArtifactDeleted,
          DeletionRefused, TryCreate, NoRunInFlight, Evaluate, InBudget, Missing, In
<1>9. CASE DeleteAfterExpired \/ ExpireRefused
  BY <1>8, <1>9 DEF DeleteAfterExpired, ExpireRefused, In, Finish
<1>10. CASE DriftRegenerate
  BY <1>6, <1>8, <1>10 DEF DriftRegenerate, In
<1>11. CASE KeyConflict \/ DriftReported \/ ArtifactAvailable \/ ArtifactMissingObserved
            \/ ArtifactDeleted \/ DeletionRefused
  BY <1>6, <1>7, <1>8, <1>11, Zenon
  DEF KeyConflict, DriftReported, ArtifactAvailable, ArtifactMissingObserved,
      ArtifactDeleted, DeletionRefused, Finish, Unexpired
<1>12. CASE GeneratorNotConfigured \/ FailureBudgetExhausted \/ RunUnreadable
  BY <1>1, <1>2, <1>3, <1>8, <1>12
  DEF GeneratorNotConfigured, FailureBudgetExhausted, RunUnreadable, Finish, Unexpired, o
<1>13. CASE \/ RunVanished \/ GeneratorFailed \/ AwaitingArtifact \/ SucceededWithoutArtifact
            \/ RunInProgress \/ ProgressDeadlineExceeded
  BY <1>1, <1>2, <1>8, <1>13
  DEF RunVanished, GeneratorFailed, AwaitingArtifact, SucceededWithoutArtifact,
      RunInProgress, ProgressDeadlineExceeded, Failure, Finish, Unexpired, o
<1>14. CASE BackoffPending \/ RunTemplateError \/ CreateRun \/ AdoptRun \/ RunNotOwned
            \/ CreateFails
  BY <1>1, <1>2, <1>4, <1>8, <1>14
  DEF BackoffPending, RunTemplateError, CreateRun, AdoptRun, RunNotOwned, CreateFails,
      Finish, Unexpired, o
<1> QED
  BY <1>9, <1>10, <1>11, <1>12, <1>13, <1>14 DEF Act

\* Every step keeps ExpiryInv.
LEMMA NextExpiry ==
  ASSUME TypeOK, ExpiryInv, [Next]_vars
  PROVE  ExpiryInv'
<1>0. NewStatus.state # "Expired"
  BY Zenon DEF NewStatus
<1>1. /\ spec'.deleteAfter = spec.deleteAfter /\ due \subseteq due'
      /\ spec.deleteAfter => spec'.managementPolicy = spec.managementPolicy
  BY SpecKept
<1>2. DeleteAfterReached => DeleteAfterReached'
  BY <1>1 DEF DeleteAfterReached, ObserveOnly
<1>3. /\ cSpec.deleteAfter = spec.deleteAfter
      /\ spec.deleteAfter => cSpec.managementPolicy = spec.managementPolicy
      /\ "Expired" \in {status.state, cStatus.state, obj.state} => DeleteAfterReached
      /\ pc = "reconcileExpired" => DeleteAfterReached
      /\ pc \in {"reconcileExisting", "reconcileMissing", "reconcileMissingObserved"}
           => status.state # "Expired"
  BY DEF ExpiryInv
<1>4. CASE Read /\ ~ReadGone
  <2>1. Expires <=> DeleteAfterReached
    BY <1>3 DEF Expires, DeleteAfterReached, ObserveOnly
  <2> QED
    BY <1>1, <1>2, <1>3, <1>4, <2>1, ReadExpiry, SMTT(30) DEF ExpiryInv, Unexpired
<1>5. CASE Act
  BY <1>1, <1>2, <1>3, <1>5, ActExpiry, SMTT(30) DEF ExpiryInv, Unexpired
<1>6. CASE Patch
  <2>1. status'.state \in {obj.state, status.state}
    <3>1. status' \in Merge(obj, base, status)
      BY <1>6 DEF Patch
    <3> QED
      BY <3>1, SMTT(30) DEF Merge, Change
  <2>2. obj'.state # "Expired" /\ pc' = "idle" /\ cSpec' = cSpec /\ cStatus' = cStatus
    BY <1>0, <1>6, SMTT(30) DEF Patch, Idle
  <2> QED
    BY <1>1, <1>2, <1>3, <2>1, <2>2, SMTT(30) DEF ExpiryInv
<1>7. CASE PatchNotFound \/ PatchFails \/ Crash
  <2>1. obj'.state # "Expired" /\ pc' = "idle" /\ status' = status
    BY <1>0, <1>7, SMTT(30) DEF PatchNotFound, PatchFails, Crash, Idle
  <2>2. \/ cSpec' = cSpec /\ cStatus' = cStatus
        \/ cSpec' = spec /\ cStatus' = status /\ spec' = spec
    BY <1>7 DEF PatchNotFound, PatchFails, Crash
  <2> QED
    BY <1>1, <1>2, <1>3, <2>1, <2>2, SMTT(30) DEF ExpiryInv
<1>8. CASE SyncCache
  <2>1. /\ cSpec' = spec /\ cStatus' = status /\ spec' = spec /\ status' = status
        /\ pc' = pc /\ obj' = obj
    BY <1>8, SMTT(30) DEF SyncCache, memory
  <2> QED
    BY <1>1, <1>2, <1>3, <2>1, SMTT(30) DEF ExpiryInv
<1>9. CASE ReadGone \/ Engine \/ User \/ Others \/ UNCHANGED vars
  <2>1. cSpec' = cSpec /\ cStatus' = cStatus /\ status' = status /\ pc' = pc /\ obj' = obj
    <3>1. CASE ReadGone \/ UNCHANGED vars
      BY <3>1, Zenon DEF ReadGone, Environment, memory, vars
    <3>2. CASE Engine
      BY <3>2, ZenonT(40)
      DEF Engine, RunSucceeds, RunFails, Upload, StopWorker, CollectRun, DeleteRunByHand,
          RunChanges, Environment, memory
    <3>3. CASE User
      BY <3>3, ZenonT(40)
      DEF User, FlipPolicy, ToggleSuspend, AnnotateRetry, UserDelete, EditClass, Age, Edits,
          Environment, memory
    <3>4. CASE Others
      BY <3>4, Zenon DEF Others, Write, Environment, memory
    <3> QED
      BY <1>9, <3>1, <3>2, <3>3, <3>4
  <2> QED
    BY <1>1, <1>2, <1>3, <2>1, SMTT(30) DEF ExpiryInv
<1> QED
  BY <1>4, <1>5, <1>6, <1>7, <1>8, <1>9 DEF Next, Reconcile

\* No copy of the status, however stale, says Expired too early, and no reconcile
\* that could start a run goes on past the expiry.
THEOREM ExpiryHolds == Spec => []ExpiryInv
<1>1. Init => ExpiryInv
  <2>1. NewStatus.state # "Expired"
    BY Zenon DEF NewStatus
  <2> QED
    BY <2>1, SMTT(30) DEF Init, ExpiryInv
<1>2. TypeOK /\ ExpiryInv /\ [Next]_vars => ExpiryInv'
  BY NextExpiry
<1> QED
  BY <1>1, <1>2, TypeCorrect, PTL DEF Spec

\* An Artifact that is Expired gets no generator run, whatever lags or is lost.
THEOREM ExpiredStaysExpired == Spec => ExpiredStartsNothing
<1>1. TypeOK /\ ExpiryInv /\ [Next]_vars =>
        [\A n \in 1..MaxRuns : Creates(n) => status.state # "Expired"]_vars
  <2> SUFFICES ASSUME TypeOK, ExpiryInv, [Next]_vars, NEW n \in 1..MaxRuns, Creates(n)
               PROVE  status.state # "Expired"
    OBVIOUS
  <2>1. CreateRun \/ CreateFails
    BY OnlyCreateCreates
  <2>2. pc = "reconcileMissing"
    BY <2>1, Zenon DEF CreateRun, CreateFails, TryCreate, NoRunInFlight, InBudget, Missing, In
  <2> QED
    BY <2>2 DEF ExpiryInv
<1> QED
  BY <1>1, TypeCorrect, ExpiryHolds, PTL DEF Spec, ExpiredStartsNothing
=============================================================================
