----------------------------- MODULE FlightProofs -----------------------------
(***************************************************************************)
(* At most one run of an Artifact is in flight, and the reference to a     *)
(* running run is not dropped: DropInv and FlightInv are invariants, and   *)
(* RunningRunIsNotForgotten and SingleFlight follow from them.             *)
(***************************************************************************)
EXTENDS ExpiryProofs

-----------------------------------------------------------------------------
(***************************************************************************)
(* What the steps leave alone, and what they observe.                      *)
(***************************************************************************)

\* A read step takes its copies from the cache, the class and the store, and
\* changes nothing but the spec, by the DELETE of an Artifact that is past its
\* ttl, and the run that it cancels.
LEMMA ReadFrame ==
  ASSUME Read, ~ReadGone
  PROVE  /\ base' = cStatus /\ oSpec' = cSpec
         /\ UNCHANGED <<status, cSpec, cStatus, class, store, due, writes>>
         /\ spec' = spec \/ DeleteArtifact
         /\ pc = "idle" /\ pc' # "idle"
<1>1. Dequeue
  BY ZenonT(40)
      DEF Read, AddFinalizer, ReadSuspended, CancelFails, ClassUnreadable, ClassNotFound,
          KeyTemplateError, TTLExpired, TTLDeleteFails, StoreUnavailable, Observed, LetGo,
          DeleteUnavailable, ObservedDeleting, ReadDeleting, Keyed, Cancelled, Active
<1>2. spec' = spec \/ DeleteArtifact
  BY ZenonT(40)
      DEF Read, AddFinalizer, ReadSuspended, CancelFails, ClassUnreadable, ClassNotFound,
          KeyTemplateError, TTLExpired, TTLDeleteFails, StoreUnavailable, Observed, LetGo,
          DeleteUnavailable, ObservedDeleting, ReadDeleting
<1>3. pc' # "idle"
  <2>1. CASE Observed
    BY <2>1 DEF Observed, Dispatch
  <2>2. CASE ~Observed
    BY <2>2, ZenonT(40)
        DEF Read, AddFinalizer, ReadSuspended, CancelFails, ClassUnreadable, ClassNotFound,
            KeyTemplateError, TTLExpired, TTLDeleteFails, StoreUnavailable, LetGo,
            DeleteUnavailable, ObservedDeleting, Return, Dispatch
  <2> QED
    BY <2>1, <2>2
<1> QED
  BY <1>1, <1>2, <1>3, Zenon DEF Dequeue

\* What a read step has observed when it hands over to a handler.
LEMMA ReadObserves ==
  ASSUME Read, ~ReadGone
  PROVE  /\ \/ pc' = "patch" /\ klass' = NoClass /\ obs' = NoObject
            \/ pc' # "patch" /\ klass' = class /\ obs' = store /\ class.exists
         /\ pc' = "reconcileExisting" => store.present /\ ~cSpec.deleting
         /\ pc' = "reconcileMissing" => ~store.present /\ ~cSpec.deleting /\ ~Expires
         /\ pc' = "reconcileDelete" => cSpec.deleting /\ OwnsObject
<1>1. CASE Observed
  BY <1>1 DEF Observed, Keyed, Cancelled, Active, Dispatch
<1>2. CASE ObservedDeleting
  BY <1>2 DEF ObservedDeleting, ReadDeleting, Dispatch
<1>3. CASE ~Observed /\ ~ObservedDeleting
  <2>1. \E o, r : Return(o, r)
    BY <1>3, ZenonT(40)
        DEF Read, AddFinalizer, ReadSuspended, CancelFails, ClassUnreadable, ClassNotFound,
            KeyTemplateError, TTLExpired, TTLDeleteFails, StoreUnavailable, LetGo,
            DeleteUnavailable
  <2> QED
    BY <2>1 DEF Return
<1> QED
  BY <1>1, <1>2, <1>3

\* The handlers work on the copies alone.
LEMMA ActFrame ==
  ASSUME Act
  PROVE  /\ UNCHANGED <<spec, status, cSpec, cStatus, class, due, base, oSpec, klass, obs,
                        writes>>
         /\ pc \notin {"idle", "patch"}
         /\ pc' = "patch" \/ DriftRegenerate
<1>1. UNCHANGED <<spec, status, cSpec, cStatus, class, due, base, oSpec, klass, obs, writes>>
  BY ZenonT(40)
      DEF Act, KeyConflict, DriftRegenerate, DriftReported, ArtifactAvailable,
          ArtifactMissingObserved, GeneratorNotConfigured, FailureBudgetExhausted,
          RunUnreadable, RunVanished, GeneratorFailed, AwaitingArtifact,
          SucceededWithoutArtifact, RunInProgress, ProgressDeadlineExceeded,
          BackoffPending, RunTemplateError, CreateRun, AdoptRun, RunNotOwned,
          CreateFails, DeleteAfterExpired, ExpireRefused, ArtifactDeleted,
          DeletionRefused, TryCreate, NoRunInFlight, Evaluate, InBudget, Missing, In
<1>2. pc \notin {"idle", "patch"}
  BY ZenonT(40)
      DEF Act, KeyConflict, DriftRegenerate, DriftReported, ArtifactAvailable,
          ArtifactMissingObserved, GeneratorNotConfigured, FailureBudgetExhausted,
          RunUnreadable, RunVanished, GeneratorFailed, AwaitingArtifact,
          SucceededWithoutArtifact, RunInProgress, ProgressDeadlineExceeded,
          BackoffPending, RunTemplateError, CreateRun, AdoptRun, RunNotOwned,
          CreateFails, DeleteAfterExpired, ExpireRefused, ArtifactDeleted,
          DeletionRefused, TryCreate, NoRunInFlight, Evaluate, InBudget, Missing, In
<1>3. pc' = "patch" \/ DriftRegenerate
  BY ZenonT(40)
      DEF Act, KeyConflict, DriftReported, ArtifactAvailable,
          ArtifactMissingObserved, GeneratorNotConfigured, FailureBudgetExhausted,
          RunUnreadable, RunVanished, GeneratorFailed, AwaitingArtifact,
          SucceededWithoutArtifact, RunInProgress, ProgressDeadlineExceeded,
          BackoffPending, RunTemplateError, CreateRun, AdoptRun, RunNotOwned,
          CreateFails, DeleteAfterExpired, ExpireRefused, ArtifactDeleted,
          DeletionRefused, Finish
<1> QED
  BY <1>1, <1>2, <1>3

\* The generator engine touches the runs, and the store by an upload.
LEMMA EngineFrame ==
  ASSUME Engine
  PROVE  /\ UNCHANGED <<spec, status, cSpec, cStatus, class, due, pc, obj, base, oSpec,
                        klass, obs, again, writes>>
         /\ \/ store' = store
            \/ \E n \in 1..MaxRuns :
                 /\ runs[n].worker
                 /\ store' = [present |-> TRUE, digest |-> n, stamp |-> "ours"]
<1>1. UNCHANGED <<spec, status, cSpec, cStatus, class, due, pc, obj, base, oSpec, klass, obs,
                  again, writes>>
  BY ZenonT(40)
  DEF Engine, RunSucceeds, RunFails, Upload, StopWorker, CollectRun, DeleteRunByHand,
      RunChanges, Environment, memory
<1>2. \/ store' = store
      \/ \E n \in 1..MaxRuns :
           /\ runs[n].worker
           /\ store' = [present |-> TRUE, digest |-> n, stamp |-> "ours"]
  BY ZenonT(40)
  DEF Engine, RunSucceeds, RunFails, Upload, StopWorker, CollectRun, DeleteRunByHand,
      RunChanges, Environment
<1> QED
  BY <1>1, <1>2

\* Users, and time, touch the spec, the class and the age limits.
LEMMA UserFrame ==
  ASSUME User
  PROVE  /\ UNCHANGED <<status, cSpec, cStatus, runs, store, pc, obj, base, oSpec, klass,
                        obs, again, writes>>
         /\ class' = class \/ class' \in Classes
<1>1. UNCHANGED <<status, cSpec, cStatus, runs, store, pc, obj, base, oSpec, klass, obs,
                  again, writes>>
  BY ZenonT(40)
  DEF User, FlipPolicy, ToggleSuspend, AnnotateRetry, UserDelete, EditClass, Age, Edits,
      Environment, memory
<1>2. class' = class \/ class' \in Classes
  BY ZenonT(40)
  DEF User, FlipPolicy, ToggleSuspend, AnnotateRetry, UserDelete, EditClass, Age, Edits,
      Environment
<1> QED
  BY <1>1, <1>2

\* Other writers touch the store only, and are counted.
LEMMA OthersFrame ==
  ASSUME TypeOK, Others
  PROVE  /\ UNCHANGED <<spec, status, cSpec, cStatus, class, runs, due, pc, obj, base, oSpec,
                        klass, obs, again>>
         /\ writes' # writes /\ store' \in Objects \cup {NoObject}
<1>1. PICK o \in Objects \cup {NoObject} : Write(o)
  BY DEF Others
<1>2. UNCHANGED <<spec, status, cSpec, cStatus, class, runs, due, pc, obj, base, oSpec, klass,
                  obs, again>>
  BY <1>1, Zenon DEF Write, Environment, memory
<1>3. writes' = writes + 1 /\ store' = o /\ writes \in Nat
  BY <1>1, BoundsAssumption DEF Write, TypeOK
<1> QED
  BY <1>2, <1>3

\* The reconcile ends, with or without its patch, or the process restarts: only
\* the patch writes, and only a restart touches the cache.
LEMMA EndFrame ==
  ASSUME Patch \/ PatchNotFound \/ PatchFails \/ Crash
  PROVE  /\ UNCHANGED <<class, runs, store, due, writes>>
         /\ pc' = "idle" /\ obs' = NoObject /\ klass' = NoClass
         /\ obj' = NewStatus /\ base' = NewStatus /\ oSpec' = NoSpec
         /\ ~Patch => spec' = spec /\ status' = status
         /\ \/ cSpec' = cSpec /\ cStatus' = cStatus
            \/ cSpec' = spec /\ cStatus' = status /\ spec' = spec /\ status' = status
<1>1. UNCHANGED <<class, runs, store, due, writes>>
  BY Zenon DEF Patch, PatchNotFound, PatchFails, Crash, bounds
<1>2. Idle
  BY Zenon DEF Patch, PatchNotFound, PatchFails, Crash
<1>3. /\ ~Patch => spec' = spec /\ status' = status
      /\ \/ cSpec' = cSpec /\ cStatus' = cStatus
         \/ cSpec' = spec /\ cStatus' = status /\ spec' = spec /\ status' = status
  BY Zenon DEF Patch, PatchNotFound, PatchFails, Crash
<1> QED
  BY <1>1, <1>2, <1>3 DEF Idle

\* The watch event touches the cache only.
LEMMA SyncFrame ==
  ASSUME SyncCache
  PROVE  /\ cSpec' = spec /\ cStatus' = status
         /\ UNCHANGED <<spec, status, class, runs, store, due, pc, obj, base, oSpec, klass,
                        obs, again, writes>>
BY Zenon DEF SyncCache, memory, bounds

\* Nothing at all happens.
LEMMA StutterFrame ==
  ASSUME UNCHANGED vars \/ ReadGone
  PROVE  UNCHANGED <<spec, status, cSpec, cStatus, class, runs, store, due, pc, obj, base,
                     oSpec, klass, obs, again, writes>>
BY Zenon DEF vars, ReadGone, memory, bounds

\* The steps of the loop and of its surroundings.
LEMMA StepCases ==
  ASSUME [Next]_vars
  PROVE  \/ Read /\ ~ReadGone
         \/ Act
         \/ Patch \/ PatchNotFound \/ PatchFails \/ Crash
         \/ SyncCache
         \/ Engine
         \/ User
         \/ Others
         \/ UNCHANGED vars \/ ReadGone
BY DEF Next, Reconcile

-----------------------------------------------------------------------------
(***************************************************************************)
(* What is true of the copies for every value of the constants.            *)
(***************************************************************************)

\* The class is one of its versions, and so is the reconcile's copy of it.
ClassInv == class \in Classes /\ klass \in Classes \cup {NoClass}

\* Every step keeps ClassInv.
LEMMA NextClass ==
  ASSUME TypeOK, ClassInv, [Next]_vars
  PROVE  ClassInv'
<1>1. CASE Read /\ ~ReadGone
  BY <1>1, ReadFrame, ReadObserves DEF ClassInv
<1>2. CASE Act
  BY <1>2, ActFrame DEF ClassInv
<1>3. CASE Patch \/ PatchNotFound \/ PatchFails \/ Crash
  BY <1>3, EndFrame DEF ClassInv
<1>4. CASE SyncCache \/ Engine \/ Others \/ UNCHANGED vars \/ ReadGone
  <2>1. class' = class /\ klass' = klass
    BY <1>4, SyncFrame, EngineFrame, OthersFrame, StutterFrame
  <2> QED
    BY <2>1 DEF ClassInv
<1>5. CASE User
  BY <1>5, UserFrame DEF ClassInv
<1> QED
  BY <1>1, <1>2, <1>3, <1>4, <1>5, StepCases

\* The reconcile decides on a version of the class that existed.
THEOREM ClassHolds == Spec => []ClassInv
<1>1. Init => ClassInv
  BY DEF Init, ClassInv
<1>2. TypeOK /\ ClassInv /\ [Next]_vars => ClassInv'
  BY NextClass
<1> QED
  BY <1>1, <1>2, TypeCorrect, PTL DEF Spec

\* A deletion is not taken back, and the cache does not run ahead of it.
LEMMA DeletingStays ==
  ASSUME TypeOK, [Next]_vars, cSpec.deleting => spec.deleting
  PROVE  /\ spec.deleting => spec'.deleting
         /\ cSpec.deleting => cSpec'.deleting
         /\ cSpec'.deleting => spec'.deleting
<1>1. /\ spec.deleting => spec'.deleting
      /\ cSpec' = cSpec \/ (cSpec' = spec /\ spec' = spec)
  <2>1. CASE Read /\ ~ReadGone
    <3>1. cSpec' = cSpec /\ (spec' = spec \/ DeleteArtifact)
      BY <2>1, ReadFrame
    <3> QED
      BY <3>1 DEF DeleteArtifact, TypeOK, ArtifactSpec
  <2>2. CASE Act
    BY <2>2, ActFrame
  <2>3. CASE Patch \/ PatchNotFound \/ PatchFails \/ Crash
    <3>1. CASE Patch
      BY <3>1 DEF Patch, TypeOK, ArtifactSpec
    <3> QED
      BY <2>3, <3>1, EndFrame
  <2>4. CASE SyncCache \/ Engine \/ Others \/ UNCHANGED vars \/ ReadGone
    BY <2>4, SyncFrame, EngineFrame, OthersFrame, StutterFrame
  <2>5. CASE User
    <3>1. cSpec' = cSpec
      BY <2>5, UserFrame
    <3>2. CASE UserDelete
      BY <3>1, <3>2 DEF UserDelete, DeleteArtifact, TypeOK, ArtifactSpec
    <3>3. CASE FlipPolicy \/ ToggleSuspend \/ AnnotateRetry
      BY <3>1, <3>3
      DEF FlipPolicy, ToggleSuspend, AnnotateRetry, Edits, TypeOK, ArtifactSpec
    <3>4. CASE EditClass \/ \E limit \in {"ttl", "deleteAfter"} : Age(limit)
      BY <3>1, <3>4, Zenon DEF EditClass, Age, Environment
    <3> QED
      BY <2>5, <3>2, <3>3, <3>4 DEF User
  <2> QED
    BY <2>1, <2>2, <2>3, <2>4, <2>5, StepCases
<1> QED
  BY <1>1
-----------------------------------------------------------------------------
(***************************************************************************)
(* The reference to the run in flight.                                     *)
(***************************************************************************)

\* o keeps the attempt and the run in flight of p.
SameRun(o, p) == o.attempts = p.attempts /\ o.generatorRef = p.generatorRef

\* The helpers of reconcileMissing that keep the attempt and the run in flight,
\* and those that drop the run.
LEMMA AbsentFacts ==
  ASSUME NEW o \in ArtifactStatus, NEW m \in Int
  PROVE  LET p == Absent(o)
         IN  /\ p \in ArtifactStatus /\ SameRun(p, o)
             /\ SameRun(Degraded(p), o) /\ SameRun(Generating(p), o)
             /\ SameRun(Awaiting(p), o) /\ SameRun(NotReady(p), o)
             /\ SameRun(NotReady(MarkStalled(p)), o)
             /\ Forget(p).attempts = o.attempts /\ Forget(p).generatorRef = 0
             /\ Degraded(Forget(p)).attempts = o.attempts
             /\ Degraded(Forget(p)).generatorRef = 0
             /\ RecordAttemptFailure(p, m).attempts = o.attempts
             /\ RecordAttemptFailure(p, m).generatorRef = 0
             /\ Created(p).attempts = o.attempts + 1 /\ Adopted(p).attempts = o.attempts + 1
             /\ Created(p).generatorRef = o.attempts + 1
             /\ Adopted(p).generatorRef = o.attempts + 1
<1> DEFINE p == Absent(o)
<1>1. p \in ArtifactStatus /\ SameLedger(p, o)
  BY MarkFacts
<1> HIDE DEF p
<1>2. /\ SameLedger(Degraded(p), p) /\ SameLedger(Generating(p), p)
      /\ SameLedger(Awaiting(p), p) /\ SameLedger(NotReady(p), p)
      /\ Forget(p) \in ArtifactStatus /\ Forgets(Forget(p), p)
      /\ MarkStalled(p) \in ArtifactStatus /\ SameLedger(MarkStalled(p), p)
  BY <1>1, MarkFacts, LedgerFacts
<1>3. /\ SameLedger(NotReady(MarkStalled(p)), MarkStalled(p))
      /\ SameLedger(Degraded(Forget(p)), Forget(p))
  BY <1>2, MarkFacts, LedgerFacts
<1>4. /\ RecordAttemptFailure(p, m).attempts = p.attempts
      /\ RecordAttemptFailure(p, m).generatorRef = 0
      /\ Created(p).attempts = p.attempts + 1 /\ Adopted(p).attempts = p.attempts + 1
      /\ Created(p).generatorRef = p.attempts + 1 /\ Adopted(p).generatorRef = p.attempts + 1
  BY <1>1, AttemptFacts
<1> QED
  BY <1>1, <1>2, <1>3, <1>4 DEF SameLedger, Forgets, SameRun, p

\* What a handler does to the attempt and the run in flight of its copy: it keeps
\* them, starts the next attempt, or drops the run, because the artifact is
\* there, because the Artifact has expired, or because the run does not run.
LEMMA ActCases ==
  ASSUME TypeOK, Act
  PROVE  \/ SameRun(obj', obj)
         \/ /\ CreateRun \/ AdoptRun
            /\ obj'.attempts = NextRun /\ obj'.generatorRef = NextRun
         \/ /\ obj'.attempts = obj.attempts /\ obj'.generatorRef = 0
            /\ \/ pc = "reconcileExisting" /\ obj'.state = "Ready"
               \/ obj'.state = "Expired"
               \/ /\ pc = "reconcileMissing"
                  /\ \/ runs' = DeleteRun(obj.generatorRef)
                     \/ /\ runs' = runs
                        /\ runs[obj.generatorRef].api \in {"none", "failed", "succeeded"}
                     \/ Fault("deadline")
<1>0. obj \in ArtifactStatus /\ klass.maxAttempts \in Int /\ obs \in Object
  BY DEF TypeOK, ArtifactClass
<1> DEFINE p == Absent(obj)
<1>1. /\ SameRun(p, obj) /\ SameRun(Degraded(p), obj) /\ SameRun(Generating(p), obj)
      /\ SameRun(Awaiting(p), obj) /\ SameRun(NotReady(p), obj)
      /\ SameRun(NotReady(MarkStalled(p)), obj)
  BY <1>0, AbsentFacts
<1>2. /\ Forget(p).attempts = obj.attempts /\ Forget(p).generatorRef = 0
      /\ Degraded(Forget(p)).attempts = obj.attempts /\ Degraded(Forget(p)).generatorRef = 0
      /\ Failure.attempts = obj.attempts /\ Failure.generatorRef = 0
  BY <1>0, AbsentFacts DEF Failure
<1>3. /\ Created(p).attempts = NextRun /\ Adopted(p).attempts = NextRun
      /\ Created(p).generatorRef = NextRun /\ Adopted(p).generatorRef = NextRun
  BY <1>0, AbsentFacts DEF NextRun
<1>4. CASE KeyConflict \/ DeletionRefused \/ ExpireRefused \/ ArtifactMissingObserved
           \/ ArtifactDeleted
  <2>1. /\ SameLedger(Conflicting(obj), obj) /\ SameLedger(DeletionBlocked(obj), obj)
        /\ SameLedger(NotReady(obj), obj) /\ SameRun(MissingObserved(obj), obj)
        /\ SameLedger(WithFinalizer(obj, FALSE), obj)
    BY <1>0, MarkFacts, MarkFacts2, LedgerFacts, Zenon DEF SameRun
  <2> QED
    BY <1>4, <2>1
    DEF KeyConflict, DeletionRefused, ExpireRefused, ArtifactMissingObserved, ArtifactDeleted,
        Finish, SameRun, SameLedger
<1>5. CASE DriftRegenerate
  <2>1. LET d == RecordDrift(obj, klass.drift) IN d \in ArtifactStatus /\ SameLedger(d, obj)
    BY <1>0, MarkFacts2, Zenon
  <2>2. obj' = WithoutDigest(RecordDrift(obj, klass.drift))
    BY <1>5 DEF DriftRegenerate
  <2> QED
    BY <2>1, <2>2, MarkFacts DEF SameRun, SameLedger
<1>6. CASE DriftReported \/ ArtifactAvailable
  <2>1. PICK d \in ArtifactStatus : SameLedger(d, obj) /\ obj' = Verified(d, obs)
    BY <1>0, <1>6, MarkFacts2, Zenon DEF DriftReported, ArtifactAvailable, Finish
  <2>2. obj'.attempts = obj.attempts /\ obj'.generatorRef = 0
    BY <1>0, <2>1, VerifiedFacts DEF SameLedger
  <2>3. obj'.state = "Ready"
    BY <2>1, Zenon DEF ArtifactStatus, Verified, Settled, Forget, ClearFailures
  <2> QED
    BY <1>6, <2>2, <2>3 DEF DriftReported, ArtifactAvailable, In
<1>7. CASE DeleteAfterExpired
  <2>1. Forgets(Expired(obj), obj) /\ obj' = Expired(obj)
    BY <1>0, <1>7, LedgerFacts DEF DeleteAfterExpired, Finish
  <2>2. Expired(obj).state = "Expired"
    BY <1>0, Zenon DEF ArtifactStatus, Expired, Settled, Forget
  <2> QED
    BY <2>1, <2>2 DEF Forgets
<1> HIDE DEF p
<1>8. CASE FailureBudgetExhausted \/ RunUnreadable \/ AwaitingArtifact \/ RunInProgress
           \/ BackoffPending \/ RunTemplateError \/ RunNotOwned \/ CreateFails
  BY <1>1, <1>8
  DEF FailureBudgetExhausted, RunUnreadable, AwaitingArtifact, RunInProgress,
      BackoffPending, RunTemplateError, RunNotOwned, CreateFails, Finish, p
<1>9. CASE GeneratorNotConfigured
  BY <1>1, <1>2, <1>9 DEF GeneratorNotConfigured, Missing, In, Finish, p
<1>10. CASE RunVanished \/ GeneratorFailed \/ SucceededWithoutArtifact
            \/ ProgressDeadlineExceeded
  BY <1>2, <1>10
  DEF RunVanished, GeneratorFailed, SucceededWithoutArtifact, ProgressDeadlineExceeded,
      Evaluate, InBudget, Missing, In, Finish, p
<1>11. CASE CreateRun \/ AdoptRun
  BY <1>3, <1>11 DEF CreateRun, AdoptRun, Finish, p
<1> QED
  BY <1>4, <1>5, <1>6, <1>7, <1>8, <1>9, <1>10, <1>11 DEF Act

\* A read step drops the run in flight only after its cancellation.
LEMMA ReadDrops ==
  ASSUME TypeOK, Read, ~ReadGone
  PROVE  /\ runs' \in {runs, DeleteRun(cStatus.generatorRef)}
         /\ obj'.attempts = cStatus.attempts
         /\ \/ obj'.generatorRef = cStatus.generatorRef
            \/ obj'.generatorRef = 0 /\ runs' = DeleteRun(cStatus.generatorRef)
<1> DEFINE after == WithKey(AfterCancel)
           retried == HonorRetry(cStatus, cSpec)
<1>0. cStatus \in ArtifactStatus /\ cSpec \in ArtifactSpec
  BY DEF TypeOK
<1>1. /\ AfterCancel \in ArtifactStatus /\ after \in ArtifactStatus /\ SameRun(after, AfterCancel)
      /\ SameRun(NotReady(AfterCancel), AfterCancel)
      /\ SameLedger(MarkStalled(AfterCancel), AfterCancel)
      /\ MarkStalled(AfterCancel) \in ArtifactStatus
  BY AfterCancelFacts, MarkFacts DEF SameRun, SameLedger
<1>2. retried \in ArtifactStatus /\ SameRun(retried, cStatus)
  BY <1>0, RetryFacts DEF SameRun
<1>3. /\ AfterCancel.attempts = cStatus.attempts
      /\ AfterCancel.generatorRef = IF MustCancel THEN 0 ELSE cStatus.generatorRef
  <2>1. AfterCancel = IF MustCancel THEN Forget(retried) ELSE retried
    BY DEF AfterCancel
  <2>2. Forgets(Forget(retried), retried)
    BY <1>2, LedgerFacts
  <2> HIDE DEF retried
  <2> QED
    BY <1>2, <2>1, <2>2 DEF SameRun, Forgets
<1> HIDE DEF after
<1>4. /\ SameRun(NotReady(after), AfterCancel)
      /\ SameRun(NotReady(MarkStalled(AfterCancel)), AfterCancel)
  BY <1>1, MarkFacts DEF SameRun, SameLedger
<1>5. CASE Cancelled /\ ~CancelFails
  <2>1. SameRun(obj', AfterCancel)
    <3>1. CASE ClassUnreadable \/ ClassNotFound \/ KeyTemplateError \/ StoreUnavailable
      BY <1>1, <1>4, <3>1
      DEF ClassUnreadable, ClassNotFound, KeyTemplateError, StoreUnavailable, Return, SameRun,
          after
    <3>2. CASE TTLExpired \/ TTLDeleteFails \/ Observed
      BY <1>1, <3>2 DEF TTLExpired, TTLDeleteFails, Observed, Return, Dispatch, after
    <3>3. CASE LetGo \/ DeleteUnavailable \/ ObservedDeleting \/ AddFinalizer
      BY <1>5, <3>3
      DEF LetGo, DeleteUnavailable, ObservedDeleting, AddFinalizer, ReadDeleting, Cancelled,
          Active
    <3>4. CASE ReadSuspended
      BY <1>5, <3>4 DEF ReadSuspended, Cancelled
    <3> QED
      BY <1>5, <3>1, <3>2, <3>3, <3>4 DEF Read
  <2> QED
    BY <1>3, <1>5, <2>1 DEF Cancelled, SameRun
<1>6. CASE ~Cancelled \/ CancelFails
  <2>1. SameRun(Suspended(cStatus), cStatus)
    BY <1>0, MarkFacts DEF SameRun, SameLedger
  <2>2. /\ SameRun(WithFinalizer(cStatus, TRUE), cStatus)
        /\ SameRun(WithFinalizer(cStatus, FALSE), cStatus)
    BY <1>0, MarkFacts2, Zenon DEF SameRun, SameLedger
  <2>3. runs' = runs /\ SameRun(obj', cStatus)
    <3>1. CASE CancelFails
      BY <1>2, <3>1 DEF CancelFails, Return
    <3>2. CASE AddFinalizer \/ ReadSuspended \/ LetGo \/ DeleteUnavailable \/ ObservedDeleting
      BY <2>1, <2>2, <3>2, Zenon
      DEF AddFinalizer, ReadSuspended, LetGo, DeleteUnavailable, ObservedDeleting,
          ReadDeleting, Return, Dispatch, SameRun
    <3>3. CASE \/ ClassUnreadable \/ ClassNotFound \/ KeyTemplateError \/ TTLExpired
               \/ TTLDeleteFails \/ StoreUnavailable \/ Observed
      <4>1. Cancelled
        BY <3>3, Zenon
        DEF ClassUnreadable, ClassNotFound, KeyTemplateError, TTLExpired, TTLDeleteFails,
            StoreUnavailable, Observed, Keyed
      <4> QED
        BY <1>6, <3>1, <4>1
    <3> QED
      BY <3>1, <3>2, <3>3 DEF Read
  <2> QED
    BY <2>3 DEF SameRun
<1> QED
  BY <1>5, <1>6

\* A run is set running by a create only, from a copy without a run in flight and
\* under the next name.
LEMMA CreateFacts ==
  ASSUME TypeOK, [Next]_vars, NEW n \in 1..MaxRuns,
         runs'[n].api = "running", runs[n].api # "running"
  PROVE  /\ n = NextRun /\ runs[n].api = "none"
         /\ pc = "reconcileMissing" /\ obj.generatorRef = 0
<1>1. CreateRun \/ CreateFails
  BY OnlyCreateStarts
<1>2. /\ pc = "reconcileMissing" /\ obj.generatorRef = 0 /\ runs[NextRun].api = "none"
      /\ \/ runs' = runs
         \/ runs' = [runs EXCEPT ![NextRun] = [api |-> "running", worker |-> TRUE]]
  BY <1>1, Zenon DEF CreateRun, CreateFails, TryCreate, NoRunInFlight, InBudget, Missing, In
<1>3. n = NextRun
  BY <1>2, ZenonT(40) DEF TypeOK
<1> QED
  BY <1>2, <1>3

\* The loop's surroundings leave a reconcile alone and set no run running.
LEMMA SurroundingsFrame ==
  ASSUME TypeOK, SyncCache \/ Engine \/ User \/ Others \/ UNCHANGED vars \/ ReadGone
  PROVE  /\ UNCHANGED <<status, pc, obj, base, oSpec, klass, obs>>
         /\ \A n \in 1..MaxRuns : runs'[n].api = "running" => runs[n].api = "running"
<1>1. UNCHANGED <<status, pc, obj, base, oSpec, klass, obs>>
  BY SyncFrame, EngineFrame, UserFrame, OthersFrame, StutterFrame
<1>2. [Next]_vars
  BY DEF Next, Reconcile, Read
<1>3. ~CreateRun /\ ~CreateFails
  <2>1. CreateRun \/ CreateFails => pc = "reconcileMissing" /\ pc' = "patch"
    BY Zenon DEF CreateRun, CreateFails, TryCreate, NoRunInFlight, InBudget, Missing, In,
                 Finish
  <2> QED
    BY <1>1, <2>1
<1> QED
  BY <1>1, <1>2, <1>3, OnlyCreateStarts

\* A deleted run does not run.
LEMMA DeletedIsGone ==
  ASSUME TypeOK, NEW n \in 1..MaxRuns, runs' = DeleteRun(n)
  PROVE  runs'[n].api = "none"
BY Zenon DEF TypeOK, Run, DeleteRun

\* Every step keeps DropInv, if deletes of stalled runs do not fail: the error is
\* only logged, and the reference goes all the same.
LEMMA NextDrop ==
  ASSUME "deadline" \notin Faults, TypeOK, Ledger, DropInv, [Next]_vars
  PROVE  DropInv'
<1>1. \A n \in 1..MaxRuns : runs'[n].api = "running" =>
        \/ runs[n].api = "running"
        \/ pc = "reconcileMissing" /\ obj.generatorRef = 0
  BY CreateFacts
<1>2. CASE Read /\ ~ReadGone
  <2>1. base' = cStatus /\ (pc' = "reconcileExisting" => obs'.present)
    BY <1>2, ReadFrame, ReadObserves
  <2>2. ASSUME NEW n \in 1..MaxRuns, n = cStatus.generatorRef, obj'.generatorRef = 0
        PROVE  runs'[n].api # "running"
    <3>1. runs' = DeleteRun(n)
      BY <1>2, <2>2, ReadDrops
    <3> QED
      BY <3>1, DeletedIsGone
  <2> QED
    BY <2>1, <2>2 DEF DropInv
<1>3. CASE Act
  <2>1. /\ UNCHANGED <<base, obs>> /\ pc \notin {"idle", "patch"}
        /\ pc' \in {"patch", "reconcileMissing"}
    BY <1>3, ActFrame DEF DriftRegenerate
  <2>2. Kept(obj, base) /\ (pc = "reconcileMissing" => obj.generatorRef = base.generatorRef)
    BY <2>1 DEF Ledger
  <2>3. ASSUME NEW n \in 1..MaxRuns, n = base.generatorRef, obj'.generatorRef = 0,
               ~(obj'.state = "Ready" /\ obs'.present), obj'.state # "Expired"
        PROVE  runs'[n].api # "running"
    <3>1. CASE obj.generatorRef = 0
      <4>1. runs[n].api # "running" /\ pc # "reconcileMissing"
        BY <2>1, <2>2, <2>3, <3>1 DEF DropInv
      <4> QED
        BY <1>1, <4>1
    <3>2. CASE obj.generatorRef # 0
      <4>1. n = obj.generatorRef
        BY <2>2, <2>3, <3>2 DEF Kept
      <4>2. \/ runs' = DeleteRun(n)
            \/ runs' = runs /\ runs[n].api # "running"
        <5>1. ~Fault("deadline")
          BY DEF Fault
        <5>2. obj'.generatorRef # obj.generatorRef /\ NextRun # 0
          <6>1. obj.attempts \in Nat
            BY DEF TypeOK, ArtifactStatus
          <6> QED
            BY <2>3, <3>2, <6>1 DEF NextRun
        <5>3. ~(pc = "reconcileExisting" /\ obj'.state = "Ready")
          BY <2>1, <2>3 DEF DropInv
        <5> QED
          BY <1>3, <2>3, <4>1, <5>1, <5>2, <5>3, ActCases DEF SameRun
      <4> QED
        BY <4>2, DeletedIsGone
    <3> QED
      BY <3>1, <3>2
  <2>4. CASE pc' = "patch"
    BY <2>1, <2>3, <2>4 DEF DropInv
  <2>5. CASE pc' = "reconcileMissing"
    <3>1. DriftRegenerate
      BY <1>3, <2>5, ActFrame
    <3>2. runs' = runs /\ obj'.generatorRef = obj.generatorRef
      <4>1. /\ obj'.generatorRef = WithoutDigest(RecordDrift(obj, klass.drift)).generatorRef
            /\ runs' = runs
        BY <3>1 DEF DriftRegenerate
      <4>2. obj \in ArtifactStatus
        BY DEF TypeOK
      <4>3. LET d == RecordDrift(obj, klass.drift) IN d \in ArtifactStatus /\ SameLedger(d, obj)
        BY <4>2, MarkFacts2, Zenon
      <4> QED
        BY <4>1, <4>3, MarkFacts DEF SameLedger
    <3> QED
      BY <2>1, <2>5, <3>2 DEF DropInv
  <2> QED
    BY <2>1, <2>4, <2>5
<1>4. CASE Patch \/ PatchNotFound \/ PatchFails \/ Crash
  BY <1>4, EndFrame DEF DropInv
<1>5. CASE SyncCache \/ Engine \/ User \/ Others \/ UNCHANGED vars \/ ReadGone
  BY <1>5, SurroundingsFrame DEF DropInv
<1> QED
  BY <1>2, <1>3, <1>4, <1>5, StepCases

\* A copy drops the reference to a run only once the run no longer runs.
THEOREM DropHolds ==
  ASSUME "deadline" \notin Faults
  PROVE  Spec => []DropInv
<1>1. Init => DropInv
  BY DEF Init, DropInv
<1>2. TypeOK /\ Ledger /\ DropInv /\ [Next]_vars => DropInv'
  BY NextDrop
<1> QED
  BY <1>1, <1>2, TypeCorrect, LedgerHolds, PTL DEF Spec

\* The reference to a running run goes only when the artifact was seen or the
\* Artifact expired, as long as deletes of stalled runs do not fail: for any lag
\* of the cache, any restarts and lost patches, and any writers of the store.
THEOREM RunsAreNotForgotten ==
  ASSUME "deadline" \notin Faults
  PROVE  Spec => RunningRunIsNotForgotten
<1>1. TypeOK /\ Ledger /\ DropInv /\ [Next]_vars =>
        [\A n \in 1..MaxRuns :
           /\ status.generatorRef = n /\ status'.generatorRef = 0
           /\ ~(obj.state = "Ready" /\ obs.present) /\ obj.state # "Expired"
           => runs[n].api # "running"]_vars
  <2> SUFFICES ASSUME TypeOK, Ledger, DropInv, [Next]_vars, NEW n \in 1..MaxRuns,
                      status.generatorRef = n, status'.generatorRef = 0,
                      ~(obj.state = "Ready" /\ obs.present), obj.state # "Expired"
               PROVE  runs[n].api # "running"
    OBVIOUS
  <2>1. Patch
    BY OnlyPatchWrites
  <2>2. pc = "patch" /\ status' \in Merge(obj, base, status)
    BY <2>1 DEF Patch
  <2>3. obj.generatorRef = 0 /\ base.generatorRef # 0
    <3>1. obj.generatorRef # base.generatorRef /\ obj.generatorRef = 0
      BY <2>2, MergeFacts DEF TypeOK
    <3> QED
      BY <3>1
  <2>4. base.generatorRef = n
    BY <2>2, <2>3 DEF Ledger, Follows
  <2> QED
    BY <2>2, <2>3, <2>4 DEF DropInv
<1> QED
  BY <1>1, TypeCorrect, LedgerHolds, DropHolds, PTL DEF Spec, RunningRunIsNotForgotten
-----------------------------------------------------------------------------
(***************************************************************************)
(* One run in flight.                                                      *)
(***************************************************************************)

\* Other writers replace the object, and do not remove it.
KeepsObject == writes' # writes => store'.present

\* Drift is reported or ignored, and the artifact is not rebuilt.
NoRegeneration == \A c \in Classes : c.drift # "Regenerate"

\* The object goes only by reconcileExpired, reconcileDelete and other writers.
LEMMA StoreKept ==
  ASSUME TypeOK, [Next]_vars, store.present, ~store'.present
  PROVE  pc \in {"reconcileExpired", "reconcileDelete"} \/ writes' # writes
<1>1. CASE Read /\ ~ReadGone
  BY <1>1, ReadFrame
<1>2. CASE Act
  BY <1>2, ZenonT(40)
      DEF Act, KeyConflict, DriftRegenerate, DriftReported, ArtifactAvailable,
          ArtifactMissingObserved, GeneratorNotConfigured, FailureBudgetExhausted,
          RunUnreadable, RunVanished, GeneratorFailed, AwaitingArtifact,
          SucceededWithoutArtifact, RunInProgress, ProgressDeadlineExceeded,
          BackoffPending, RunTemplateError, CreateRun, AdoptRun, RunNotOwned,
          CreateFails, DeleteAfterExpired, ExpireRefused, ArtifactDeleted,
          DeletionRefused, TryCreate, NoRunInFlight, Evaluate, InBudget, Missing, In
<1>3. CASE Patch \/ PatchNotFound \/ PatchFails \/ Crash
  BY <1>3, EndFrame
<1>4. CASE SyncCache \/ User \/ UNCHANGED vars \/ ReadGone
  BY <1>4, SyncFrame, UserFrame, StutterFrame
<1>5. CASE Engine
  BY <1>5, EngineFrame
<1>6. CASE Others
  BY <1>6, OthersFrame
<1> QED
  BY <1>1, <1>2, <1>3, <1>4, <1>5, <1>6, StepCases

\* What releases the runs is not taken back.
LEMMA ReleasedStays ==
  ASSUME TypeOK, ExpiryInv, FlightInv, [Next]_vars, KeepsObject, Released
  PROVE  Released'
<1>1. DeleteAfterReached => DeleteAfterReached'
  BY SpecKept DEF DeleteAfterReached, ObserveOnly
<1>2. cSpec.deleting => cSpec'.deleting
  BY DeletingStays DEF FlightInv
<1>3. CASE store.present /\ ~store'.present
  <2>1. pc \in {"reconcileExpired", "reconcileDelete"}
    BY <1>3, StoreKept DEF KeepsObject
  <2>2. DeleteAfterReached \/ cSpec.deleting
    BY <2>1 DEF ExpiryInv, FlightInv
  <2> QED
    BY <1>1, <1>2, <2>2 DEF Released
<1> QED
  BY <1>1, <1>2, <1>3 DEF Released

\* A reconcile that is about to create a run finds no run in flight but, perhaps,
\* the one of the name that it will use; and that run is claimed.
LEMMA CreateFindsNone ==
  ASSUME TypeOK, Ledger, FlightInv, pc = "reconcileMissing", obj.generatorRef = 0
  PROVE  /\ Claimed(NextRun)
         /\ \A n \in 1..MaxRuns : runs[n].api = "running" => n = NextRun
<1>1. /\ obj.attempts = base.attempts /\ base.generatorRef = 0
      /\ Follows(status, base)
  BY DEF Ledger, Kept
<1>2. \A n \in 1..MaxRuns : runs[n].api = "running" => Claimed(n)
  BY DEF FlightInv
<1>3. status.attempts \in Nat /\ status.generatorRef \in Nat /\ base.attempts \in Nat
  BY DEF TypeOK, ArtifactStatus
<1>4. /\ status.generatorRef = 0 => status.attempts + 1 = NextRun
      /\ status.generatorRef # 0 => status.generatorRef = NextRun
  BY <1>1, <1>3 DEF Follows, NextRun
<1> QED
  BY <1>2, <1>4 DEF Claimed

\* The patch leaves every running run claimed, or released.
LEMMA PatchFlight ==
  ASSUME TypeOK, Ledger, ExpiryInv, FlightInv, Patch, Released => Released',
         NEW n \in 1..MaxRuns, runs[n].api = "running"
  PROVE  Claimed(n)' \/ (n = status'.attempts /\ Released')
<1>1. /\ pc = "patch" /\ status' \in Merge(obj, base, status)
      /\ status \in ArtifactStatus /\ obj \in ArtifactStatus /\ base \in ArtifactStatus
  BY DEF Patch, TypeOK
<1>2. /\ status'.attempts =
           IF obj.attempts # base.attempts THEN obj.attempts ELSE status.attempts
      /\ status'.generatorRef =
           IF obj.generatorRef # base.generatorRef THEN obj.generatorRef
                                                   ELSE status.generatorRef
  BY <1>1, MergeFacts
<1>3. /\ status.attempts \in Nat /\ obj.attempts \in Nat /\ base.attempts \in Nat
      /\ base.generatorRef \in Nat /\ obj.generatorRef \in Nat
  BY <1>1 DEF ArtifactStatus
<1>4. /\ Balanced(base) /\ Follows(status, base)
      /\ Kept(obj, base) \/ Charged(obj, base) \/ Started(obj, base)
  BY <1>1 DEF Ledger
<1>5. /\ Claimed(n) \/ (n = status.attempts /\ Released)
      /\ obj.attempts # base.attempts => n = obj.attempts
  BY <1>1 DEF FlightInv
<1>6. CASE Started(obj, base)
  BY <1>2, <1>3, <1>5, <1>6 DEF Started, Claimed
<1>7. CASE obj.attempts = base.attempts /\ obj.generatorRef = base.generatorRef
  BY <1>2, <1>5, <1>7 DEF Claimed
<1>8. CASE obj.attempts = base.attempts /\ obj.generatorRef = 0 /\ base.generatorRef # 0
  <2>1. status'.generatorRef = 0 /\ status'.attempts = status.attempts
    BY <1>2, <1>8
  <2>2. base.generatorRef = status.attempts /\ status.generatorRef \in {status.attempts, 0}
    BY <1>3, <1>4, <1>8 DEF Follows, Balanced
  <2>3. n = base.generatorRef => Released
    <3>1. obj.state = "Expired" => DeleteAfterReached
      BY DEF ExpiryInv
    <3>2. obs.present => Released
      BY DEF FlightInv
    <3>3. DropInv
      BY DEF FlightInv
    <3> QED
      BY <1>1, <1>8, <3>1, <3>2, <3>3 DEF DropInv, Released
  <2> QED
    BY <1>5, <2>1, <2>2, <2>3 DEF Claimed
<1> QED
  BY <1>4, <1>6, <1>7, <1>8 DEF Kept, Charged

\* Every step keeps the runs that are in flight claimed or released.
LEMMA NextFlight ==
  ASSUME "deadline" \notin Faults, NoRegeneration, TypeOK, Ledger, Ledger', ExpiryInv,
         ClassInv, FlightInv, [Next]_vars, KeepsObject
  PROVE  FlightInv'
<1>1. DropInv'
  BY NextDrop DEF FlightInv
<1>2. /\ cSpec'.deleting => spec'.deleting
      /\ cSpec.deleting => cSpec'.deleting
  BY DeletingStays DEF FlightInv
<1>3. Released => Released'
  BY ReleasedStays
<1>4. ~DriftRegenerate
  <2>1. klass.drift # "Regenerate"
    BY DEF ClassInv, NoRegeneration, NoClass
  <2> QED
    BY <2>1 DEF DriftRegenerate, Regenerates
<1>5. ASSUME NEW n \in 1..MaxRuns, runs'[n].api = "running", runs[n].api # "running"
      PROVE  /\ n = NextRun /\ Claimed(n)
             /\ pc = "reconcileMissing" /\ obj.generatorRef = 0
  BY <1>5, CreateFacts, CreateFindsNone
<1>6. \A n \in 1..MaxRuns : runs[n].api = "running" =>
        /\ Claimed(n) \/ (n = status.attempts /\ Released /\ pc # "reconcileMissing")
        /\ pc = "patch" /\ obj.attempts # base.attempts => n = obj.attempts
  BY DEF FlightInv
<1>7. CASE Read /\ ~ReadGone
  <2>1. UNCHANGED <<status, cSpec, store>> /\ base' = cStatus /\ pc = "idle"
    BY <1>7, ReadFrame
  <2>2. /\ pc' = "reconcileDelete" => cSpec'.deleting
        /\ obs'.present => store.present
    BY <1>7, <2>1, ReadObserves DEF NoObject
  <2>3. obs'.present => Released'
    BY <1>3, <2>2 DEF Released
  <2>4. pc' = "reconcileMissing" => ~Released
    <3>1. Expires <=> DeleteAfterReached
      BY DEF ExpiryInv, Expires, DeleteAfterReached, ObserveOnly
    <3> QED
      BY <1>7, <3>1, ReadObserves DEF Released
  <2>5. obj'.attempts = base'.attempts
    BY <1>7, <2>1, ReadDrops
  <2>6. ASSUME NEW n \in 1..MaxRuns, runs'[n].api = "running"
        PROVE  Claimed(n)' \/ (n = status'.attempts /\ Released' /\ pc' # "reconcileMissing")
    <3>1. runs[n].api = "running"
      BY <1>5, <2>1, <2>6
    <3> QED
      BY <1>3, <1>6, <2>1, <2>4, <3>1 DEF Claimed
  <2> QED
    BY <1>1, <1>2, <2>2, <2>3, <2>5, <2>6 DEF FlightInv
<1>8. CASE Act
  <2>1. UNCHANGED <<status, cSpec, base, obs>> /\ pc' = "patch"
    BY <1>4, <1>8, ActFrame
  <2>2. obs'.present => Released'
    BY <1>3, <2>1 DEF FlightInv
  <2>3. ASSUME NEW n \in 1..MaxRuns, runs'[n].api = "running"
        PROVE  Claimed(n)' \/ (n = status'.attempts /\ Released')
    BY <1>3, <1>5, <1>6, <2>1, <2>3 DEF Claimed
  <2>4. ASSUME NEW n \in 1..MaxRuns, runs'[n].api = "running",
               obj'.attempts # base'.attempts
        PROVE  n = obj'.attempts
    <3>1. obj.attempts = base.attempts
      BY <1>8, ActFrame DEF Ledger, Kept
    <3>2. (CreateRun \/ AdoptRun) /\ obj'.attempts = NextRun
      BY <1>8, <2>1, <2>4, <3>1, ActCases DEF SameRun
    <3>3. pc = "reconcileMissing" /\ obj.generatorRef = 0
      BY <3>2, Zenon DEF CreateRun, AdoptRun, TryCreate, NoRunInFlight, InBudget, Missing, In
    <3> QED
      BY <1>5, <2>4, <3>2, <3>3, CreateFindsNone
  <2> QED
    BY <1>1, <1>2, <2>1, <2>2, <2>3, <2>4 DEF FlightInv
<1>9. CASE Patch \/ PatchNotFound \/ PatchFails \/ Crash
  <2>1. pc' = "idle" /\ ~obs'.present /\ runs' = runs /\ (~Patch => status' = status)
    BY <1>9, EndFrame DEF NoObject
  <2>2. ASSUME NEW n \in 1..MaxRuns, runs'[n].api = "running"
        PROVE  Claimed(n)' \/ (n = status'.attempts /\ Released')
    <3>1. CASE Patch
      BY <1>3, <2>1, <2>2, <3>1, PatchFlight
    <3>2. CASE ~Patch
      BY <1>3, <1>6, <2>1, <2>2, <3>2 DEF Claimed
    <3> QED
      BY <3>1, <3>2
  <2> QED
    BY <1>1, <1>2, <2>1, <2>2 DEF FlightInv
<1>10. CASE SyncCache \/ Engine \/ User \/ Others \/ UNCHANGED vars \/ ReadGone
  <2>1. /\ UNCHANGED <<status, pc, obj, base, obs>>
        /\ \A n \in 1..MaxRuns : runs'[n].api = "running" => runs[n].api = "running"
    BY <1>10, SurroundingsFrame
  <2>2. /\ pc' = "reconcileDelete" => cSpec'.deleting
        /\ obs'.present => Released'
    BY <1>2, <1>3, <2>1 DEF FlightInv
  <2>3. \A n \in 1..MaxRuns : runs'[n].api = "running" =>
          /\ Claimed(n)' \/ (n = status'.attempts /\ Released' /\ pc' # "reconcileMissing")
          /\ pc' = "patch" /\ obj'.attempts # base'.attempts => n = obj'.attempts
    BY <1>3, <1>6, <2>1 DEF Claimed
  <2> QED
    BY <1>1, <1>2, <2>2, <2>3 DEF FlightInv
<1> QED
  BY <1>7, <1>8, <1>9, <1>10, StepCases

\* No step sets a second run running.
LEMMA NextSingleFlight ==
  ASSUME TypeOK, Ledger, FlightInv, SingleFlight, [Next]_vars
  PROVE  SingleFlight'
<1> SUFFICES ASSUME NEW m \in 1..MaxRuns, NEW n \in 1..MaxRuns,
                    runs'[m].api = "running", runs'[n].api = "running"
             PROVE  m = n
  BY DEF SingleFlight
<1>1. CASE runs[m].api = "running" /\ runs[n].api = "running"
  BY <1>1 DEF SingleFlight
<1>2. CASE runs[m].api # "running" \/ runs[n].api # "running"
  <2>1. pc = "reconcileMissing" /\ obj.generatorRef = 0
    BY <1>2, CreateFacts
  <2>2. \A k \in {m, n} : k = NextRun
    BY <2>1, CreateFacts, CreateFindsNone
  <2> QED
    BY <2>2
<1> QED
  BY <1>1, <1>2

\* At first no run is running and nothing has been read.
LEMMA InitFlight ==
  ASSUME Init
  PROVE  FlightInv /\ SingleFlight
<1>1. ASSUME NEW n \in 1..MaxRuns
      PROVE  runs[n].api # "running"
  <2>1. runs[n] \in {NoRun, [NoRun EXCEPT !.api = "alien"]}
    BY Zenon DEF Init
  <2>2. NoRun.api = "none" /\ [NoRun EXCEPT !.api = "alien"].api = "alien"
    BY DEF NoRun
  <2> QED
    BY <2>1, <2>2
<1>2. DropInv
  BY DEF Init, DropInv
<1>3. /\ cSpec.deleting => spec.deleting
      /\ ~obs.present /\ pc # "reconcileDelete"
  BY DEF Init, NoObject
<1> QED
  BY <1>1, <1>2, <1>3 DEF FlightInv, SingleFlight

\* Every running run is one that the status, or the next createRun, will find
\* again, or was dropped when no other can follow it, for any lag of the cache,
\* any lost patches, failed creates and restarts, and any edits of users,
\* provided that deletes of stalled runs do not fail, that no class version
\* regenerates on drift, and that nobody else removes the object.
THEOREM FlightHolds ==
  ASSUME "deadline" \notin Faults, NoRegeneration
  PROVE  Spec /\ [][KeepsObject]_vars => []FlightInv
<1>1. /\ TypeOK /\ Ledger /\ Ledger' /\ ExpiryInv /\ ClassInv
      /\ FlightInv /\ [Next]_vars /\ [KeepsObject]_vars
      => FlightInv'
  <2>1. [KeepsObject]_vars => KeepsObject
    BY Zenon DEF KeepsObject, vars
  <2> QED
    BY <2>1, NextFlight
<1> QED
  BY <1>1, InitFlight, TypeCorrect, LedgerHolds, ExpiryHolds, ClassHolds, PTL DEF Spec

\* There is never more than one run of the Artifact in flight, under the same
\* conditions.
THEOREM OneRunInFlight ==
  ASSUME "deadline" \notin Faults, NoRegeneration
  PROVE  Spec /\ [][KeepsObject]_vars => []SingleFlight
<1>1. TypeOK /\ Ledger /\ FlightInv /\ SingleFlight /\ [Next]_vars => SingleFlight'
  BY NextSingleFlight
<1> QED
  BY <1>1, InitFlight, FlightHolds, TypeCorrect, LedgerHolds, PTL DEF Spec

\* In particular where nobody else writes to the key.
THEOREM OneRunAlone ==
  ASSUME "deadline" \notin Faults, NoRegeneration, MaxWrites = 0
  PROVE  Spec => []SingleFlight
<1>1. TypeOK => writes = 0
  BY DEF TypeOK
<1>2. TypeOK' => writes' = 0
  BY DEF TypeOK
<1>3. TypeOK /\ TypeOK' => [KeepsObject]_vars
  BY <1>1, <1>2 DEF KeepsObject
<1> QED
  BY <1>3, TypeCorrect, OneRunInFlight, PTL
=============================================================================
