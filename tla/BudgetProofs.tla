----------------------------- MODULE BudgetProofs -----------------------------
(***************************************************************************)
(* The failure budget, where at most one reconcile starts from a cache     *)
(* that lags (MaxStale <= 1): no run is created once it is spent, and no   *)
(* failure is forgotten without a reason.  Restarts, lost patches, edits   *)
(* and writes by others, at any time, are allowed.                         *)
(***************************************************************************)
EXTENDS FreshProofs

\* s may be the status after one reconcile that read c: where no run was in
\* flight none was charged, and a retry that was honoured cleared the failures.
Near(s, c) ==
  c.generatorRef = 0 =>
    /\ s.failedAttempts \in {c.failedAttempts, 0}
    /\ s.retryToken # c.retryToken => s.failedAttempts = 0

\* No copy records a retry that was not asked for.  As long as no reconcile was
\* stale, the cache is at most one reconcile behind; so is then the copy of the
\* one that is.  A reconcile that may still create counts the failures of the
\* copy it read, unless it honours a retry that this copy did not record.
BudgetInv ==
  /\ status.retryToken <= spec.retry
  /\ cStatus.retryToken <= cSpec.retry /\ cSpec.retry <= spec.retry
  /\ stale = 0 => Near(status, cStatus)
  /\ pc # "idle" =>
       /\ Near(obj, base) /\ obj.retryToken <= spec.retry
       /\ stale = 0 => base = status /\ cStatus = status
  /\ pc \notin {"idle", "patch"} =>
       /\ Near(status, base)
       /\ obj.failedAttempts = base.failedAttempts \/ base.retryToken < spec.retry

\* p has the failures and the retry of o.
SameFailures(p, o) == p.failedAttempts = o.failedAttempts /\ p.retryToken = o.retryToken

\* A read step leaves the failures it read, or clears them for a retry.
LEMMA ReadFailures ==
  ASSUME TypeOK, Read, ~ReadGone
  PROVE  \/ SameFailures(obj', cStatus)
         \/ /\ obj'.failedAttempts = 0 /\ obj'.retryToken = cSpec.retry
            /\ cSpec.retry # cStatus.retryToken
<1> DEFINE after == WithKey(AfterCancel)
           retried == HonorRetry(cStatus, cSpec)
<1>0. /\ cStatus \in ArtifactStatus /\ retried \in ArtifactStatus
      /\ AfterCancel \in ArtifactStatus /\ after \in ArtifactStatus
      /\ MarkStalled(AfterCancel) \in ArtifactStatus
  BY RetryFacts, AfterCancelFacts, MarkFacts DEF TypeOK
<1>1. \/ SameFailures(retried, cStatus)
      \/ /\ retried.failedAttempts = 0 /\ retried.retryToken = cSpec.retry
         /\ cSpec.retry # cStatus.retryToken
  <2>1. CASE cSpec.retry = 0 \/ cSpec.retry = cStatus.retryToken
    BY <1>0, <2>1, ZenonT(40) DEF HonorRetry, ArtifactStatus, SameFailures
  <2>2. CASE ~(cSpec.retry = 0 \/ cSpec.retry = cStatus.retryToken)
    BY <1>0, <2>2, ZenonT(40) DEF HonorRetry, ClearFailures, ArtifactStatus
  <2> QED
    BY <2>1, <2>2
<1>2. /\ SameLedger(after, AfterCancel) /\ Untouched(after, AfterCancel)
      /\ Forgets(Forget(retried), retried) /\ Untouched(Forget(retried), retried)
      /\ AfterCancel \in {retried, Forget(retried)}
  BY <1>0, MarkFacts, LedgerFacts, FinalizerFacts DEF AfterCancel
<1> HIDE DEF after, retried
<1>3. /\ \A o \in {AfterCancel, after, MarkStalled(AfterCancel)} :
           SameLedger(NotReady(o), o) /\ Untouched(NotReady(o), o)
      /\ SameLedger(MarkStalled(AfterCancel), AfterCancel)
      /\ Untouched(MarkStalled(AfterCancel), AfterCancel)
  BY <1>0, MarkFacts, FinalizerFacts
<1>4. /\ SameFailures(Suspended(cStatus), cStatus)
      /\ \A held \in BOOLEAN : SameFailures(WithFinalizer(cStatus, held), cStatus)
  BY <1>0, SMTT(30) DEF Suspended, WithFinalizer, SameFailures, ArtifactStatus
<1>5. \/ obj' \in {cStatus, retried, AfterCancel, after, Suspended(cStatus),
                   WithFinalizer(cStatus, TRUE), WithFinalizer(cStatus, FALSE)}
      \/ obj' \in {NotReady(AfterCancel), NotReady(after), NotReady(MarkStalled(AfterCancel))}
  BY ZenonT(40)
  DEF Read, AddFinalizer, ReadSuspended, CancelFails, ClassUnreadable, ClassNotFound,
      KeyTemplateError, TTLExpired, TTLDeleteFails, StoreUnavailable, Observed, LetGo,
      DeleteUnavailable, ObservedDeleting, Return, Dispatch, after, retried
<1>6. SameFailures(AfterCancel, retried) /\ SameFailures(after, retried)
  BY <1>2 DEF SameLedger, Forgets, Untouched, SameFailures
<1>7. \A o \in {AfterCancel, after, MarkStalled(AfterCancel)} :
        SameFailures(NotReady(o), retried)
  BY <1>3, <1>6 DEF SameLedger, Untouched, SameFailures
<1>8. SameFailures(obj', cStatus) \/ SameFailures(obj', retried)
  BY <1>4, <1>5, <1>6, <1>7 DEF SameFailures
<1> QED
  BY <1>1, <1>8 DEF SameFailures

\* A handler charges a failure only to a run in flight, and clears the failures
\* only when it has seen the artifact or has found a sensor's artifact missing.
LEMMA ActFailures ==
  ASSUME TypeOK, Act
  PROVE  \/ obj'.failedAttempts = obj.failedAttempts
         \/ obj'.failedAttempts = 0 /\ obj'.state \in {"Ready", "Missing"}
         \/ obj'.failedAttempts = obj.failedAttempts + 1 /\ obj.generatorRef # 0
<1> DEFINE p == Absent(obj)
<1>0. obj \in ArtifactStatus /\ klass.maxAttempts \in Int /\ obs \in Object
  BY DEF TypeOK, ArtifactClass
<1>1. /\ p \in ArtifactStatus /\ SameLedger(p, obj) /\ MarkStalled(p) \in ArtifactStatus
      /\ SameLedger(MarkStalled(p), p) /\ Forget(p) \in ArtifactStatus /\ Forgets(Forget(p), p)
  BY <1>0, MarkFacts, LedgerFacts
<1> HIDE DEF p
<1>2. /\ SameLedger(Degraded(p), p) /\ SameLedger(Generating(p), p) /\ SameLedger(Awaiting(p), p)
      /\ SameLedger(NotReady(p), p) /\ SameLedger(NotReady(MarkStalled(p)), MarkStalled(p))
      /\ SameLedger(Degraded(Forget(p)), Forget(p))
      /\ Created(p).failedAttempts = p.failedAttempts
      /\ Adopted(p).failedAttempts = p.failedAttempts
  BY <1>0, <1>1, MarkFacts, LedgerFacts, AttemptFacts
<1>3. \A q \in {p, Degraded(p), Generating(p), Awaiting(p), NotReady(p),
                NotReady(MarkStalled(p)), Forget(p), Degraded(Forget(p)), Created(p), Adopted(p)} :
        q.failedAttempts = obj.failedAttempts
  BY <1>1, <1>2 DEF SameLedger, Forgets
<1>4. CASE KeyConflict \/ DeletionRefused \/ ExpireRefused \/ ArtifactMissingObserved
           \/ ArtifactDeleted \/ DeleteAfterExpired
  <2>1. /\ SameLedger(Conflicting(obj), obj) /\ SameLedger(DeletionBlocked(obj), obj)
        /\ SameLedger(NotReady(obj), obj) /\ MissingObserved(obj).failedAttempts = 0
        /\ SameLedger(WithFinalizer(obj, FALSE), obj) /\ Forgets(Expired(obj), obj)
    BY <1>0, MarkFacts, MarkFacts2, LedgerFacts, Zenon
  <2>2. MissingObserved(obj).state = "Missing"
    BY <1>0 DEF MissingObserved, Settled, ClearFailures, ArtifactStatus
  <2> QED
    BY <1>4, <2>1, <2>2
    DEF KeyConflict, DeletionRefused, ExpireRefused, ArtifactMissingObserved, ArtifactDeleted,
        DeleteAfterExpired, Finish, Forgets, SameLedger
<1>5. CASE DriftRegenerate
  <2>1. LET d == RecordDrift(obj, klass.drift)
        IN  d \in ArtifactStatus /\ SameLedger(d, obj) /\ obj' = WithoutDigest(d)
    BY <1>0, <1>5, MarkFacts2, Zenon DEF DriftRegenerate
  <2> QED
    BY <2>1, MarkFacts DEF SameLedger
<1>6. CASE DriftReported \/ ArtifactAvailable
  <2>1. PICK d \in ArtifactStatus : obj' = Verified(d, obs)
    BY <1>0, <1>6, MarkFacts2, Zenon DEF DriftReported, ArtifactAvailable, Finish
  <2>2. Verified(d, obs).state = "Ready"
    BY <1>0 DEF Verified, Settled, Forget, ClearFailures, ArtifactStatus
  <2> QED
    BY <1>0, <2>1, <2>2, VerifiedFacts
<1>7. CASE GeneratorNotConfigured \/ FailureBudgetExhausted \/ RunUnreadable
  BY <1>3, <1>7
  DEF GeneratorNotConfigured, FailureBudgetExhausted, RunUnreadable, Finish, p
<1>8. CASE \/ RunVanished \/ GeneratorFailed \/ AwaitingArtifact \/ SucceededWithoutArtifact
           \/ RunInProgress \/ ProgressDeadlineExceeded
  <2>1. /\ obj.generatorRef # 0
        /\ obj' \in {Forget(p), Awaiting(p), Generating(p),
                     RecordAttemptFailure(p, klass.maxAttempts)}
    BY <1>8, ZenonT(40)
    DEF RunVanished, GeneratorFailed, AwaitingArtifact, SucceededWithoutArtifact,
        RunInProgress, ProgressDeadlineExceeded, Evaluate, Failure, Finish, p
  <2>2. RecordAttemptFailure(p, klass.maxAttempts).failedAttempts = obj.failedAttempts + 1
    BY <1>0, <1>1, AttemptFacts DEF SameLedger
  <2> QED
    BY <1>3, <2>1, <2>2
<1>9. CASE BackoffPending \/ RunTemplateError \/ CreateRun \/ AdoptRun \/ RunNotOwned
           \/ CreateFails
  BY <1>3, <1>9
  DEF BackoffPending, RunTemplateError, CreateRun, AdoptRun, RunNotOwned, CreateFails,
      Finish, p
<1> QED
  BY <1>4, <1>5, <1>6, <1>7, <1>8, <1>9 DEF Act

\* Only a read step counts as stale, and only if the cache lags.
LEMMA StaleMoves ==
  ASSUME TypeOK, [Next]_vars
  PROVE  \/ stale' = stale /\ (Read /\ ~ReadGone => cStatus = status)
         \/ stale < MaxStale /\ stale' = stale + 1 /\ Read /\ ~ReadGone
<1>1. CASE Read /\ ~ReadGone
  <2>1. Dequeue
    BY <1>1, ZenonT(40)
        DEF Read, AddFinalizer, ReadSuspended, CancelFails, ClassUnreadable, ClassNotFound,
            KeyTemplateError, TTLExpired, TTLDeleteFails, StoreUnavailable, Observed, LetGo,
            DeleteUnavailable, ObservedDeleting, ReadDeleting, Keyed, Cancelled, Active
  <2> QED
    BY <1>1, <2>1 DEF Dequeue, cached, api
<1>2. CASE Act
  <2>1. pc # "idle"
    BY <1>2, ActFrame
  <2>2. ~Dequeue
    BY <2>1 DEF Dequeue
  <2>3. ~Read
    BY <2>1, ZenonT(40)
        DEF Read, ReadGone, AddFinalizer, ReadSuspended, CancelFails, ClassUnreadable,
            ClassNotFound, KeyTemplateError, TTLExpired, TTLDeleteFails, StoreUnavailable,
            Observed, LetGo, DeleteUnavailable, ObservedDeleting, ReadDeleting, Keyed,
            Cancelled, Active, Dequeue
  <2>4. stale' = stale
    BY <1>2, ZenonT(40)
        DEF Act, KeyConflict, DriftRegenerate, DriftReported, ArtifactAvailable,
            ArtifactMissingObserved, GeneratorNotConfigured, FailureBudgetExhausted,
            RunUnreadable, RunVanished, GeneratorFailed, AwaitingArtifact,
            SucceededWithoutArtifact, RunInProgress, ProgressDeadlineExceeded,
            BackoffPending, RunTemplateError, CreateRun, AdoptRun, RunNotOwned,
            CreateFails, DeleteAfterExpired, ExpireRefused, ArtifactDeleted,
            DeletionRefused, TryCreate, NoRunInFlight, Evaluate, InBudget, Missing, In
  <2> QED
    BY <2>3, <2>4
<1>3. CASE ~(Read /\ ~ReadGone)
           /\ \/ Patch \/ PatchNotFound \/ PatchFails \/ Crash \/ SyncCache \/ Engine
              \/ User \/ Others \/ UNCHANGED vars \/ ReadGone
  <2>1. stale' = stale
    BY <1>3, ZenonT(40)
        DEF Patch, PatchNotFound, PatchFails, Crash, SyncCache, Engine, RunSucceeds,
            RunFails, Upload, StopWorker, CollectRun, DeleteRunByHand, RunChanges, User,
            FlipPolicy, ToggleSuspend, AnnotateRetry, UserDelete, EditClass, Age, Edits,
            Others, Write, Environment, ReadGone, bounds, vars
  <2> QED
    BY <1>3, <2>1
<1> QED
  BY <1>1, <1>2, <1>3, StepCases

\* A patch writes the retry of the reconcile or leaves the one that is there.
LEMMA PatchRetry ==
  ASSUME NEW o, NEW b, NEW s \in ArtifactStatus, NEW p \in Merge(o, b, s)
  PROVE  p.retryToken \in {o.retryToken, s.retryToken}
BY DEF Merge, Change, ArtifactStatus

\* Every step keeps BudgetInv, if at most one reconcile is stale.
LEMMA NextBudget ==
  ASSUME MaxStale <= 1, TypeOK, Ledger, BudgetInv, [Next]_vars
  PROVE  BudgetInv'
<1>0. /\ spec.retry \in Nat /\ cSpec.retry \in Nat /\ status.retryToken \in Nat
      /\ cStatus.retryToken \in Nat /\ obj.retryToken \in Nat /\ base.retryToken \in Nat
  BY DEF TypeOK, ArtifactSpec, ArtifactStatus
<1>1. spec'.retry \in Nat /\ spec'.retry >= spec.retry
  BY SpecMoves
<1>2. stale \in Nat /\ MaxStale \in Nat
  BY BoundsAssumption DEF TypeOK
<1>3. /\ status.retryToken <= spec.retry
      /\ cStatus.retryToken <= cSpec.retry /\ cSpec.retry <= spec.retry
  BY DEF BudgetInv
<1>4. CASE Read /\ ~ReadGone
  <2>1. UNCHANGED <<status, cSpec, cStatus>> /\ base' = cStatus
    BY <1>4, ReadFrame
  <2>2. /\ stale' = 0 => cStatus = status /\ stale = 0
        /\ cStatus = status \/ stale = 0
    BY <1>2, <1>4, StaleMoves
  <2>3. Near(status, cStatus)
    BY <2>2 DEF BudgetInv, Near
  <2>4. obj'.retryToken \in {cStatus.retryToken, cSpec.retry}
    BY <1>4, ReadFinalizer
  <2>5. \/ SameFailures(obj', cStatus)
        \/ obj'.failedAttempts = 0 /\ cSpec.retry # cStatus.retryToken
    BY <1>4, ReadFailures
  <2>6. Near(obj', cStatus)
    BY <2>5 DEF Near, SameFailures
  <2>7. obj'.failedAttempts = cStatus.failedAttempts \/ cStatus.retryToken < spec'.retry
    BY <1>0, <1>1, <1>3, <2>5 DEF SameFailures
  <2>8. obj'.retryToken <= spec'.retry /\ cSpec.retry <= spec'.retry
        /\ status.retryToken <= spec'.retry
    BY <1>0, <1>1, <1>3, <2>4
  <2> QED
    BY <1>3, <2>1, <2>2, <2>3, <2>6, <2>7, <2>8 DEF BudgetInv, Near
<1>5. CASE Act
  <2>1. UNCHANGED <<spec, status, cSpec, cStatus, base>> /\ pc \notin {"idle", "patch"}
    BY <1>5, ActFrame
  <2>2. obj'.retryToken = obj.retryToken
    BY <1>5, ActFinalizer
  <2>3. stale' = stale
    BY <1>5, <2>1, StaleMoves, ReadFrame
  <2>4. Near(obj', base)
    <3>1. base.generatorRef = 0 => obj.generatorRef = 0
      BY <2>1 DEF Ledger, Kept
    <3>2. Near(obj, base)
      BY <2>1 DEF BudgetInv
    <3> QED
      BY <1>5, <2>2, <3>1, <3>2, ActFailures DEF Near
  <2>5. pc' = "patch" \/ obj'.failedAttempts = obj.failedAttempts
    <3>1. CASE DriftRegenerate
      <4>1. LET d == RecordDrift(obj, klass.drift)
            IN  d \in ArtifactStatus /\ SameLedger(d, obj) /\ obj' = WithoutDigest(d)
        BY <3>1, MarkFacts2, Zenon DEF DriftRegenerate, TypeOK
      <4> QED
        BY <4>1, MarkFacts DEF SameLedger
    <3> QED
      BY <1>5, <3>1, ActFrame
  <2> QED
    BY <2>1, <2>2, <2>3, <2>4, <2>5 DEF BudgetInv, Near
<1>6. CASE Patch
  <2>1. /\ pc = "patch" /\ pc' = "idle" /\ status' \in Merge(obj, base, status)
        /\ UNCHANGED <<cSpec, cStatus>>
    BY <1>6, EndFrame DEF Patch
  <2>2. stale' = stale
    BY <1>6, <2>1, StaleMoves, ReadFrame
  <2>3. status'.retryToken \in {obj.retryToken, status.retryToken}
    BY <2>1, PatchRetry DEF TypeOK
  <2>4. status'.retryToken <= spec'.retry /\ cSpec.retry <= spec'.retry
    BY <1>0, <1>1, <1>3, <2>1, <2>3 DEF BudgetInv
  <2>5. stale = 0 => Near(status', cStatus)
    <3> SUFFICES ASSUME stale = 0
                 PROVE  Near(status', cStatus)
      OBVIOUS
    <3>1. base = status /\ cStatus = base /\ Near(obj, base)
      BY <2>1 DEF BudgetInv
    <3>2. status'.failedAttempts = obj.failedAttempts /\ status'.retryToken = obj.retryToken
      BY <2>1, <3>1, FreshPatch DEF TypeOK
    <3> QED
      BY <3>1, <3>2 DEF Near
  <2> QED
    BY <1>3, <2>1, <2>2, <2>4, <2>5 DEF BudgetInv, Near
<1>7. CASE ~Patch /\ (PatchNotFound \/ PatchFails \/ Crash)
  <2>1. /\ pc' = "idle" /\ UNCHANGED <<spec, status>>
        /\ \/ cSpec' = cSpec /\ cStatus' = cStatus
           \/ cSpec' = spec /\ cStatus' = status
    BY <1>7, EndFrame
  <2>2. stale' = stale
    BY <2>1, StaleMoves, ReadFrame
  <2> QED
    BY <1>0, <1>3, <2>1, <2>2 DEF BudgetInv, Near
<1>8. CASE SyncCache
  <2>1. cSpec' = spec /\ cStatus' = status /\ UNCHANGED <<spec, status, pc, obj, base>>
    BY <1>8, SyncFrame
  <2>2. stale' = stale
    BY <2>1, StaleMoves, ReadFrame
  <2> QED
    BY <1>0, <1>3, <2>1, <2>2 DEF BudgetInv, Near
<1>9. CASE Engine \/ User \/ Others \/ UNCHANGED vars \/ ReadGone
  <2>1. UNCHANGED <<status, cSpec, cStatus, pc, obj, base>>
    BY <1>9, EngineFrame, UserFrame, OthersFrame, StutterFrame
  <2>2. stale' = stale
    BY <2>1, StaleMoves, ReadFrame
  <2>3. /\ status.retryToken <= spec'.retry /\ cSpec.retry <= spec'.retry
        /\ pc # "idle" => obj.retryToken <= spec'.retry
        /\ base.retryToken < spec.retry => base.retryToken < spec'.retry
    BY <1>0, <1>1, <1>3 DEF BudgetInv
  <2> QED
    BY <1>3, <2>1, <2>2, <2>3 DEF BudgetInv, Near
<1> QED
  BY <1>4, <1>5, <1>6, <1>7, <1>8, <1>9, StepCases

\* If at most one reconcile starts from a cache that lags, no run is created once
\* the recorded failures have used up the budget, unless a retry that is not
\* recorded yet asks for it: neither a restart nor a lost patch nor an edit nor
\* another writer buys another attempt.
THEOREM BudgetIsRespected ==
  ASSUME MaxStale <= 1
  PROVE  Spec => BudgetRespected
<1>1. Init => BudgetInv
  <2>1. NewStatus.retryToken = 0
    BY Zenon DEF NewStatus
  <2>2. Init => spec.retry = 0
    BY InputsAssumption DEF Init
  <2> QED
    BY <2>1, <2>2 DEF Init, BudgetInv, Near
<1>2. TypeOK /\ Ledger /\ BudgetInv /\ [Next]_vars => BudgetInv'
  BY NextBudget
<1>3. TypeOK /\ Ledger /\ BudgetInv /\ [Next]_vars =>
        \A n \in 1..MaxRuns : Creates(n) =>
          status.failedAttempts < MaxAttempts \/ spec.retry # status.retryToken
  <2> SUFFICES ASSUME TypeOK, Ledger, BudgetInv, [Next]_vars, NEW n \in 1..MaxRuns, Creates(n)
               PROVE  status.failedAttempts < MaxAttempts \/ spec.retry # status.retryToken
    OBVIOUS
  <2>1. CreateRun \/ CreateFails
    BY OnlyCreateCreates
  <2>2. /\ pc = "reconcileMissing" /\ obj.generatorRef = 0
        /\ obj.failedAttempts < klass.maxAttempts
    BY <2>1, Zenon DEF CreateRun, CreateFails, TryCreate, NoRunInFlight, InBudget, Missing, In
  <2>3. klass.maxAttempts \in Nat /\ klass.maxAttempts <= MaxAttempts
    BY BoundsAssumption DEF TypeOK, ArtifactClass
  <2>4. obj.failedAttempts \in Nat /\ status.failedAttempts \in Nat
    BY DEF TypeOK, ArtifactStatus
  <2>5. spec.retry \in Nat /\ status.retryToken \in Nat
    BY DEF TypeOK, ArtifactSpec, ArtifactStatus
  <2>6. base.generatorRef = 0
    BY <2>2 DEF Ledger, Kept
  <2>7. /\ status.failedAttempts \in {base.failedAttempts, 0}
        /\ status.retryToken = base.retryToken \/ status.failedAttempts = 0
        /\ obj.failedAttempts = base.failedAttempts \/ base.retryToken < spec.retry
    BY <2>2, <2>6 DEF BudgetInv, Near
  <2> QED
    BY <2>2, <2>3, <2>4, <2>5, <2>7, BoundsAssumption
<1> QED
  BY <1>1, <1>2, <1>3, TypeCorrect, LedgerHolds, PTL DEF Spec, BudgetRespected

-----------------------------------------------------------------------------
(***************************************************************************)
(* Failures are not forgotten.                                             *)
(***************************************************************************)

\* What entitles a reconcile that read b to clear the failures in its copy o.
Excused(o, b) == o.state \in {"Ready", "Missing"} \/ o.retryToken # b.retryToken

\* As long as no reconcile was stale, the cache has missed at most one failure; so
\* has the copy that a running reconcile read.  A reconcile adds at most one to
\* what it read, and takes some away only with a reason.
ChargeInv ==
  /\ stale = 0 => status.failedAttempts <= cStatus.failedAttempts + 1
  /\ pc # "idle" =>
       /\ status.failedAttempts <= base.failedAttempts + 1
       /\ obj.failedAttempts <= base.failedAttempts + 1
       /\ obj.failedAttempts >= base.failedAttempts \/ Excused(obj, base)
       /\ stale = 0 => base = status /\ cStatus = status
  /\ pc \notin {"idle", "patch"} =>
       \/ obj.failedAttempts = base.failedAttempts
       \/ obj.failedAttempts = 0 /\ obj.retryToken # base.retryToken

\* Every step keeps ChargeInv, if at most one reconcile is stale.
LEMMA NextCharge ==
  ASSUME MaxStale <= 1, TypeOK, TypeOK', ChargeInv, [Next]_vars
  PROVE  ChargeInv'
<1>0. /\ status.failedAttempts \in Nat /\ cStatus.failedAttempts \in Nat
      /\ obj.failedAttempts \in Nat /\ base.failedAttempts \in Nat
      /\ status'.failedAttempts \in Nat /\ obj'.failedAttempts \in Nat
  BY DEF TypeOK, ArtifactStatus
<1>1. stale \in Nat /\ MaxStale \in Nat
  BY BoundsAssumption DEF TypeOK
<1>2. CASE Read /\ ~ReadGone
  <2>1. UNCHANGED <<status, cStatus>> /\ base' = cStatus
    BY <1>2, ReadFrame
  <2>2. /\ stale' = 0 => cStatus = status /\ stale = 0
        /\ cStatus = status \/ stale = 0
    BY <1>1, <1>2, StaleMoves
  <2>3. status.failedAttempts <= cStatus.failedAttempts + 1
    BY <1>0, <2>2 DEF ChargeInv
  <2>4. \/ obj'.failedAttempts = cStatus.failedAttempts
        \/ obj'.failedAttempts = 0 /\ obj'.retryToken # cStatus.retryToken
    BY <1>2, ReadFailures DEF SameFailures
  <2>5. /\ obj'.failedAttempts <= cStatus.failedAttempts + 1
        /\ obj'.failedAttempts >= cStatus.failedAttempts \/ Excused(obj', cStatus)
    BY <1>0, <2>4 DEF Excused
  <2> QED
    BY <2>1, <2>2, <2>3, <2>4, <2>5 DEF ChargeInv, Excused
<1>3. CASE Act
  <2>1. UNCHANGED <<status, cStatus, base>> /\ pc \notin {"idle", "patch"}
    BY <1>3, ActFrame
  <2>2. obj'.retryToken = obj.retryToken
    BY <1>3, ActFinalizer
  <2>3. stale' = stale
    BY <1>3, <2>1, StaleMoves, ReadFrame
  <2>4. \/ obj.failedAttempts = base.failedAttempts
        \/ obj.failedAttempts = 0 /\ obj.retryToken # base.retryToken
    BY <2>1 DEF ChargeInv
  <2>5. \/ obj'.failedAttempts = obj.failedAttempts
        \/ obj'.failedAttempts = 0 /\ obj'.state \in {"Ready", "Missing"}
        \/ obj'.failedAttempts = obj.failedAttempts + 1
    BY <1>3, ActFailures
  <2>6. /\ obj'.failedAttempts <= base.failedAttempts + 1
        /\ obj'.failedAttempts >= base.failedAttempts \/ Excused(obj', base)
    BY <1>0, <2>2, <2>4, <2>5 DEF Excused
  <2>7. pc' = "patch" \/ obj'.failedAttempts = obj.failedAttempts
    <3>1. CASE DriftRegenerate
      <4>1. LET d == RecordDrift(obj, klass.drift)
            IN  d \in ArtifactStatus /\ SameLedger(d, obj) /\ obj' = WithoutDigest(d)
        BY <3>1, MarkFacts2, Zenon DEF DriftRegenerate, TypeOK
      <4> QED
        BY <4>1, MarkFacts DEF SameLedger
    <3> QED
      BY <1>3, <3>1, ActFrame
  <2> QED
    BY <2>1, <2>2, <2>3, <2>4, <2>6, <2>7 DEF ChargeInv, Excused
<1>4. CASE Patch
  <2>1. /\ pc = "patch" /\ pc' = "idle" /\ status' \in Merge(obj, base, status)
        /\ cStatus' = cStatus
    BY <1>4, EndFrame DEF Patch
  <2>2. stale' = stale
    BY <1>4, <2>1, StaleMoves, ReadFrame
  <2>3. stale = 0 => status'.failedAttempts <= cStatus.failedAttempts + 1
    <3>1. status'.failedAttempts = IF obj.failedAttempts # base.failedAttempts
                                   THEN obj.failedAttempts ELSE status.failedAttempts
      BY <2>1, MergeFacts DEF TypeOK
    <3>2. /\ obj.failedAttempts <= base.failedAttempts + 1
          /\ stale = 0 => base = status /\ cStatus = status
      BY <2>1 DEF ChargeInv
    <3> QED
      BY <1>0, <3>1, <3>2
  <2> QED
    BY <2>1, <2>2, <2>3 DEF ChargeInv
<1>5. CASE ~Patch /\ (PatchNotFound \/ PatchFails \/ Crash)
  <2>1. /\ pc' = "idle" /\ status' = status
        /\ cStatus' = cStatus \/ cStatus' = status
    BY <1>5, EndFrame
  <2>2. stale' = stale
    BY <2>1, StaleMoves, ReadFrame
  <2> QED
    BY <1>0, <2>1, <2>2 DEF ChargeInv
<1>6. CASE SyncCache
  <2>1. cStatus' = status /\ UNCHANGED <<status, pc, obj, base>>
    BY <1>6, SyncFrame
  <2>2. stale' = stale
    BY <2>1, StaleMoves, ReadFrame
  <2> QED
    BY <1>0, <2>1, <2>2 DEF ChargeInv, Excused
<1>7. CASE Engine \/ User \/ Others \/ UNCHANGED vars \/ ReadGone
  <2>1. UNCHANGED <<status, cStatus, pc, obj, base>>
    BY <1>7, EngineFrame, UserFrame, OthersFrame, StutterFrame
  <2>2. stale' = stale
    BY <2>1, StaleMoves, ReadFrame
  <2> QED
    BY <2>1, <2>2 DEF ChargeInv, Excused
<1> QED
  BY <1>2, <1>3, <1>4, <1>5, <1>6, <1>7, StepCases

\* If at most one reconcile starts from a cache that lags, the failures on record
\* go down only when the artifact has been seen, a sensor's artifact was found
\* missing or a retry is honoured.
THEOREM FailuresAreKept ==
  ASSUME MaxStale <= 1
  PROVE  Spec => FailuresStay
<1>1. Init => ChargeInv
  <2>0. NewStatus.failedAttempts = 0
    BY Zenon DEF NewStatus
  <2>1. Init => pc = "idle" /\ cStatus = status /\ status.failedAttempts = 0
    BY <2>0 DEF Init
  <2>2. Init => status.failedAttempts <= cStatus.failedAttempts + 1
    BY <2>1
  <2> QED
    BY <2>1, <2>2 DEF ChargeInv
<1>2. TypeOK /\ TypeOK' /\ ChargeInv /\ [Next]_vars => ChargeInv'
  BY NextCharge
<1>3. TypeOK /\ ChargeInv /\ [Next]_vars =>
        (status'.failedAttempts < status.failedAttempts => Excused(obj, base))
  <2> SUFFICES ASSUME TypeOK, ChargeInv, [Next]_vars,
                      status'.failedAttempts < status.failedAttempts
               PROVE  Excused(obj, base)
    OBVIOUS
  <2>1. /\ status.failedAttempts \in Nat /\ obj.failedAttempts \in Nat
        /\ base.failedAttempts \in Nat
    BY DEF TypeOK, ArtifactStatus
  <2>2. Patch
    <3>1. status' # status
      BY <2>1
    <3> QED
      BY <3>1, OnlyPatchWrites
  <2>3. pc = "patch" /\ status' \in Merge(obj, base, status)
    BY <2>2 DEF Patch
  <2>4. status'.failedAttempts = IF obj.failedAttempts # base.failedAttempts
                                 THEN obj.failedAttempts ELSE status.failedAttempts
    BY <2>3, MergeFacts DEF TypeOK
  <2>5. /\ status.failedAttempts <= base.failedAttempts + 1
        /\ obj.failedAttempts >= base.failedAttempts \/ Excused(obj, base)
    BY <2>3 DEF ChargeInv
  <2> QED
    BY <2>1, <2>4, <2>5
<1> QED
  BY <1>1, <1>2, <1>3, TypeCorrect, PTL DEF Spec, FailuresStay, Excused

=============================================================================
