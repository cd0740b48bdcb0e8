---------------------- MODULE ArtifactReconcilerProofs ----------------------
(***************************************************************************)
(* Proofs about ArtifactReconciler, for every value of its constants: type *)
(* correctness, and the ledger of generator attempts.                      *)
(***************************************************************************)
EXTENDS ArtifactReconciler, TLAPS

-----------------------------------------------------------------------------
(***************************************************************************)
(* The helpers on the status: their type, and what they do to the three    *)
(* fields of the ledger.                                                   *)
(***************************************************************************)

\* The two statuses agree on the ledger.
SameLedger(p, o) ==
  /\ p.attempts = o.attempts /\ p.generatorRef = o.generatorRef
  /\ p.failedAttempts = o.failedAttempts

\* p forgets the run in flight of o, and is otherwise the same in the ledger.
Forgets(p, o) ==
  p.attempts = o.attempts /\ p.generatorRef = 0 /\ p.failedAttempts = o.failedAttempts

\* The values that stand for "nothing" have their types.
LEMMA NothingTypes ==
  /\ NewStatus \in ArtifactStatus /\ NoSpec \in ArtifactSpec /\ NoClass \in ArtifactClass
  /\ NoObject \in Object /\ NoRun \in Run
BY BoundsAssumption
DEF NewStatus, ArtifactStatus, States, Cond, NoSpec, ArtifactSpec, NoClass, ArtifactClass,
    NoObject, Object, NoRun, Run

\* The states, condition values and empty digest that the helpers write.
LEMMA ValueTypes ==
  /\ {"absent", "True", "False"} \subseteq Cond
  /\ {"Pending", "Generating", "AwaitingArtifact", "Ready", "Suspended", "KeyConflict",
      "Degraded", "Missing", "Expired", "Deleting"} \subseteq States
  /\ 0 \in Int
BY DEF Cond, States

\* Numbers written to the ledger and to the time of the last failure.
LEMMA CountFacts ==
  ASSUME NEW o \in ArtifactStatus, NEW n \in Nat, NEW m \in Nat
  PROVE  /\ [o EXCEPT !.attempts = n, !.generatorRef = n] \in ArtifactStatus
         /\ [o EXCEPT !.attempts = n, !.generatorRef = n, !.generatorSucceededAt = 0]
              \in ArtifactStatus
         /\ [o EXCEPT !.failedAttempts = n, !.lastFailureTime = m] \in ArtifactStatus
BY Zenon DEF ArtifactStatus

\* The helpers that only touch conditions, state, digest, key and finalizer
\* keep the type and the ledger.
LEMMA MarkFacts ==
  ASSUME NEW o \in ArtifactStatus
  PROVE  /\ MarkStalled(o) \in ArtifactStatus /\ SameLedger(MarkStalled(o), o)
         /\ MarkReconciling(o) \in ArtifactStatus /\ SameLedger(MarkReconciling(o), o)
         /\ NotReady(o) \in ArtifactStatus /\ SameLedger(NotReady(o), o)
         /\ Settled(o) \in ArtifactStatus /\ SameLedger(Settled(o), o)
         /\ Suspended(o) \in ArtifactStatus /\ SameLedger(Suspended(o), o)
         /\ Conflicting(o) \in ArtifactStatus /\ SameLedger(Conflicting(o), o)
         /\ Absent(o) \in ArtifactStatus /\ SameLedger(Absent(o), o)
         /\ DeletionBlocked(o) \in ArtifactStatus /\ SameLedger(DeletionBlocked(o), o)
         /\ WithKey(o) \in ArtifactStatus /\ SameLedger(WithKey(o), o)
         /\ WithoutDigest(o) \in ArtifactStatus /\ SameLedger(WithoutDigest(o), o)
<1>1. MarkStalled(o) \in ArtifactStatus /\ SameLedger(MarkStalled(o), o)
  BY ValueTypes, Zenon DEF ArtifactStatus, SameLedger, MarkStalled
<1>2. MarkReconciling(o) \in ArtifactStatus /\ SameLedger(MarkReconciling(o), o)
  BY ValueTypes, Zenon DEF ArtifactStatus, SameLedger, MarkReconciling
<1>3. NotReady(o) \in ArtifactStatus /\ SameLedger(NotReady(o), o)
  BY ValueTypes DEF ArtifactStatus, SameLedger, NotReady
<1>4. Settled(o) \in ArtifactStatus /\ SameLedger(Settled(o), o)
  BY ValueTypes, Zenon DEF ArtifactStatus, SameLedger, Settled
<1>5. Suspended(o) \in ArtifactStatus /\ SameLedger(Suspended(o), o)
  BY ValueTypes, Zenon DEF ArtifactStatus, SameLedger, Suspended
<1>6. Conflicting(o) \in ArtifactStatus /\ SameLedger(Conflicting(o), o)
  BY ValueTypes, Zenon DEF ArtifactStatus, SameLedger, Conflicting
<1>7. Absent(o) \in ArtifactStatus /\ SameLedger(Absent(o), o)
  BY ValueTypes, Zenon DEF ArtifactStatus, SameLedger, Absent
<1>8. DeletionBlocked(o) \in ArtifactStatus /\ SameLedger(DeletionBlocked(o), o)
  BY ValueTypes, Zenon DEF ArtifactStatus, SameLedger, DeletionBlocked
<1>9. WithKey(o) \in ArtifactStatus /\ SameLedger(WithKey(o), o)
  BY ValueTypes, Zenon DEF ArtifactStatus, SameLedger, WithKey
<1>10. WithoutDigest(o) \in ArtifactStatus /\ SameLedger(WithoutDigest(o), o)
  BY ValueTypes DEF ArtifactStatus, SameLedger, WithoutDigest
<1> QED
  BY <1>1, <1>2, <1>3, <1>4, <1>5, <1>6, <1>7, <1>8, <1>9, <1>10

\* The same for the helpers with a second argument.
LEMMA MarkFacts2 ==
  ASSUME NEW o \in ArtifactStatus, NEW held \in BOOLEAN, NEW policy, NEW seen
  PROVE  /\ WithFinalizer(o, held) \in ArtifactStatus /\ SameLedger(WithFinalizer(o, held), o)
         /\ RecordDrift(o, policy) \in ArtifactStatus /\ SameLedger(RecordDrift(o, policy), o)
         /\ Rebaselined(o, seen) \in ArtifactStatus /\ SameLedger(Rebaselined(o, seen), o)
BY ValueTypes DEF ArtifactStatus, SameLedger, WithFinalizer, RecordDrift, Rebaselined

\* What the other helpers do to the ledger: they forget the run in flight, clear
\* the failures, or both; only RecordAttemptFailure adds a failure, and only
\* Created and Adopted add an attempt.
LEMMA LedgerFacts ==
  ASSUME NEW o \in ArtifactStatus
  PROVE  /\ Forget(o) \in ArtifactStatus /\ Forgets(Forget(o), o)
         /\ ClearFailures(o) \in ArtifactStatus
         /\ ClearFailures(o).attempts = o.attempts
         /\ ClearFailures(o).generatorRef = o.generatorRef
         /\ ClearFailures(o).failedAttempts = 0
         /\ Expired(o) \in ArtifactStatus /\ Forgets(Expired(o), o)
         /\ MissingObserved(o) \in ArtifactStatus
         /\ MissingObserved(o).attempts = o.attempts
         /\ MissingObserved(o).generatorRef = o.generatorRef
         /\ MissingObserved(o).failedAttempts = 0
         /\ Degraded(o) \in ArtifactStatus /\ SameLedger(Degraded(o), o)
         /\ Generating(o) \in ArtifactStatus /\ SameLedger(Generating(o), o)
         /\ Awaiting(o) \in ArtifactStatus /\ SameLedger(Awaiting(o), o)
<1>1. Forget(o) \in ArtifactStatus /\ Forgets(Forget(o), o)
  BY Zenon DEF ArtifactStatus, Forgets, Forget
<1>2. /\ ClearFailures(o) \in ArtifactStatus
      /\ ClearFailures(o).attempts = o.attempts
      /\ ClearFailures(o).generatorRef = o.generatorRef
      /\ ClearFailures(o).failedAttempts = 0
  BY Zenon DEF ArtifactStatus, ClearFailures
<1>3. Expired(o) \in ArtifactStatus /\ Forgets(Expired(o), o)
  BY ValueTypes, Zenon DEF ArtifactStatus, Forgets, Forget, Settled, Expired
<1>4. /\ MissingObserved(o) \in ArtifactStatus
      /\ MissingObserved(o).attempts = o.attempts
      /\ MissingObserved(o).generatorRef = o.generatorRef
      /\ MissingObserved(o).failedAttempts = 0
  BY ValueTypes, Zenon DEF ArtifactStatus, ClearFailures, Settled, MissingObserved
<1>5. Degraded(o) \in ArtifactStatus /\ SameLedger(Degraded(o), o)
  BY ValueTypes, Zenon DEF ArtifactStatus, SameLedger, MarkStalled, NotReady, Degraded
<1>6. Generating(o) \in ArtifactStatus /\ SameLedger(Generating(o), o)
  BY ValueTypes, Zenon DEF ArtifactStatus, SameLedger, MarkReconciling, NotReady, Generating
<1>7. Awaiting(o) \in ArtifactStatus /\ SameLedger(Awaiting(o), o)
  BY ValueTypes, ZenonT(40)
      DEF ArtifactStatus, SameLedger, MarkReconciling, NotReady, Awaiting
<1> QED
  BY <1>1, <1>2, <1>3, <1>4, <1>5, <1>6, <1>7

\* createRun and recordAttemptFailure.
LEMMA AttemptFacts ==
  ASSUME NEW o \in ArtifactStatus, NEW m \in Int
  PROVE  /\ Created(o) \in ArtifactStatus /\ Created(o).attempts = o.attempts + 1
         /\ Created(o).generatorRef = o.attempts + 1
         /\ Created(o).failedAttempts = o.failedAttempts
         /\ Adopted(o) \in ArtifactStatus /\ Adopted(o).attempts = o.attempts + 1
         /\ Adopted(o).generatorRef = o.attempts + 1
         /\ Adopted(o).failedAttempts = o.failedAttempts
         /\ RecordAttemptFailure(o, m) \in ArtifactStatus
         /\ RecordAttemptFailure(o, m).attempts = o.attempts
         /\ RecordAttemptFailure(o, m).generatorRef = 0
         /\ RecordAttemptFailure(o, m).failedAttempts = o.failedAttempts + 1
<1>1. /\ Created(o) \in ArtifactStatus /\ Created(o).attempts = o.attempts + 1
      /\ Created(o).generatorRef = o.attempts + 1
      /\ Created(o).failedAttempts = o.failedAttempts
  <2>1. Generating(o) \in ArtifactStatus /\ SameLedger(Generating(o), o)
    BY LedgerFacts
  <2>2. Generating(o).attempts + 1 = o.attempts + 1 /\ o.attempts + 1 \in Nat
    BY <2>1 DEF SameLedger, ArtifactStatus
  <2>3. Created(o) \in ArtifactStatus
    BY <2>1, <2>2, CountFacts, Zenon DEF Created
  <2> QED
    BY <2>1, <2>2, <2>3 DEF ArtifactStatus, SameLedger, Created
<1>2. /\ Adopted(o) \in ArtifactStatus /\ Adopted(o).attempts = o.attempts + 1
      /\ Adopted(o).generatorRef = o.attempts + 1
      /\ Adopted(o).failedAttempts = o.failedAttempts
  <2>1. o.attempts + 1 \in Nat
    BY DEF ArtifactStatus
  <2>2. Adopted(o) \in ArtifactStatus
    BY <2>1, CountFacts, Zenon DEF Adopted
  <2> QED
    BY <2>2 DEF ArtifactStatus, Adopted
<1>3. /\ RecordAttemptFailure(o, m) \in ArtifactStatus
      /\ RecordAttemptFailure(o, m).attempts = o.attempts
      /\ RecordAttemptFailure(o, m).generatorRef = 0
      /\ RecordAttemptFailure(o, m).failedAttempts = o.failedAttempts + 1
  <2> DEFINE p == [Forget(o) EXCEPT !.failedAttempts = @ + 1, !.lastFailureTime = o.generatorRef]
             q == IF p.failedAttempts >= m THEN [MarkStalled(p) EXCEPT !.state = "Degraded"]
                  ELSE [MarkReconciling(p) EXCEPT !.state = "Generating"]
  <2>1. /\ p \in ArtifactStatus /\ p.attempts = o.attempts /\ p.generatorRef = 0
        /\ p.failedAttempts = o.failedAttempts + 1
    <3>1. Forget(o) \in ArtifactStatus /\ Forgets(Forget(o), o)
      BY LedgerFacts
    <3>2. Forget(o).failedAttempts + 1 \in Nat /\ o.generatorRef \in Nat
      BY <3>1, SMTT(30) DEF ArtifactStatus
    <3>3. p \in ArtifactStatus
      BY <3>1, <3>2, CountFacts, Zenon
    <3> QED
      BY <3>1, <3>3 DEF ArtifactStatus, Forgets
  <2>2. q \in ArtifactStatus /\ SameLedger(q, p)
    <3> HIDE DEF p
    <3>1. CASE p.failedAttempts >= m
      BY <2>1, <3>1, ValueTypes, Zenon DEF ArtifactStatus, SameLedger, MarkStalled
    <3>2. CASE ~(p.failedAttempts >= m)
      BY <2>1, <3>2, ValueTypes, Zenon DEF ArtifactStatus, SameLedger, MarkReconciling
    <3> QED
      BY <3>1, <3>2
  <2>3. RecordAttemptFailure(o, m) = NotReady(q)
    BY DEF RecordAttemptFailure
  <2> HIDE DEF p, q
  <2> QED
    BY <2>1, <2>2, <2>3, MarkFacts DEF SameLedger
<1> QED
  BY <1>1, <1>2, <1>3

\* reconcileExisting's new baseline is a status and leaves no run in flight.
LEMMA VerifiedFacts ==
  ASSUME NEW o \in ArtifactStatus, NEW seen \in Object
  PROVE  /\ Verified(o, seen) \in ArtifactStatus /\ Verified(o, seen).attempts = o.attempts
         /\ Verified(o, seen).generatorRef = 0 /\ Verified(o, seen).failedAttempts = 0
BY ValueTypes, Zenon DEF ArtifactStatus, Object, ClearFailures, Forget, Settled, Verified

\* The retry annotation changes nothing of the ledger but the failures.
LEMMA RetryFacts ==
  ASSUME NEW o \in ArtifactStatus, NEW s \in ArtifactSpec
  PROVE  /\ HonorRetry(o, s) \in ArtifactStatus /\ HonorRetry(o, s).attempts = o.attempts
         /\ HonorRetry(o, s).generatorRef = o.generatorRef
         /\ HonorRetry(o, s).failedAttempts \in {o.failedAttempts, 0}
BY ValueTypes, ZenonT(40) DEF ArtifactStatus, ArtifactSpec, ClearFailures, HonorRetry

\* A patch writes a status, and each field of the ledger is what the reconcile
\* left if the reconcile changed it and what it was otherwise.
LEMMA MergeFacts ==
  ASSUME NEW o \in ArtifactStatus, NEW b \in ArtifactStatus, NEW s \in ArtifactStatus,
         NEW p \in Merge(o, b, s)
  PROVE  /\ p \in ArtifactStatus
         /\ p.attempts = IF o.attempts # b.attempts THEN o.attempts ELSE s.attempts
         /\ p.generatorRef =
              IF o.generatorRef # b.generatorRef THEN o.generatorRef ELSE s.generatorRef
         /\ p.failedAttempts =
              IF o.failedAttempts # b.failedAttempts THEN o.failedAttempts
                                                     ELSE s.failedAttempts
BY DEF ArtifactStatus, Merge, Change, CondChange

-----------------------------------------------------------------------------
(***************************************************************************)
(* Type correctness.                                                       *)
(***************************************************************************)

\* Deleting a run leaves a function to runs.
LEMMA DeleteRunType ==
  ASSUME TypeOK, NEW n
  PROVE  DeleteRun(n) \in [1..MaxRuns -> Run]
BY Zenon DEF TypeOK, DeleteRun, Run

\* A fault is counted within its bound.
LEMMA FaultType ==
  ASSUME TypeOK, NEW kind, Fault(kind)
  PROVE  faults' \in 0..MaxFaults
BY BoundsAssumption DEF TypeOK, Fault

\* What the cancellation at the top of reconcile leaves: the attempts are kept,
\* the run in flight is forgotten for a sensor only.
LEMMA AfterCancelFacts ==
  ASSUME TypeOK
  PROVE  /\ AfterCancel \in ArtifactStatus /\ Kept(AfterCancel, cStatus)
         /\ ~ObserveOnly(cSpec) => AfterCancel.generatorRef = cStatus.generatorRef
<1> DEFINE o == HonorRetry(cStatus, cSpec)
<1>1. /\ o \in ArtifactStatus /\ o.attempts = cStatus.attempts
      /\ o.generatorRef = cStatus.generatorRef
      /\ o.failedAttempts \in {cStatus.failedAttempts, 0}
  BY RetryFacts DEF TypeOK
<1>2. Forget(o) \in ArtifactStatus /\ Forgets(Forget(o), o)
  BY <1>1, LedgerFacts
<1>3. AfterCancel = IF MustCancel THEN Forget(o) ELSE o
  BY DEF AfterCancel
<1> HIDE DEF o
<1> QED
  BY <1>1, <1>2, <1>3 DEF Forgets, Kept, MustCancel

\* A reconcile that ends or stops at its read step.
LEMMA ReadType ==
  ASSUME TypeOK, Dequeue, NEW o \in ArtifactStatus, NEW h \in Handlers,
         NEW r \in BOOLEAN, Return(o, r) \/ Dispatch(h, o),
         spec' \in ArtifactSpec, runs' \in [1..MaxRuns -> Run], faults' \in 0..MaxFaults
  PROVE  TypeOK'
<1>1. stale' \in 0..MaxStale
  BY BoundsAssumption DEF TypeOK, Dequeue
<1>2. pc' \in Handlers /\ obj' \in ArtifactStatus /\ again' \in BOOLEAN
  BY Zenon DEF Return, Dispatch, Handlers
<1>3. klass' \in ArtifactClass /\ obs' \in Object
  BY NothingTypes DEF TypeOK, Return, Dispatch
<1> QED
  BY <1>1, <1>2, <1>3, Zenon DEF TypeOK, Dequeue

\* The cancellation deletes at most one run.
LEMMA CancelledType ==
  ASSUME TypeOK, Cancelled
  PROVE  runs' \in [1..MaxRuns -> Run]
BY DeleteRunType DEF TypeOK, Cancelled

\* A DELETE of the CR leaves a spec.
LEMMA DeleteArtifactType ==
  ASSUME TypeOK, DeleteArtifact
  PROVE  spec' \in ArtifactSpec
BY Zenon DEF TypeOK, ArtifactSpec, DeleteArtifact

\* Every read step keeps the types.
LEMMA ReadTypes ==
  ASSUME TypeOK, Read
  PROVE  TypeOK'
<1> USE AfterCancelFacts
<1>1. CASE ReadGone
  BY <1>1, Zenon DEF TypeOK, ReadGone, memory, bounds
<1>2. CASE AddFinalizer
  <2>1. WithFinalizer(cStatus, TRUE) \in ArtifactStatus
    BY MarkFacts2, Zenon DEF TypeOK
  <2> QED
    BY <1>2, <2>1, ReadType, Zenon DEF AddFinalizer, TypeOK
<1>3. CASE ReadSuspended
  <2>1. Suspended(cStatus) \in ArtifactStatus
    BY MarkFacts DEF TypeOK
  <2> QED
    BY <1>3, <2>1, ReadType, Zenon DEF ReadSuspended, Active, TypeOK
<1>4. CASE CancelFails
  <2>1. HonorRetry(cStatus, cSpec) \in ArtifactStatus
    BY RetryFacts DEF TypeOK
  <2> QED
    BY <1>4, <2>1, ReadType, FaultType, Zenon DEF CancelFails, Active, TypeOK
<1>5. CASE ClassUnreadable
  BY <1>5, ReadType, FaultType, CancelledType, Zenon
      DEF ClassUnreadable, Cancelled, Active, TypeOK
<1>6. CASE ClassNotFound
  <2>1. NotReady(AfterCancel) \in ArtifactStatus
    BY MarkFacts
  <2> QED
    BY <1>6, <2>1, ReadType, CancelledType, Zenon
        DEF ClassNotFound, Cancelled, Active, TypeOK
<1>7. CASE KeyTemplateError
  <2>1. NotReady(MarkStalled(AfterCancel)) \in ArtifactStatus
    BY MarkFacts
  <2> QED
    BY <1>7, <2>1, ReadType, CancelledType, Zenon
        DEF KeyTemplateError, Cancelled, Active, TypeOK
<1>8. WithKey(AfterCancel) \in ArtifactStatus
  BY MarkFacts
<1>9. CASE TTLExpired
  BY <1>8, <1>9, ReadType, CancelledType, DeleteArtifactType, Zenon
  DEF TTLExpired, Keyed, Cancelled, Active, TypeOK
<1>10. CASE TTLDeleteFails
  BY <1>8, <1>10, ReadType, CancelledType, FaultType, Zenon
  DEF TTLDeleteFails, Keyed, Cancelled, Active, TypeOK
<1>11. CASE StoreUnavailable
  <2>1. NotReady(WithKey(AfterCancel)) \in ArtifactStatus
    BY <1>8, MarkFacts
  <2>2. faults' \in 0..MaxFaults
    BY <1>11, FaultType DEF StoreUnavailable, TypeOK
  <2> QED
    BY <1>11, <2>1, <2>2, ReadType, CancelledType, Zenon
    DEF StoreUnavailable, Keyed, Cancelled, Active, TypeOK
<1>12. CASE Observed
  <2>1. PICK h \in Handlers : Dispatch(h, WithKey(AfterCancel))
    BY <1>12 DEF Observed, Handlers
  <2> QED
    BY <1>8, <1>12, <2>1, ReadType, CancelledType
    DEF Observed, Keyed, Cancelled, Active, TypeOK
<1>13. CASE LetGo
  <2>1. WithFinalizer(cStatus, FALSE) \in ArtifactStatus
    BY MarkFacts2, Zenon DEF TypeOK
  <2> QED
    BY <1>13, <2>1, ReadType, Zenon DEF LetGo, ReadDeleting, TypeOK
<1>14. CASE DeleteUnavailable
  <2>1. faults' \in 0..MaxFaults
    BY <1>14, FaultType DEF DeleteUnavailable, TypeOK
  <2> QED
    BY <1>14, <2>1, ReadType, Zenon DEF DeleteUnavailable, ReadDeleting, TypeOK
<1>15. CASE ObservedDeleting
  <2>1. "reconcileDelete" \in Handlers
    BY DEF Handlers
  <2> QED
    BY <1>15, <2>1, ReadType DEF ObservedDeleting, ReadDeleting, TypeOK
<1> QED
  BY <1>1, <1>2, <1>3, <1>4, <1>5, <1>6, <1>7, <1>9, <1>10, <1>11, <1>12, <1>13, <1>14,
     <1>15 DEF Read

\* A handler that finishes, or hands over to another one.
LEMMA ActType ==
  ASSUME TypeOK, NEW g, In(g), NEW h \in Handlers, pc' = h, obj' \in ArtifactStatus,
         again' \in BOOLEAN, runs' \in [1..MaxRuns -> Run], store' \in Object,
         watching' \in BOOLEAN, faults' \in 0..MaxFaults
  PROVE  TypeOK'
BY DEF TypeOK, In

\* Creating the next run leaves a function to runs.
LEMMA NewRunType ==
  ASSUME TypeOK, NEW n
  PROVE  [runs EXCEPT ![n] = [api |-> "running", worker |-> TRUE]] \in [1..MaxRuns -> Run]
BY Zenon DEF TypeOK, Run

\* Every handler keeps the types.
LEMMA ActTypes ==
  ASSUME TypeOK, Act
  PROVE  TypeOK'
<1> USE DEF Finish
<1>0. /\ "patch" \in Handlers /\ "reconcileMissing" \in Handlers
      /\ obj \in ArtifactStatus /\ obs \in Object /\ klass.maxAttempts \in Int
      /\ oSpec.ttl \in BOOLEAN
  BY DEF Handlers, TypeOK, ArtifactClass, ArtifactSpec
<1>1. CASE KeyConflict
  BY <1>0, <1>1, ActType, MarkFacts DEF KeyConflict, TypeOK
<1>2. CASE DriftRegenerate
  BY <1>0, <1>2, ActType, MarkFacts, MarkFacts2 DEF DriftRegenerate, TypeOK
<1>3. CASE DriftReported
  BY <1>0, <1>3, ActType, MarkFacts2, VerifiedFacts, Zenon DEF DriftReported, TypeOK
<1>4. CASE ArtifactAvailable
  BY <1>0, <1>4, ActType, MarkFacts2, VerifiedFacts, ZenonT(40)
      DEF ArtifactAvailable, TypeOK
<1>5. CASE ArtifactMissingObserved
  BY <1>0, <1>5, ActType, LedgerFacts DEF ArtifactMissingObserved, TypeOK
<1>6. /\ Absent(obj) \in ArtifactStatus /\ Degraded(Absent(obj)) \in ArtifactStatus
      /\ Forget(Absent(obj)) \in ArtifactStatus
      /\ Degraded(Forget(Absent(obj))) \in ArtifactStatus
      /\ Generating(Absent(obj)) \in ArtifactStatus
      /\ NotReady(Absent(obj)) \in ArtifactStatus
      /\ Awaiting(Absent(obj)) \in ArtifactStatus
      /\ NotReady(MarkStalled(Absent(obj))) \in ArtifactStatus
  BY <1>0, MarkFacts, LedgerFacts
<1>7. /\ Failure \in ArtifactStatus /\ Created(Absent(obj)) \in ArtifactStatus
      /\ Adopted(Absent(obj)) \in ArtifactStatus
  BY <1>0, <1>6, AttemptFacts DEF Failure
<1>8. CASE GeneratorNotConfigured
  <2>1. faults' \in 0..MaxFaults
    BY <1>8, FaultType DEF GeneratorNotConfigured, TypeOK
  <2>2. runs' \in [1..MaxRuns -> Run]
    BY <1>8, DeleteRunType DEF GeneratorNotConfigured, TypeOK
  <2> QED
    BY <1>0, <1>6, <1>8, <2>1, <2>2, ActType, Zenon
        DEF GeneratorNotConfigured, Missing, TypeOK
<1>9. CASE FailureBudgetExhausted
  BY <1>0, <1>6, <1>9, ActType DEF FailureBudgetExhausted, Missing, TypeOK
<1>10. CASE RunUnreadable
  BY <1>0, <1>6, <1>10, ActType, FaultType DEF RunUnreadable, InBudget, Missing, TypeOK
<1>11. CASE RunVanished
  BY <1>0, <1>6, <1>11, ActType DEF RunVanished, Evaluate, InBudget, Missing, TypeOK
<1>12. CASE GeneratorFailed
  BY <1>0, <1>7, <1>12, ActType DEF GeneratorFailed, Evaluate, InBudget, Missing, TypeOK
<1>13. CASE AwaitingArtifact
  BY <1>0, <1>6, <1>13, ActType DEF AwaitingArtifact, Evaluate, InBudget, Missing, TypeOK
<1>14. CASE SucceededWithoutArtifact
  BY <1>0, <1>7, <1>14, ActType
  DEF SucceededWithoutArtifact, Evaluate, InBudget, Missing, TypeOK
<1>15. CASE RunInProgress
  BY <1>0, <1>6, <1>15, ActType DEF RunInProgress, Evaluate, InBudget, Missing, TypeOK
<1>16. CASE ProgressDeadlineExceeded
  <2>1. faults' \in 0..MaxFaults
    BY <1>16, FaultType DEF ProgressDeadlineExceeded, TypeOK
  <2>2. runs' \in [1..MaxRuns -> Run]
    BY <1>16, DeleteRunType DEF ProgressDeadlineExceeded, TypeOK
  <2> QED
    BY <1>0, <1>7, <1>16, <2>1, <2>2, ActType
    DEF ProgressDeadlineExceeded, Evaluate, InBudget, Missing, TypeOK
<1>17. CASE BackoffPending
  BY <1>0, <1>6, <1>17, ActType DEF BackoffPending, NoRunInFlight, InBudget, Missing, TypeOK
<1>18. CASE RunTemplateError
  BY <1>0, <1>6, <1>18, ActType, Zenon
  DEF RunTemplateError, NoRunInFlight, InBudget, Missing, TypeOK
<1>19. CASE CreateRun
  BY <1>0, <1>7, <1>19, ActType, NewRunType
  DEF CreateRun, TryCreate, NoRunInFlight, InBudget, Missing, TypeOK
<1>20. CASE AdoptRun
  BY <1>0, <1>7, <1>20, ActType
  DEF AdoptRun, TryCreate, NoRunInFlight, InBudget, Missing, TypeOK
<1>21. CASE RunNotOwned
  <2>1. faults' \in 0..MaxFaults
    BY <1>21, FaultType DEF RunNotOwned, TypeOK
  <2> QED
    BY <1>0, <1>6, <1>21, <2>1, ActType
    DEF RunNotOwned, TryCreate, NoRunInFlight, InBudget, Missing, TypeOK
<1>22. CASE CreateFails
  <2>1. runs' \in [1..MaxRuns -> Run]
    BY <1>22, NewRunType, ZenonT(40) DEF CreateFails, TypeOK
  <2> QED
    BY <1>0, <1>6, <1>22, <2>1, ActType, FaultType
    DEF CreateFails, TryCreate, NoRunInFlight, InBudget, Missing, TypeOK
<1>23. ASSUME DeleteObserved
       PROVE  store' \in Object
  BY <1>23, NothingTypes DEF DeleteObserved, TypeOK
<1>24. CASE DeleteAfterExpired
  BY <1>0, <1>23, <1>24, ActType, LedgerFacts DEF DeleteAfterExpired, TypeOK
<1>25. CASE ExpireRefused
  BY <1>0, <1>25, ActType, MarkFacts, FaultType DEF ExpireRefused, DeleteRefused, TypeOK
<1>26. CASE ArtifactDeleted
  BY <1>0, <1>23, <1>26, ActType, MarkFacts2, Zenon DEF ArtifactDeleted, TypeOK
<1>27. CASE DeletionRefused
  BY <1>0, <1>27, ActType, MarkFacts, FaultType DEF DeletionRefused, DeleteRefused, TypeOK
<1> QED
  BY <1>1, <1>2, <1>3, <1>4, <1>5, <1>8, <1>9, <1>10, <1>11, <1>12, <1>13, <1>14, <1>15,
     <1>16, <1>17, <1>18, <1>19, <1>20, <1>21, <1>22, <1>24, <1>25, <1>26, <1>27 DEF Act

\* The reconcile's copies keep their types when it is over.
LEMMA IdleType ==
  ASSUME Idle
  PROVE  /\ pc' \in Handlers /\ obj' \in ArtifactStatus /\ base' \in ArtifactStatus
         /\ oSpec' \in ArtifactSpec /\ klass' \in ArtifactClass /\ obs' \in Object
         /\ again' \in BOOLEAN
BY NothingTypes, Zenon DEF Idle, Handlers

\* The patch, and what can prevent it, keep the types.
LEMMA PatchTypes ==
  ASSUME TypeOK, Patch \/ PatchNotFound \/ PatchFails \/ Crash
  PROVE  TypeOK'
<1>1. CASE Patch
  <2>1. status' \in ArtifactStatus
    BY <1>1, MergeFacts DEF Patch, TypeOK
  <2>2. spec' \in ArtifactSpec
    BY <1>1, <2>1, Zenon DEF Patch, TypeOK, ArtifactSpec, ArtifactStatus
  <2> QED
    BY <1>1, <2>1, <2>2, IdleType DEF Patch, TypeOK, bounds
<1>2. CASE PatchNotFound
  BY <1>2, IdleType DEF PatchNotFound, TypeOK, bounds
<1>3. CASE PatchFails
  BY <1>3, IdleType, FaultType DEF PatchFails, TypeOK
<1>4. CASE Crash
  BY <1>4, IdleType, FaultType, ZenonT(40) DEF Crash, TypeOK
<1> QED
  BY <1>1, <1>2, <1>3, <1>4

\* The cluster, the engine, the users and the other writers keep the types.
LEMMA EnvironmentTypes ==
  ASSUME TypeOK, SyncCache \/ Engine \/ User \/ Others
  PROVE  TypeOK'
<1> USE DEF TypeOK, memory
<1>1. CASE SyncCache
  BY <1>1 DEF SyncCache, bounds
<1>2. CASE Engine
  <2>1. PICK n \in 1..MaxRuns :
          \/ RunSucceeds(n) \/ RunFails(n) \/ Upload(n) \/ StopWorker(n) \/ CollectRun(n)
          \/ DeleteRunByHand(n)
    BY <1>2, SMTT(30) DEF Engine
  <2>2. ASSUME NEW s \in {"none", "running", "succeeded", "failed", "alien"},
               NEW w \in BOOLEAN, RunChanges(n, s, w), store' = store, ops' \in 0..MaxOps
        PROVE  TypeOK'
    <3>1. runs' \in [1..MaxRuns -> Run]
      BY <2>2 DEF RunChanges, Run
    <3> QED
      BY <2>2, <3>1 DEF RunChanges, Environment
  <2>3. runs[n].worker \in BOOLEAN
    BY DEF Run
  <2>4. [runs EXCEPT ![n].worker = FALSE] \in [1..MaxRuns -> Run]
    BY Zenon DEF Run
  <2>5. CASE RunSucceeds(n) \/ RunFails(n) \/ CollectRun(n)
    BY <2>2, <2>3, <2>5, Zenon DEF RunSucceeds, RunFails, CollectRun
  <2>6. CASE Upload(n)
    <3>1. store' \in Object
      BY <2>6 DEF Upload, Object
    <3> QED
      BY <2>4, <2>6, <3>1 DEF Upload, Environment
  <2>7. CASE StopWorker(n)
    BY <2>4, <2>7 DEF StopWorker, Environment
  <2>8. CASE DeleteRunByHand(n)
    <3>1. ops' \in 0..MaxOps
      BY <2>8, BoundsAssumption, SMTT(30) DEF DeleteRunByHand, Op
    <3> QED
      BY <2>2, <2>3, <2>8, <3>1 DEF DeleteRunByHand
  <2> QED
    BY <2>1, <2>5, <2>6, <2>7, <2>8
<1>3. CASE User
  <2>1. ASSUME NEW kind, Op(kind)
        PROVE  ops' \in 0..MaxOps
    BY <2>1, BoundsAssumption DEF Op
  <2>2. ASSUME NEW s \in ArtifactSpec, Edits(s), ops' \in 0..MaxOps
        PROVE  TypeOK'
    BY <2>2 DEF Edits, Environment
  <2>3. /\ [spec EXCEPT !.managementPolicy = IF @ = "Full" THEN "Observe" ELSE "Full"]
              \in ArtifactSpec
        /\ [spec EXCEPT !.suspend = ~@] \in ArtifactSpec
    BY ZenonT(40) DEF ArtifactSpec
  <2>4. [spec EXCEPT !.retry = @ + 1] \in ArtifactSpec
    <3>1. spec.retry + 1 \in Nat
      BY DEF ArtifactSpec
    <3>2. ASSUME NEW m \in Nat
          PROVE  [spec EXCEPT !.retry = m] \in ArtifactSpec
      BY <3>2 DEF ArtifactSpec
    <3> QED
      BY <3>1, <3>2
  <2>5. CASE FlipPolicy \/ ToggleSuspend \/ AnnotateRetry
    BY <2>1, <2>2, <2>3, <2>4, <2>5 DEF FlipPolicy, ToggleSuspend, AnnotateRetry
  <2>6. CASE UserDelete
    BY <2>1, <2>6, DeleteArtifactType DEF UserDelete, Environment
  <2>7. CASE EditClass
    BY <2>1, <2>7, InputsAssumption DEF EditClass, Environment
  <2>8. ASSUME NEW limit \in {"ttl", "deleteAfter"}, Age(limit)
        PROVE  TypeOK'
    BY <2>8 DEF Age, Environment
  <2> QED
    BY <1>3, <2>5, <2>6, <2>7, <2>8 DEF User
<1>4. CASE Others
  <2>1. PICK o \in Objects \cup {NoObject} : Write(o)
    BY <1>4 DEF Others
  <2>2. o \in Object
    BY <2>1, InputsAssumption, NothingTypes
  <2>3. writes' \in 0..MaxWrites
    BY <2>1, BoundsAssumption DEF Write
  <2> QED
    BY <2>1, <2>2, <2>3 DEF Write, Environment
<1> QED
  BY <1>1, <1>2, <1>3, <1>4

\* Every variable keeps its type in every behaviour of the reconcile loop and
\* its environment (in particular, no counter of the status becomes negative).
THEOREM TypeCorrect == Spec => []TypeOK
<1>1. Init => TypeOK
  <2> SUFFICES ASSUME Init
               PROVE  TypeOK
    OBVIOUS
  <2>1. spec \in ArtifactSpec /\ class \in ArtifactClass /\ store \in Object
    BY InputsAssumption, NothingTypes DEF Init
  <2>2. runs \in [1..MaxRuns -> Run]
    <3>1. NoRun \in Run /\ [NoRun EXCEPT !.api = "alien"] \in Run
      BY Zenon DEF Run, NoRun
    <3>2. [n \in 1..MaxRuns |-> NoRun] \in [1..MaxRuns -> Run]
      BY <3>1
    <3>3. [n \in 1..MaxRuns |-> IF n = 1 THEN [NoRun EXCEPT !.api = "alien"] ELSE NoRun]
            \in [1..MaxRuns -> Run]
      BY <3>1
    <3> QED
      BY <3>2, <3>3 DEF Init
  <2>3. /\ ops \in 0..MaxOps /\ faults \in 0..MaxFaults /\ stale \in 0..MaxStale
        /\ writes \in 0..MaxWrites
    BY BoundsAssumption DEF Init
  <2>4. /\ cSpec \in ArtifactSpec /\ oSpec \in ArtifactSpec /\ status \in ArtifactStatus
        /\ cStatus \in ArtifactStatus /\ obj \in ArtifactStatus /\ base \in ArtifactStatus
        /\ klass \in ArtifactClass /\ obs \in Object
    BY <2>1, NothingTypes DEF Init
  <2>5. /\ due \subseteq {"ttl", "deleteAfter"} /\ queued \in BOOLEAN
        /\ watching \in BOOLEAN /\ again \in BOOLEAN /\ pc \in Handlers
    BY ZenonT(40) DEF Init, Handlers
  <2> QED
    BY <2>1, <2>2, <2>3, <2>4, <2>5 DEF TypeOK
<1>2. TypeOK /\ [Next]_vars => TypeOK'
  <2> SUFFICES ASSUME TypeOK, [Next]_vars
               PROVE  TypeOK'
    OBVIOUS
  <2>1. CASE Next
    BY <2>1, ReadTypes, ActTypes, PatchTypes, EnvironmentTypes DEF Next, Reconcile
  <2>2. CASE UNCHANGED vars
    BY <2>2, SMTT(30) DEF TypeOK, vars
  <2> QED
    BY <2>1, <2>2
<1> QED
  BY <1>1, <1>2, PTL DEF Spec

-----------------------------------------------------------------------------
(***************************************************************************)
(* The ledger of attempts.                                                 *)
(***************************************************************************)

\* A read step starts from a balanced copy that the API server follows, and what
\* it does before the patch or the handler only forgets or clears.
LEMMA ReadLedger ==
  ASSUME TypeOK, Ledger, Dequeue, UNCHANGED status, NEW o, Kept(o, cStatus),
         NEW h \in Handlers \ {"idle", "patch"}, NEW r,
         \/ Return(o, r)
         \/ /\ Dispatch(h, o)
            /\ ~ObserveOnly(cSpec) => o.generatorRef = cStatus.generatorRef
            /\ h = "reconcileMissing" => ~ObserveOnly(cSpec)
  PROVE  Ledger'
<1>1. /\ base' = cStatus /\ oSpec' = cSpec /\ status' = status /\ cStatus' = cStatus
      /\ obj' = o /\ pc' \in {"patch", h}
  BY ZenonT(40) DEF Dequeue, Return, Dispatch
<1>2. Balanced(status)' /\ Balanced(cStatus)' /\ Follows(status, cStatus)'
  BY <1>1 DEF Ledger, Balanced, InFlight, Follows
<1>3. Balanced(base)' /\ Follows(status, base)' /\ Follows(cStatus, base)'
  BY <1>1, <1>2, SMTT(30) DEF Balanced, InFlight, Follows
<1>4. Kept(obj, base)'
  BY <1>1 DEF Kept
<1>5. pc' # "patch" => /\ (~ObserveOnly(oSpec) => obj.generatorRef = base.generatorRef)'
                       /\ (pc = "reconcileMissing" => ~ObserveOnly(oSpec))'
  BY <1>1, SMTT(30) DEF Return, Dispatch, ObserveOnly
<1> QED
  BY <1>2, <1>3, <1>4, <1>5, ZenonT(40) DEF Ledger

\* A handler turns a copy that is kept into one that is kept, charged or started.
LEMMA ActLedger ==
  ASSUME TypeOK, Ledger, NEW g \in Handlers \ {"idle", "patch"}, In(g), pc' = "patch",
         Kept(obj', base) \/ Charged(obj', base) \/ Started(obj', base)
  PROVE  Ledger'
<1>1. base' = base /\ oSpec' = oSpec /\ status' = status /\ cStatus' = cStatus
  BY DEF In
<1>2. pc # "idle"
  BY DEF In
<1>3. /\ Balanced(status)' /\ Balanced(cStatus)' /\ Follows(status, cStatus)'
      /\ Balanced(base)' /\ Follows(status, base)' /\ Follows(cStatus, base)'
  BY <1>1, <1>2 DEF Ledger, Balanced, InFlight, Follows
<1>4. (Kept(obj, base) \/ Charged(obj, base) \/ Started(obj, base))'
  BY <1>1 DEF Kept, Charged, Started
<1> QED
  BY <1>3, <1>4 DEF Ledger

\* The patch applied to a status that the reconcile's copy may be behind of.
LEMMA PatchLedger ==
  ASSUME NEW o \in ArtifactStatus, NEW b \in ArtifactStatus, NEW c \in ArtifactStatus,
         NEW s \in ArtifactStatus, NEW p \in Merge(o, b, s),
         Balanced(b), Balanced(c), Balanced(s), Follows(s, b), Follows(c, b), Follows(s, c),
         Kept(o, b) \/ Charged(o, b) \/ Started(o, b)
  PROVE  Balanced(p) /\ Follows(p, c) /\ p.attempts >= s.attempts
<1>1. /\ p \in ArtifactStatus
      /\ p.attempts = IF o.attempts # b.attempts THEN o.attempts ELSE s.attempts
      /\ p.generatorRef =
           IF o.generatorRef # b.generatorRef THEN o.generatorRef ELSE s.generatorRef
      /\ p.failedAttempts =
           IF o.failedAttempts # b.failedAttempts THEN o.failedAttempts ELSE s.failedAttempts
  BY MergeFacts
<1>2. \A x \in {o, b, c, s, p} :
        x.attempts \in Nat /\ x.generatorRef \in Nat /\ x.failedAttempts \in Nat
  BY <1>1 DEF ArtifactStatus
<1>3. CASE Kept(o, b)
  BY <1>1, <1>2, <1>3 DEF Kept, Balanced, InFlight, Follows
<1>4. CASE Charged(o, b)
  BY <1>1, <1>2, <1>4 DEF Charged, Balanced, InFlight, Follows
<1>5. CASE Started(o, b)
  BY <1>1, <1>2, <1>5 DEF Started, Balanced, InFlight, Follows
<1> QED
  BY <1>3, <1>4, <1>5

\* Every read step keeps the ledger.
LEMMA ReadsLedger ==
  ASSUME TypeOK, Ledger, Read
  PROVE  Ledger'
<1> DEFINE after == WithKey(AfterCancel)
<1>1. /\ AfterCancel \in ArtifactStatus /\ Kept(AfterCancel, cStatus)
      /\ ~ObserveOnly(cSpec) => AfterCancel.generatorRef = cStatus.generatorRef
  BY AfterCancelFacts
<1>2. ASSUME NEW o, NEW p, SameLedger(p, o), Kept(o, cStatus)
      PROVE  Kept(p, cStatus)
  BY <1>2 DEF SameLedger, Kept
<1>3. ASSUME NEW o
      PROVE  SameLedger(o, o)
  BY DEF SameLedger
<1>4. Kept(cStatus, cStatus)
  BY DEF Kept
<1>5. ASSUME Dequeue, UNCHANGED status, NEW o, NEW r, Return(o, r), Kept(o, cStatus)
      PROVE  Ledger'
  <2>1. "reconcileDelete" \in Handlers \ {"idle", "patch"}
    BY SMTT(30) DEF Handlers
  <2> QED
    BY <1>5, <2>1, ReadLedger
<1>6. /\ after \in ArtifactStatus /\ Kept(after, cStatus)
      /\ ~ObserveOnly(cSpec) => after.generatorRef = cStatus.generatorRef
  <2>1. after \in ArtifactStatus /\ SameLedger(after, AfterCancel)
    BY <1>1, MarkFacts
  <2> QED
    BY <1>1, <2>1 DEF SameLedger, Kept
<1> HIDE DEF after
<1>7. CASE ReadGone
  BY <1>7 DEF ReadGone, memory, Ledger, Balanced, InFlight, Follows, Kept, Charged, Started
<1>8. CASE AddFinalizer
  <2>1. Kept(WithFinalizer(cStatus, TRUE), cStatus)
    BY <1>2, <1>4, MarkFacts2, Zenon DEF TypeOK
  <2> QED
    BY <1>5, <1>8, <2>1, Zenon DEF AddFinalizer, Dequeue
<1>9. CASE ReadSuspended
  <2>1. Kept(Suspended(cStatus), cStatus)
    BY <1>2, <1>4, MarkFacts DEF TypeOK
  <2> QED
    BY <1>5, <1>9, <2>1, Zenon DEF ReadSuspended, Active, Dequeue
<1>10. CASE CancelFails
  <2>1. Kept(HonorRetry(cStatus, cSpec), cStatus)
    BY RetryFacts, Zenon DEF TypeOK, Kept
  <2> QED
    BY <1>5, <1>10, <2>1, Zenon DEF CancelFails, Active, Dequeue
<1>11. CASE ClassUnreadable
  BY <1>1, <1>5, <1>11, Zenon DEF ClassUnreadable, Cancelled, Active, Dequeue
<1>12. CASE ClassNotFound
  <2>1. Kept(NotReady(AfterCancel), cStatus)
    BY <1>1, <1>2, MarkFacts
  <2> QED
    BY <1>5, <1>12, <2>1, ZenonT(40) DEF ClassNotFound, Cancelled, Active, Dequeue
<1>13. CASE KeyTemplateError
  <2>1. Kept(NotReady(MarkStalled(AfterCancel)), cStatus)
    BY <1>1, <1>2, MarkFacts
  <2> QED
    BY <1>5, <1>13, <2>1, Zenon DEF KeyTemplateError, Cancelled, Active, Dequeue
<1>14. CASE TTLExpired \/ TTLDeleteFails
  BY <1>5, <1>6, <1>14, Zenon
      DEF TTLExpired, TTLDeleteFails, Keyed, Cancelled, Active, Dequeue, after
<1>15. CASE StoreUnavailable
  <2>1. Kept(NotReady(after), cStatus)
    BY <1>2, <1>6, MarkFacts
  <2> QED
    BY <1>5, <1>15, <2>1, ZenonT(40)
        DEF StoreUnavailable, Keyed, Cancelled, Active, Dequeue, after
<1>16. CASE Observed
  <2>1. PICK h \in Handlers \ {"idle", "patch"} :
          Dispatch(h, after) /\ (h = "reconcileMissing" => ~ObserveOnly(cSpec))
    BY <1>16 DEF Observed, Handlers, after
  <2> QED
    BY <1>6, <1>16, <2>1, ReadLedger, ZenonT(40)
        DEF Observed, Keyed, Cancelled, Active, Dequeue
<1>17. CASE LetGo
  <2>1. Kept(WithFinalizer(cStatus, FALSE), cStatus)
    BY <1>2, <1>4, MarkFacts2, Zenon DEF TypeOK
  <2> QED
    BY <1>5, <1>17, <2>1, Zenon DEF LetGo, ReadDeleting, Dequeue
<1>18. CASE DeleteUnavailable
  BY <1>4, <1>5, <1>18, Zenon DEF DeleteUnavailable, ReadDeleting, Dequeue
<1>19. CASE ObservedDeleting
  <2>1. "reconcileDelete" \in Handlers \ {"idle", "patch"}
    BY DEF Handlers
  <2> QED
    BY <1>4, <1>19, <2>1, ReadLedger, ZenonT(40) DEF ObservedDeleting, ReadDeleting, Dequeue
<1> QED
  BY <1>7, <1>8, <1>9, <1>10, <1>11, <1>12, <1>13, <1>14, <1>15, <1>16, <1>17, <1>18, <1>19, SMTT(30)
  DEF Read

\* Every handler keeps the ledger: a failure is charged only to the run in flight
\* of the copy, and a run is started only from a copy without one.
LEMMA ActsLedger ==
  ASSUME TypeOK, Ledger, Act
  PROVE  Ledger'
<1> USE DEF Finish
<1> DEFINE hs == Handlers \ {"idle", "patch"}
           absent == Absent(obj)
<1>1. {"reconcileExisting", "reconcileMissing", "reconcileMissingObserved",
       "reconcileExpired", "reconcileDelete"} \subseteq hs
  BY DEF Handlers
<1>2. obj \in ArtifactStatus /\ base \in ArtifactStatus /\ obs \in Object
  BY SMTT(30) DEF TypeOK
<1>3. ASSUME NEW g \in hs, In(g)
      PROVE  /\ Kept(obj, base) /\ Balanced(base)
             /\ ~ObserveOnly(oSpec) => obj.generatorRef = base.generatorRef
             /\ g = "reconcileMissing" => ~ObserveOnly(oSpec)
  BY <1>3, ZenonT(40) DEF Ledger, In
<1>4. ASSUME NEW g \in hs, In(g), pc' = "patch",
             SameLedger(obj', obj) \/ Forgets(obj', obj)
      PROVE  Ledger'
  BY <1>3, <1>4, ActLedger, ZenonT(40) DEF Kept, SameLedger, Forgets
<1>5. ASSUME NEW g \in hs, In(g), pc' = "patch", obj'.attempts = obj.attempts,
             obj'.generatorRef \in {obj.generatorRef, 0}, obj'.failedAttempts = 0
      PROVE  Ledger'
  BY <1>3, <1>5, ActLedger DEF Kept
<1>6. absent \in ArtifactStatus /\ SameLedger(absent, obj)
  BY <1>2, MarkFacts
<1>7. ASSUME NEW o, NEW p, NEW q, SameLedger(p, o), SameLedger(q, p)
      PROVE  SameLedger(q, o)
  BY <1>7 DEF SameLedger
<1> HIDE DEF hs, absent
<1>8. CASE KeyConflict
  BY <1>1, <1>2, <1>4, <1>8, MarkFacts, SMTT(30) DEF KeyConflict
<1>9. CASE DriftRegenerate
  <2>1. SameLedger(obj', obj)
    <3> DEFINE d == RecordDrift(obj, klass.drift)
    <3>1. d \in ArtifactStatus /\ SameLedger(d, obj)
      BY <1>2, MarkFacts2, ZenonT(40)
    <3>2. SameLedger(WithoutDigest(d), d) /\ obj' = WithoutDigest(d)
      BY <1>9, <3>1, MarkFacts DEF DriftRegenerate
    <3> HIDE DEF d
    <3> QED
      BY <3>1, <3>2 DEF SameLedger
  <2>2. /\ base' = base /\ oSpec' = oSpec /\ status' = status /\ cStatus' = cStatus
        /\ pc = "reconcileExisting" /\ pc' = "reconcileMissing"
    BY <1>9 DEF DriftRegenerate, In
  <2>3. Kept(obj, base) /\ obj.generatorRef = base.generatorRef /\ ~ObserveOnly(oSpec)
    BY <1>1, <1>3, <1>9 DEF DriftRegenerate, Regenerates
  <2>4. /\ Balanced(status)' /\ Balanced(cStatus)' /\ Follows(status, cStatus)'
        /\ Balanced(base)' /\ Follows(status, base)' /\ Follows(cStatus, base)'
    BY <2>2 DEF Ledger, Balanced, InFlight, Follows
  <2>5. Kept(obj, base)' /\ (obj.generatorRef = base.generatorRef /\ ~ObserveOnly(oSpec))'
    BY <2>1, <2>2, <2>3 DEF Kept, SameLedger, ObserveOnly
  <2> QED
    BY <2>2, <2>4, <2>5 DEF Ledger
<1>10. CASE DriftReported
  <2>1. LET d == RecordDrift(obj, klass.drift) IN d \in ArtifactStatus /\ SameLedger(d, obj)
    BY <1>2, MarkFacts2, Zenon
  <2> QED
    BY <1>1, <1>2, <1>5, <1>10, <2>1, VerifiedFacts DEF DriftReported, SameLedger
<1>11. CASE ArtifactAvailable
  <2>1. LET d == Rebaselined(obj, obs) IN d \in ArtifactStatus /\ SameLedger(d, obj)
    BY <1>2, MarkFacts2, ZenonT(40)
  <2> QED
    BY <1>1, <1>2, <1>5, <1>11, <2>1, VerifiedFacts DEF ArtifactAvailable, SameLedger
<1>12. CASE ArtifactMissingObserved
  BY <1>1, <1>2, <1>5, <1>12, LedgerFacts DEF ArtifactMissingObserved
<1>13. CASE GeneratorNotConfigured
  <2>1. SameLedger(Degraded(absent), obj)
    BY <1>6, <1>7, LedgerFacts, SMTT(30)
  <2>2. Forgets(Degraded(Forget(absent)), obj)
    BY <1>6, LedgerFacts, SMTT(30) DEF Forgets, SameLedger
  <2> QED
    BY <1>1, <1>4, <1>6, <1>13, <2>1, <2>2 DEF GeneratorNotConfigured, Missing, absent
<1>14. CASE FailureBudgetExhausted \/ RunUnreadable \/ RunVanished \/ BackoffPending
  <2>1. SameLedger(Degraded(absent), obj) /\ SameLedger(Generating(absent), obj)
    BY <1>6, <1>7, LedgerFacts, SMTT(30)
  <2>2. Forgets(Forget(absent), obj)
    BY <1>6, LedgerFacts, SMTT(30) DEF Forgets, SameLedger
  <2> QED
    BY <1>1, <1>4, <1>6, <1>14, <2>1, <2>2
    DEF FailureBudgetExhausted, RunUnreadable, RunVanished, BackoffPending, NoRunInFlight,
        Evaluate, InBudget, Missing, absent
<1>15. CASE AwaitingArtifact \/ RunInProgress
  <2>1. SameLedger(Awaiting(absent), obj) /\ SameLedger(Generating(absent), obj)
    BY <1>6, <1>7, LedgerFacts
  <2> QED
    BY <1>1, <1>4, <1>15, <2>1, ZenonT(40)
    DEF AwaitingArtifact, RunInProgress, Evaluate, InBudget, Missing, absent
<1>16. CASE GeneratorFailed \/ SucceededWithoutArtifact \/ ProgressDeadlineExceeded
  <2>1. In("reconcileMissing") /\ obj.generatorRef # 0 /\ pc' = "patch" /\ obj' = Failure
    BY <1>16 DEF GeneratorFailed, SucceededWithoutArtifact, ProgressDeadlineExceeded,
                 Evaluate, InBudget, Missing
  <2>2. /\ Failure.attempts = obj.attempts /\ Failure.generatorRef = 0
        /\ Failure.failedAttempts = obj.failedAttempts + 1
    <3>1. klass.maxAttempts \in Int
      BY DEF TypeOK, ArtifactClass
    <3>2. Failure = RecordAttemptFailure(absent, klass.maxAttempts)
      BY DEF Failure, absent
    <3> QED
      BY <1>6, <3>1, <3>2, AttemptFacts DEF SameLedger
  <2>3. Kept(obj, base) /\ Balanced(base) /\ obj.generatorRef = base.generatorRef
    BY <1>1, <1>3, <2>1
  <2>4. /\ obj.failedAttempts \in Nat /\ base.failedAttempts \in Nat
        /\ base.attempts \in Nat
    BY <1>2 DEF ArtifactStatus
  <2>5. Charged(obj', base)
    BY <2>1, <2>2, <2>3, <2>4 DEF Charged, Kept, Balanced, InFlight
  <2> QED
    BY <1>1, <2>1, <2>5, ActLedger, SMTT(30) DEF hs
<1>17. CASE CreateRun \/ AdoptRun
  <2>1. /\ In("reconcileMissing") /\ obj.generatorRef = 0 /\ pc' = "patch"
        /\ obj' \in {Created(absent), Adopted(absent)}
    BY <1>17 DEF CreateRun, AdoptRun, TryCreate, NoRunInFlight, InBudget, Missing, absent
  <2>2. /\ obj'.attempts = obj.attempts + 1 /\ obj'.generatorRef = obj.attempts + 1
        /\ obj'.failedAttempts = obj.failedAttempts
    BY <1>6, <2>1, AttemptFacts DEF SameLedger
  <2>3. Kept(obj, base) /\ obj.generatorRef = base.generatorRef
    BY <1>1, <1>3, <2>1
  <2>4. Started(obj', base)
    BY <2>1, <2>2, <2>3, SMTT(30) DEF Started, Kept
  <2> QED
    BY <1>1, <2>1, <2>4, ActLedger DEF hs
<1>18. CASE RunTemplateError \/ RunNotOwned \/ CreateFails
  <2>1. SameLedger(NotReady(MarkStalled(absent)), obj) /\ SameLedger(NotReady(absent), obj)
    BY <1>6, <1>7, MarkFacts, SMTT(30)
  <2> QED
    BY <1>1, <1>4, <1>18, <2>1
    DEF RunTemplateError, RunNotOwned, CreateFails, TryCreate, NoRunInFlight, InBudget,
        Missing, absent
<1>19. CASE DeleteAfterExpired \/ ExpireRefused
  <2>1. Forgets(Expired(obj), obj) /\ SameLedger(NotReady(obj), obj)
    BY <1>2, MarkFacts, LedgerFacts
  <2> QED
    BY <1>1, <1>4, <1>19, <2>1 DEF DeleteAfterExpired, ExpireRefused
<1>20. CASE ArtifactDeleted \/ DeletionRefused
  BY <1>1, <1>2, <1>4, <1>20, MarkFacts, MarkFacts2, ZenonT(40)
      DEF ArtifactDeleted, DeletionRefused
<1> QED
  BY <1>8, <1>9, <1>10, <1>11, <1>12, <1>13, <1>14, <1>15, <1>16, <1>17, <1>18, <1>19, <1>20
  DEF Act

\* A step that changes no copy of the status keeps the ledger.
LEMMA LedgerUnchanged ==
  ASSUME Ledger, UNCHANGED <<status, cStatus, pc, obj, base, oSpec>>
  PROVE  Ledger'
BY DEF Ledger, Balanced, InFlight, Follows, Kept, Charged, Started, ObserveOnly

\* Every step keeps the ledger.
LEMMA NextLedger ==
  ASSUME TypeOK, Ledger, [Next]_vars
  PROVE  Ledger'
<1>1. CASE Read \/ Act
  BY <1>1, ReadsLedger, ActsLedger
<1>2. CASE Patch
  <2>1. Balanced(status') /\ Follows(status', cStatus)
    BY <1>2, PatchLedger DEF Patch, Ledger, TypeOK
  <2>2. Balanced(cStatus') /\ Follows(status', cStatus') /\ pc' = "idle"
    BY <1>2, <2>1, SMTT(30) DEF Patch, Idle, Ledger
  <2> QED
    BY <2>1, <2>2, ZenonT(40) DEF Ledger
<1>3. CASE PatchNotFound \/ PatchFails
  <2>1. status' = status /\ cStatus' = cStatus /\ pc' = "idle"
    BY <1>3, ZenonT(40) DEF PatchNotFound, PatchFails, Idle
  <2> QED
    BY <2>1 DEF Ledger, Balanced, InFlight, Follows
<1>4. CASE Crash
  <2>1. status' = status /\ cStatus' = status /\ pc' = "idle"
    BY <1>4, ZenonT(40) DEF Crash, Idle
  <2> QED
    BY <2>1 DEF Ledger, Balanced, InFlight, Follows
<1>5. CASE SyncCache
  <2>1. /\ cStatus' = status /\ status' = status /\ pc' = pc /\ obj' = obj /\ base' = base
        /\ oSpec' = oSpec
    BY <1>5, SMTT(30) DEF SyncCache, memory
  <2>2. Balanced(status') /\ Balanced(cStatus') /\ Follows(status', cStatus')
    BY <2>1, SMTT(30) DEF Ledger, Balanced, InFlight, Follows
  <2>3. pc # "idle" => Balanced(base') /\ Follows(status', base') /\ Follows(cStatus', base')
    BY <2>1 DEF Ledger, Balanced, InFlight, Follows
  <2> QED
    BY <2>1, <2>2, <2>3 DEF Ledger, Kept, Charged, Started, ObserveOnly
<1>6. CASE Engine
  BY <1>6, LedgerUnchanged
  DEF Engine, RunSucceeds, RunFails, Upload, StopWorker, CollectRun, DeleteRunByHand,
      RunChanges, Environment, memory
<1>7. CASE User
  BY <1>7, LedgerUnchanged
  DEF User, FlipPolicy, ToggleSuspend, AnnotateRetry, UserDelete, EditClass, Age, Edits,
      Environment, memory
<1>8. CASE Others
  BY <1>8, LedgerUnchanged DEF Others, Write, Environment, memory
<1>9. CASE UNCHANGED vars
  BY <1>9, LedgerUnchanged DEF vars
<1> QED
  BY <1>1, <1>2, <1>3, <1>4, <1>5, <1>6, <1>7, <1>8, <1>9 DEF Next, Reconcile

\* The ledger of attempts is kept in every behaviour, whatever the cache serves,
\* whichever patches are lost and wherever the process restarts.
THEOREM LedgerHolds == Spec => []Ledger
<1>1. Init => Ledger
  <2>1. /\ NewStatus.attempts = 0 /\ NewStatus.generatorRef = 0
        /\ NewStatus.failedAttempts = 0
    BY DEF NewStatus
  <2>2. Balanced(NewStatus) /\ Follows(NewStatus, NewStatus)
    BY <2>1 DEF Balanced, InFlight, Follows
  <2> QED
    BY <2>2, SMTT(30) DEF Init, Ledger
<1>2. TypeOK /\ Ledger /\ [Next]_vars => Ledger'
  BY NextLedger
<1> QED
  BY <1>1, <1>2, TypeCorrect, PTL DEF Spec

\* The recorded run in flight is always the latest attempt.
THEOREM RefIsLatest == Spec => []RefIsLatestAttempt
<1>1. Ledger => RefIsLatestAttempt
  BY DEF Ledger, Balanced, RefIsLatestAttempt
<1> QED
  BY <1>1, LedgerHolds, PTL

\* No run is ever charged twice to the failure budget.
THEOREM FailuresDistinct == Spec => []FailuresAreDistinctRuns
<1>1. Ledger => FailuresAreDistinctRuns
  BY DEF Ledger, Balanced, InFlight, FailuresAreDistinctRuns
<1> QED
  BY <1>1, LedgerHolds, PTL

\* A run is created under the name of the current attempt or the next one.
LEMMA CreatedName ==
  ASSUME TypeOK, Ledger, CreateRun \/ CreateFails, NEW n \in 1..MaxRuns, Creates(n)
  PROVE  n \in {status.attempts, status.attempts + 1}
<1>1. /\ pc = "reconcileMissing" /\ obj.generatorRef = 0
      /\ \/ runs' = runs
         \/ runs' = [runs EXCEPT ![NextRun] = [api |-> "running", worker |-> TRUE]]
  BY Zenon DEF CreateRun, CreateFails, TryCreate, NoRunInFlight, InBudget, Missing, In
<1>2. n = NextRun
  BY <1>1, ZenonT(40) DEF Creates, TypeOK
<1>3. /\ obj.attempts = base.attempts /\ Follows(status, base)
      /\ obj.generatorRef = base.generatorRef
  BY <1>1 DEF Ledger, Kept
<1>4. status.attempts \in Nat /\ base.attempts \in Nat
  BY DEF TypeOK, ArtifactStatus
<1> QED
  BY <1>2, <1>3, <1>4, SMTT(30) DEF NextRun, Follows

\* Deleting a run sets none running.
LEMMA DeleteStartsNothing ==
  ASSUME TypeOK, NEW m, runs' \in {runs, DeleteRun(m)}, NEW n \in 1..MaxRuns,
         runs'[n].api = "running"
  PROVE  runs[n].api = "running"
<1>1. runs \in [1..MaxRuns -> Run]
  BY DEF TypeOK
<1> QED
  BY <1>1 DEF Run, DeleteRun

\* No step but a create sets a run running.
LEMMA OnlyCreateStarts ==
  ASSUME TypeOK, [Next]_vars, ~CreateRun, ~CreateFails, NEW n \in 1..MaxRuns,
         runs'[n].api = "running"
  PROVE  runs[n].api = "running"
<1>1. CASE Read
  <2>1. runs' \in {runs, DeleteRun(cStatus.generatorRef)}
    BY <1>1, Zenon
        DEF Read, ReadGone, AddFinalizer, ReadSuspended, CancelFails, ClassUnreadable,
                ClassNotFound, KeyTemplateError, TTLExpired, TTLDeleteFails,
                StoreUnavailable, Observed, LetGo, DeleteUnavailable, ObservedDeleting,
                ReadDeleting, Keyed, Cancelled
  <2> QED
    BY <2>1, DeleteStartsNothing
<1>2. CASE Act
  <2>1. runs' \in {runs, DeleteRun(obj.generatorRef)}
    BY <1>2, ZenonT(40)
        DEF Act, KeyConflict, DriftRegenerate, DriftReported, ArtifactAvailable,
                ArtifactMissingObserved, GeneratorNotConfigured, FailureBudgetExhausted,
                RunUnreadable, RunVanished, GeneratorFailed, AwaitingArtifact,
                SucceededWithoutArtifact, RunInProgress, ProgressDeadlineExceeded,
                BackoffPending, RunTemplateError, AdoptRun, RunNotOwned,
                DeleteAfterExpired, ExpireRefused, ArtifactDeleted, DeletionRefused
  <2> QED
    BY <2>1, DeleteStartsNothing
<1>3. CASE Engine
  <2>1. PICK m \in 1..MaxRuns :
          \/ RunSucceeds(m) \/ RunFails(m) \/ Upload(m) \/ StopWorker(m) \/ CollectRun(m)
          \/ DeleteRunByHand(m)
    BY <1>3 DEF Engine
  <2>2. CASE Upload(m) \/ StopWorker(m)
    <3>1. runs' = [runs EXCEPT ![m].worker = FALSE]
      BY <2>2 DEF Upload, StopWorker
    <3> QED
      BY <3>1 DEF TypeOK, Run
  <2>3. CASE RunSucceeds(m) \/ RunFails(m) \/ CollectRun(m) \/ DeleteRunByHand(m)
    <3>0. runs[m].worker \in BOOLEAN
      BY DEF TypeOK, Run
    <3>1. PICK s \in {"succeeded", "failed", "none"}, w \in BOOLEAN :
            runs' = [runs EXCEPT ![m] = [api |-> s, worker |-> w]]
      <4>1. CASE RunSucceeds(m)
        BY <3>0, <4>1, Zenon DEF RunSucceeds, RunChanges
      <4>2. CASE RunFails(m)
        BY <4>2, Zenon DEF RunFails, RunChanges
      <4>3. CASE CollectRun(m) \/ DeleteRunByHand(m)
        BY <3>0, <4>3, SMTT(30) DEF CollectRun, DeleteRunByHand, RunChanges
      <4> QED
        BY <2>3, <4>1, <4>2, <4>3
    <3>2. n = m => runs'[n].api = s
      BY <3>1 DEF TypeOK
    <3>3. n # m => runs'[n] = runs[n]
      BY <3>1 DEF TypeOK
    <3> QED
      BY <3>2, <3>3
  <2> QED
    BY <2>1, <2>2, <2>3
<1>4. CASE Patch \/ PatchNotFound \/ PatchFails \/ Crash \/ SyncCache \/ User \/ Others
           \/ UNCHANGED vars
  <2>1. runs' = runs
    BY <1>4 DEF Patch, PatchNotFound, PatchFails, Crash, SyncCache, User, FlipPolicy,
                ToggleSuspend, AnnotateRetry, UserDelete, EditClass, Age, Edits, Others,
                Write, Environment, vars
  <2> QED
    BY <2>1, DeleteStartsNothing, SMTT(30)
<1> QED
  BY <1>1, <1>2, <1>3, <1>4 DEF Next, Reconcile

\* No step but a create creates a run.
LEMMA OnlyCreateCreates ==
  ASSUME TypeOK, [Next]_vars, ~CreateRun, ~CreateFails, NEW n \in 1..MaxRuns
  PROVE  ~Creates(n)
BY OnlyCreateStarts DEF Creates

\* Only the patch writes the status.
LEMMA OnlyPatchWrites ==
  ASSUME [Next]_vars, ~Patch
  PROVE  status' = status
<1>1. CASE Read
  BY <1>1, ZenonT(40)
      DEF Read, ReadGone, AddFinalizer, ReadSuspended, CancelFails, ClassUnreadable,
              ClassNotFound, KeyTemplateError, TTLExpired, TTLDeleteFails,
              StoreUnavailable, Observed, LetGo, DeleteUnavailable, ObservedDeleting,
              ReadDeleting, Keyed, Cancelled, Active, Dequeue
<1>2. CASE Act
  BY <1>2, ZenonT(40)
      DEF Act, KeyConflict, DriftRegenerate, DriftReported, ArtifactAvailable,
              ArtifactMissingObserved, GeneratorNotConfigured, FailureBudgetExhausted,
              RunUnreadable, RunVanished, GeneratorFailed, AwaitingArtifact,
              SucceededWithoutArtifact, RunInProgress, ProgressDeadlineExceeded,
              BackoffPending, RunTemplateError, CreateRun, AdoptRun, RunNotOwned,
              CreateFails, DeleteAfterExpired, ExpireRefused, ArtifactDeleted,
              DeletionRefused, TryCreate, NoRunInFlight, Evaluate, InBudget, Missing, In
<1>3. CASE Engine \/ User \/ Others
  BY <1>3, ZenonT(40) DEF Engine, RunSucceeds, RunFails, Upload, StopWorker, CollectRun,
              DeleteRunByHand, RunChanges, User, FlipPolicy, ToggleSuspend, AnnotateRetry,
              UserDelete, EditClass, Age, Edits, Others, Write, Environment
<1>4. CASE PatchNotFound \/ PatchFails \/ Crash \/ SyncCache \/ UNCHANGED vars
  BY <1>4 DEF PatchNotFound, PatchFails, Crash, SyncCache, vars
<1> QED
  BY <1>1, <1>2, <1>3, <1>4, SMTT(30) DEF Next, Reconcile

\* The lifetime counter of attempts never decreases, and no run is created under
\* the name of an earlier attempt: names of runs are not reused.
THEOREM NamesMoveForward == Spec => RunNamesMoveForward
<1>1. TypeOK /\ Ledger /\ [Next]_vars =>
        [/\ status'.attempts >= status.attempts
         /\ \A n \in 1..MaxRuns :
              Creates(n) => n \in {status.attempts, status.attempts + 1}]_vars
  <2> SUFFICES ASSUME TypeOK, Ledger, [Next]_vars
               PROVE  /\ status'.attempts >= status.attempts
                      /\ \A n \in 1..MaxRuns :
                           Creates(n) => n \in {status.attempts, status.attempts + 1}
    OBVIOUS
  <2>1. status'.attempts >= status.attempts
    <3>1. CASE Patch
      BY <3>1, PatchLedger DEF Patch, Ledger, TypeOK
    <3>2. CASE ~Patch
      <4>1. status' = status
        BY <3>2, OnlyPatchWrites
      <4>2. status.attempts \in Nat
        BY DEF TypeOK, ArtifactStatus
      <4> QED
        BY <4>1, <4>2
    <3> QED
      BY <3>1, <3>2
  <2>2. ASSUME NEW n \in 1..MaxRuns, Creates(n)
        PROVE  n \in {status.attempts, status.attempts + 1}
    BY <2>2, CreatedName, OnlyCreateCreates
  <2> QED
    BY <2>1, <2>2
<1> QED
  BY <1>1, TypeCorrect, LedgerHolds, PTL DEF Spec, RunNamesMoveForward

-----------------------------------------------------------------------------
(***************************************************************************)
(* The status implements the abstract ledger.                              *)
(***************************************************************************)

\* The patch is one step of the ledger, although the copy it was worked out from
\* may be an attempt behind: then the run in flight is already recorded, and
\* what is left of the patch forgives failures at most.
LEMMA PatchIsLedgerStep ==
  ASSUME NEW o \in ArtifactStatus, NEW b \in ArtifactStatus, NEW s \in ArtifactStatus,
         NEW p \in Merge(o, b, s), Balanced(b), Balanced(s), Follows(s, b),
         Kept(o, b) \/ Charged(o, b) \/ Started(o, b)
  PROVE  \/ /\ s.generatorRef = 0 /\ p.attempts = s.attempts + 1
            /\ p.generatorRef = p.attempts /\ p.failedAttempts \in {s.failedAttempts, 0}
         \/ /\ p.generatorRef \in {s.generatorRef, 0} /\ p.attempts = s.attempts
            /\ p.failedAttempts \in {s.failedAttempts, 0}
         \/ /\ p.generatorRef = 0 /\ p.attempts = s.attempts
            /\ p.failedAttempts \in 0..s.attempts
<1>1. /\ p.attempts = IF o.attempts # b.attempts THEN o.attempts ELSE s.attempts
      /\ p.generatorRef =
           IF o.generatorRef # b.generatorRef THEN o.generatorRef ELSE s.generatorRef
      /\ p.failedAttempts =
           IF o.failedAttempts # b.failedAttempts THEN o.failedAttempts ELSE s.failedAttempts
  BY MergeFacts
<1>2. \A x \in {o, b, s} :
        x.attempts \in Nat /\ x.generatorRef \in Nat /\ x.failedAttempts \in Nat
  BY DEF ArtifactStatus
<1>3. CASE Kept(o, b)
  BY <1>1, <1>2, <1>3 DEF Kept, Balanced, InFlight, Follows
<1>4. CASE Charged(o, b)
  BY <1>1, <1>2, <1>4 DEF Charged, Balanced, InFlight, Follows
<1>5. CASE Started(o, b)
  BY <1>1, <1>2, <1>5 DEF Started, Balanced, InFlight, Follows
<1> QED
  BY <1>3, <1>4, <1>5

\* The status implements Attempts, for every number of stale reconciles, lost
\* patches, restarts and user operations.
THEOREM ImplementsAttempts == Spec => AttemptsContract
<1>1. Init => AttemptLedger!Init
  <2>1. /\ NewStatus.attempts = 0 /\ NewStatus.generatorRef = 0
        /\ NewStatus.failedAttempts = 0
    BY Zenon DEF NewStatus
  <2> QED
    BY <2>1, SMTT(30) DEF Init, AttemptLedger!Init
<1>2. TypeOK /\ Ledger /\ [Next]_vars => [AttemptLedger!Next]_AttemptLedger!ledger
  <2> SUFFICES ASSUME TypeOK, Ledger, [Next]_vars
               PROVE  [AttemptLedger!Next]_AttemptLedger!ledger
    OBVIOUS
  <2>1. CASE Patch
    <3>1. /\ status' \in Merge(obj, base, status) /\ Balanced(base) /\ Balanced(status)
          /\ Follows(status, base)
          /\ Kept(obj, base) \/ Charged(obj, base) \/ Started(obj, base)
      BY <2>1 DEF Patch, Ledger
    <3>2. obj \in ArtifactStatus /\ base \in ArtifactStatus /\ status \in ArtifactStatus
      BY DEF TypeOK
    <3> QED
      BY <3>1, <3>2, PatchIsLedgerStep
      DEF AttemptLedger!Next, AttemptLedger!Begin, AttemptLedger!Release,
          AttemptLedger!Charge
  <2>2. CASE ~Patch
    BY <2>2, OnlyPatchWrites DEF AttemptLedger!ledger
  <2> QED
    BY <2>1, <2>2
<1> QED
  BY <1>1, <1>2, TypeCorrect, LedgerHolds, PTL DEF Spec, AttemptsContract, AttemptLedger!Spec
=============================================================================
