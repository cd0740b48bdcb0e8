------------------------------ MODULE WakeProofs ------------------------------
(***************************************************************************)
(* No wake-up is lost: an Artifact that nothing will bring back to the     *)
(* loop waits for its user, and says so in its status.  Nothing is assumed *)
(* of the constants: caches lag, patches fail, processes restart, and      *)
(* users and other writers act at any time.                                *)
(***************************************************************************)
EXTENDS FreshProofs

\* Why a reconcile of the Artifact s may return the copy o and not be requeued.
Rests(s, o, k) ==
  /\ o.ready = "False"
  /\ \/ s.suspend /\ o.state = "Suspended"
     \/ (~k.keyTemplate \/ ~k.template) /\ o.stalled = "True"
     \/ ~s.ttl /\ o.state = "Expired"

\* What the helpers that end a reconcile without a requeue write.
LEMMA RestFacts ==
  ASSUME NEW o \in ArtifactStatus
  PROVE  /\ Suspended(o).state = "Suspended" /\ Suspended(o).ready = "False"
         /\ NotReady(MarkStalled(o)).stalled = "True" /\ NotReady(MarkStalled(o)).ready = "False"
         /\ Expired(o).state = "Expired" /\ Expired(o).ready = "False"
         /\ ~WithFinalizer(o, FALSE).finalizer
<1>1. Suspended(o).state = "Suspended" /\ Suspended(o).ready = "False"
  BY DEF Suspended, ArtifactStatus
<1>2. NotReady(MarkStalled(o)).stalled = "True" /\ NotReady(MarkStalled(o)).ready = "False"
  BY DEF NotReady, MarkStalled, ArtifactStatus
<1>3. Expired(o).state = "Expired" /\ Expired(o).ready = "False"
  BY DEF Expired, Settled, Forget, ArtifactStatus
<1>4. ~WithFinalizer(o, FALSE).finalizer
  BY DEF WithFinalizer, ArtifactStatus
<1> QED
  BY <1>1, <1>2, <1>3, <1>4

\* What a read step that returns, or hands over, has found.
LEMMA ReadWake ==
  ASSUME TypeOK, Read, ~ReadGone
  PROVE  /\ ~queued' /\ cSpec.exists
         /\ pc' = "patch" /\ ~again' =>
              \/ ~cSpec.deleting /\ Rests(cSpec, obj', class)
              \/ ~cSpec.deleting /\ DeleteArtifact
              \/ cSpec.deleting /\ cStatus.finalizer /\ ~obj'.finalizer
         /\ pc' = "reconcileDelete" => cSpec.deleting /\ cStatus.finalizer
         /\ pc' \notin {"patch", "reconcileDelete"} => ~cSpec.deleting
<1>1. ~queued' /\ cSpec.exists
  <2>1. Dequeue
    BY ZenonT(40)
        DEF Read, AddFinalizer, ReadSuspended, CancelFails, ClassUnreadable, ClassNotFound,
            KeyTemplateError, TTLExpired, TTLDeleteFails, StoreUnavailable, Observed, LetGo,
            DeleteUnavailable, ObservedDeleting, ReadDeleting, Keyed, Cancelled, Active
  <2> QED
    BY <2>1 DEF Dequeue
<1>2. CASE ReadSuspended
  <2>1. ~cSpec.deleting /\ cSpec.suspend /\ obj' = Suspended(cStatus) /\ pc' = "patch"
    BY <1>2, Zenon DEF ReadSuspended, Active, Return
  <2>2. cStatus \in ArtifactStatus
    BY DEF TypeOK
  <2> QED
    BY <1>1, <2>1, <2>2, RestFacts DEF Rests
<1>3. CASE KeyTemplateError
  <2>1. AfterCancel \in ArtifactStatus
    BY AfterCancelFacts DEF TypeOK
  <2>2. ~cSpec.deleting /\ ~class.keyTemplate /\ obj' = NotReady(MarkStalled(AfterCancel))
        /\ pc' = "patch"
    BY <1>3 DEF KeyTemplateError, Cancelled, Active, Return
  <2> QED
    BY <1>1, <2>1, <2>2, RestFacts DEF Rests
<1>4. CASE TTLExpired
  <2>1. ~cSpec.deleting /\ DeleteArtifact /\ pc' = "patch"
    BY <1>4, Zenon DEF TTLExpired, Keyed, Cancelled, Active, Return
  <2> QED
    BY <1>1, <2>1
<1>5. CASE LetGo
  <2>1. /\ cSpec.deleting /\ cStatus.finalizer /\ pc' = "patch"
        /\ obj' = WithFinalizer(cStatus, FALSE)
    BY <1>5, Zenon DEF LetGo, ReadDeleting, Return
  <2> QED
    BY <1>1, <2>1, RestFacts DEF TypeOK
<1>6. CASE Observed
  <2>1. ~cSpec.deleting /\ pc' \notin {"patch", "reconcileDelete"}
    BY <1>6 DEF Observed, Keyed, Cancelled, Active, Dispatch
  <2> QED
    BY <1>1, <2>1
<1>7. CASE ObservedDeleting
  <2>1. cSpec.deleting /\ cStatus.finalizer /\ pc' = "reconcileDelete"
    BY <1>7 DEF ObservedDeleting, ReadDeleting, Dispatch
  <2> QED
    BY <1>1, <2>1
<1>8. CASE \/ AddFinalizer \/ CancelFails \/ ClassUnreadable \/ ClassNotFound
           \/ TTLDeleteFails \/ StoreUnavailable \/ DeleteUnavailable
  <2>1. \E o : Return(o, TRUE)
    BY <1>8, ZenonT(40)
        DEF AddFinalizer, CancelFails, ClassUnreadable, ClassNotFound, TTLDeleteFails,
            StoreUnavailable, DeleteUnavailable
  <2>2. pc' = "patch" /\ again'
    BY <2>1 DEF Return
  <2> QED
    BY <1>1, <2>2
<1> QED
  BY <1>2, <1>3, <1>4, <1>5, <1>6, <1>7, <1>8 DEF Read

\* What a handler that is not requeued has done.
LEMMA ActWake ==
  ASSUME TypeOK, Act
  PROVE  /\ queued' = queued
         /\ pc' # "patch" => pc = "reconcileExisting" /\ pc' = "reconcileMissing"
         /\ pc' = "patch" /\ ~again' =>
              \/ pc # "reconcileDelete" /\ Rests(oSpec, obj', klass)
              \/ pc = "reconcileDelete" /\ ~obj'.finalizer
<1>0. obj \in ArtifactStatus /\ Absent(obj) \in ArtifactStatus
  BY MarkFacts DEF TypeOK
<1>1. queued' = queued
  BY ZenonT(40)
      DEF Act, KeyConflict, DriftRegenerate, DriftReported, ArtifactAvailable,
          ArtifactMissingObserved, GeneratorNotConfigured, FailureBudgetExhausted,
          RunUnreadable, RunVanished, GeneratorFailed, AwaitingArtifact,
          SucceededWithoutArtifact, RunInProgress, ProgressDeadlineExceeded,
          BackoffPending, RunTemplateError, CreateRun, AdoptRun, RunNotOwned,
          CreateFails, DeleteAfterExpired, ExpireRefused, ArtifactDeleted,
          DeletionRefused, TryCreate, NoRunInFlight, Evaluate, InBudget, Missing, In
<1>2. CASE DriftRegenerate
  <2>1. pc = "reconcileExisting" /\ pc' = "reconcileMissing"
    BY <1>2, Zenon DEF DriftRegenerate, In
  <2> QED
    BY <1>1, <2>1
<1>3. CASE RunTemplateError
  <2>1. /\ pc = "reconcileMissing" /\ pc' = "patch" /\ ~klass.template
        /\ obj' = NotReady(MarkStalled(Absent(obj)))
    BY <1>3, Zenon DEF RunTemplateError, NoRunInFlight, InBudget, Missing, In, Finish
  <2> QED
    BY <1>0, <1>1, <2>1, RestFacts DEF Rests
<1>4. CASE DeleteAfterExpired
  <2>1. /\ pc = "reconcileExpired" /\ pc' = "patch" /\ obj' = Expired(obj)
        /\ again' = oSpec.ttl
    BY <1>4, Zenon DEF DeleteAfterExpired, In, Finish
  <2> QED
    BY <1>0, <1>1, <2>1, RestFacts DEF Rests
<1>5. CASE ArtifactDeleted
  <2>1. pc = "reconcileDelete" /\ pc' = "patch" /\ obj' = WithFinalizer(obj, FALSE)
    BY <1>5, Zenon DEF ArtifactDeleted, In, Finish
  <2> QED
    BY <1>0, <1>1, <2>1, RestFacts
<1>6. CASE \/ KeyConflict \/ DriftReported \/ ArtifactAvailable \/ ArtifactMissingObserved
           \/ GeneratorNotConfigured \/ FailureBudgetExhausted \/ RunUnreadable
           \/ RunVanished \/ GeneratorFailed \/ AwaitingArtifact
           \/ SucceededWithoutArtifact \/ RunInProgress \/ ProgressDeadlineExceeded
           \/ BackoffPending \/ CreateRun \/ AdoptRun \/ RunNotOwned \/ CreateFails
           \/ ExpireRefused \/ DeletionRefused
  <2>1. \E o : Finish(o, TRUE)
    BY <1>6, ZenonT(40)
        DEF KeyConflict, DriftReported, ArtifactAvailable, ArtifactMissingObserved,
            GeneratorNotConfigured, FailureBudgetExhausted, RunUnreadable, RunVanished,
            GeneratorFailed, AwaitingArtifact, SucceededWithoutArtifact, RunInProgress,
            ProgressDeadlineExceeded, BackoffPending, CreateRun, AdoptRun, RunNotOwned,
            CreateFails, ExpireRefused, DeletionRefused
  <2>2. pc' = "patch" /\ again'
    BY <2>1 DEF Finish
  <2> QED
    BY <1>1, <2>2
<1> QED
  BY <1>2, <1>3, <1>4, <1>5, <1>6 DEF Act

\* Nobody but the worker takes the key from the queue, and an edit of the class or
\* an event of the watch puts it there.
LEMMA QueueKept ==
  ASSUME TypeOK, Engine \/ User \/ Others \/ UNCHANGED vars, ~queued'
  PROVE  ~queued /\ class' = class
<1>1. CASE Engine
  <2>1. class' = class
    BY <1>1, EngineFrame
  <2>2. queued' = queued \/ queued' = (queued \/ watching)
    BY <1>1, ZenonT(40)
        DEF Engine, RunSucceeds, RunFails, Upload, StopWorker, CollectRun, DeleteRunByHand,
            RunChanges, Environment
  <2> QED
    BY <2>1, <2>2 DEF TypeOK
<1>2. CASE User
  <2>1. queued' = TRUE \/ (queued' = queued /\ class' = class)
    BY <1>2, ZenonT(40)
        DEF User, FlipPolicy, ToggleSuspend, AnnotateRetry, UserDelete, EditClass, Age,
            Edits, Environment
  <2> QED
    BY <2>1
<1>3. CASE Others \/ UNCHANGED vars
  <2>1. queued' = queued /\ class' = class
    BY <1>3, Zenon DEF Others, Write, Environment, vars
  <2> QED
    BY <2>1
<1> QED
  BY <1>1, <1>2, <1>3

\* A patch that leaves what was read was of a copy with nothing to write.
LEMMA NothingWritten ==
  ASSUME NEW o, NEW b, NEW s, b \in Merge(o, b, s)
  PROVE  /\ o.state = b.state /\ o.finalizer = b.finalizer
         /\ o.ready = b.ready /\ o.stalled = b.stalled
<1>1. o.state = b.state /\ o.finalizer = b.finalizer
  BY DEF Merge, Change
<1>2. o.ready = b.ready /\ o.stalled = b.stalled
  BY DEF Merge, CondChange
<1> QED
  BY <1>1, <1>2

\* The patch leaves the cached Artifact at rest, or the watch something to deliver.
LEMMA PatchWake ==
  ASSUME TypeOK, WakeInv, Patch, ~queued', spec'.exists,
         cStatus = status', cSpec.deleting = spec'.deleting
  PROVE  AtRest(cSpec, cStatus)
<1>1. /\ pc = "patch" /\ spec.exists /\ status' \in Merge(obj, base, status)
      /\ spec' = [spec EXCEPT !.exists = ~spec.deleting \/ status'.finalizer]
      /\ queued' = (queued \/ again)
  BY DEF Patch
<1>2. ~queued /\ ~again
  BY <1>1 DEF TypeOK
<1>3. cSpec = oSpec /\ cStatus = base
  BY <1>1, <1>2 DEF WakeInv
<1>4. /\ obj.state = base.state /\ obj.finalizer = base.finalizer
      /\ obj.ready = base.ready /\ obj.stalled = base.stalled
  BY <1>1, <1>3, NothingWritten
<1>5. spec'.deleting = spec.deleting
  BY <1>1 DEF TypeOK, ArtifactSpec
<1>6. \/ AtRest(oSpec, obj)
      \/ ~oSpec.deleting /\ (spec.deleting \/ ~spec.exists)
      \/ oSpec.deleting /\ base.finalizer /\ ~obj.finalizer
  BY <1>1, <1>2 DEF WakeInv
<1>7. AtRest(oSpec, obj)
  BY <1>1, <1>3, <1>4, <1>5, <1>6
<1> QED
  BY <1>3, <1>4, <1>7 DEF AtRest

\* What has been deleted stays so, what the cache misses it goes on missing.
LEMMA WakeMoves ==
  ASSUME TypeOK, WakeInv, [Next]_vars
  PROVE  /\ spec'.exists => spec.exists
         /\ spec.deleting => spec'.deleting
         /\ cSpec'.deleting => spec'.deleting
BY DeletingStays, SpecMoves DEF WakeInv

\* Every step keeps WakeInv.
LEMMA NextWake ==
  ASSUME TypeOK, WakeInv, [Next]_vars
  PROVE  WakeInv'
<1>0. /\ spec'.exists => spec.exists
      /\ spec.deleting => spec'.deleting
      /\ cSpec'.deleting => spec'.deleting
  BY WakeMoves
<1>1. CASE Read /\ ~ReadGone
  <2>1. /\ base' = cStatus /\ oSpec' = cSpec /\ pc' # "idle"
        /\ UNCHANGED <<status, cSpec, cStatus, class>>
    BY <1>1, ReadFrame
  <2>2. cSpec.exists
    BY <1>1, ReadWake
  <2>3. DeleteArtifact => spec'.deleting \/ ~spec'.exists
    BY DEF DeleteArtifact, TypeOK, ArtifactSpec
  <2>4. pc' = "patch" /\ ~again' =>
          \/ AtRest(oSpec, obj)'
          \/ ~oSpec'.deleting /\ (spec'.deleting \/ ~spec'.exists)
          \/ oSpec'.deleting /\ base'.finalizer /\ ~obj'.finalizer
    <3>1. ~cSpec.deleting /\ Rests(cSpec, obj', class) => AtRest(oSpec, obj)'
      BY <2>1 DEF AtRest, Rests
    <3> QED
      BY <1>1, <2>1, <2>3, <3>1, ReadWake
  <2>5. /\ pc' = "reconcileDelete" => oSpec'.deleting /\ base'.finalizer
        /\ pc' \notin {"patch", "reconcileDelete"} => ~oSpec'.deleting
    BY <1>1, <2>1, ReadWake
  <2>6. pc' # "patch" => klass' = class'
    BY <1>1, <2>1, ReadObserves
  <2> QED
    BY <1>0, <2>1, <2>2, <2>4, <2>5, <2>6 DEF WakeInv
<1>2. CASE Act
  <2>1. /\ UNCHANGED <<spec, status, cSpec, cStatus, class, base, oSpec, klass>>
        /\ pc \notin {"idle", "patch"}
    BY <1>2, ActFrame
  <2>2. /\ queued' = queued
        /\ pc' # "patch" => pc = "reconcileExisting" /\ pc' = "reconcileMissing"
    BY <1>2, ActWake
  <2>3. pc' = "patch" /\ ~queued' /\ ~again' =>
          \/ AtRest(oSpec, obj)'
          \/ oSpec.deleting /\ base.finalizer /\ ~obj'.finalizer
    <3> SUFFICES ASSUME pc' = "patch", ~queued', ~again'
                 PROVE  \/ AtRest(oSpec, obj)'
                        \/ oSpec.deleting /\ base.finalizer /\ ~obj'.finalizer
      OBVIOUS
    <3>1. ~queued
      BY <2>2
    <3>2. klass = class
      BY <2>1, <3>1 DEF WakeInv
    <3>3. CASE pc # "reconcileDelete" /\ Rests(oSpec, obj', klass)
      <4>1. ~oSpec.deleting
        BY <2>1, <3>3 DEF WakeInv
      <4> QED
        BY <2>1, <3>2, <3>3, <4>1 DEF AtRest, Rests
    <3>4. CASE pc = "reconcileDelete" /\ ~obj'.finalizer
      BY <3>4 DEF WakeInv
    <3> QED
      BY <1>2, <3>3, <3>4, ActWake
  <2> QED
    BY <2>1, <2>2, <2>3 DEF WakeInv
<1>3. CASE Patch \/ PatchNotFound \/ PatchFails \/ Crash
  <2>1. /\ pc' = "idle" /\ oSpec' = NoSpec /\ class' = class
        /\ \/ cSpec' = cSpec /\ cStatus' = cStatus
           \/ cSpec' = spec /\ cStatus' = status /\ spec' = spec /\ status' = status
    BY <1>3, EndFrame
  <2>2. spec'.exists => cSpec'.exists
    BY <1>0, <2>1 DEF WakeInv
  <2>3. ~oSpec'.deleting
    BY <2>1 DEF NoSpec
  <2>4. ~queued' /\ spec'.exists =>
          \/ cStatus' # status'
          \/ cSpec'.deleting # spec'.deleting
          \/ AtRest(cSpec, cStatus)'
    <3>1. CASE Patch
      <4>1. cSpec' = cSpec /\ cStatus' = cStatus
        BY <3>1 DEF Patch
      <4>2. AtRest(cSpec, cStatus) => AtRest(cSpec, cStatus)'
        BY <2>1, <4>1 DEF AtRest
      <4> QED
        BY <3>1, <4>1, <4>2, PatchWake
    <3>2. CASE PatchNotFound
      BY <3>2 DEF PatchNotFound
    <3>3. CASE PatchFails \/ Crash
      BY <3>3 DEF PatchFails, Crash
    <3> QED
      BY <1>3, <3>1, <3>2, <3>3
  <2> QED
    BY <1>0, <2>1, <2>2, <2>3, <2>4 DEF WakeInv
<1>4. CASE SyncCache
  <2>1. /\ cSpec' = spec /\ cStatus' = status
        /\ UNCHANGED <<spec, pc, obj, base, oSpec>>
    BY <1>4, SyncFrame
  <2>2. queued' = TRUE
    BY <1>4 DEF SyncCache
  <2> QED
    BY <2>1, <2>2 DEF WakeInv
<1>5. CASE Engine \/ User \/ Others \/ UNCHANGED vars
  <2>1. UNCHANGED <<status, cSpec, cStatus, pc, obj, base, oSpec, klass, again>>
    BY <1>5, EngineFrame, UserFrame, OthersFrame, StutterFrame
  <2>2. ~queued' => ~queued /\ class' = class
    BY <1>5, QueueKept
  <2>3. /\ ~queued' /\ AtRest(cSpec, cStatus) => AtRest(cSpec, cStatus)'
        /\ ~queued' /\ AtRest(oSpec, obj) => AtRest(oSpec, obj)'
    BY <2>1, <2>2 DEF AtRest
  <2>4. pc' = "idle" /\ ~queued' /\ spec'.exists =>
          \/ cStatus' # status'
          \/ cSpec'.deleting # spec'.deleting
          \/ AtRest(cSpec, cStatus)'
    <3>1. cSpec.deleting \in BOOLEAN /\ spec.deleting \in BOOLEAN
      BY DEF TypeOK, ArtifactSpec
    <3> QED
      BY <1>0, <2>1, <2>2, <2>3, <3>1 DEF WakeInv
  <2>5. pc' = "patch" /\ ~queued' /\ ~again' =>
          \/ AtRest(oSpec, obj)'
          \/ ~oSpec'.deleting /\ (spec'.deleting \/ ~spec'.exists)
          \/ oSpec'.deleting /\ base'.finalizer /\ ~obj'.finalizer
    BY <1>0, <2>1, <2>2, <2>3 DEF WakeInv
  <2> QED
    BY <1>0, <2>1, <2>2, <2>4, <2>5 DEF WakeInv
<1>6. CASE ReadGone
  <2>1. /\ UNCHANGED <<spec, status, cSpec, cStatus, class, pc, obj, base, oSpec, klass, again>>
        /\ pc = "idle" /\ ~cSpec.exists
    BY <1>6, StutterFrame DEF ReadGone
  <2> QED
    BY <2>1 DEF WakeInv
<1> QED
  BY <1>1, <1>2, <1>3, <1>4, <1>5, <1>6, StepCases

\* The cache, the running reconcile and the queue agree as WakeInv says, whatever
\* the constants.
THEOREM WakeHolds == Spec => []WakeInv
<1>1. Init => WakeInv
  <2>1. NoSpec.deleting = FALSE
    BY DEF NoSpec
  <2> QED
    BY <2>1, Zenon DEF Init, WakeInv
<1>2. TypeOK /\ WakeInv /\ [Next]_vars => WakeInv'
  BY NextWake
<1> QED
  BY <1>1, <1>2, TypeCorrect, PTL DEF Spec

\* An Artifact that no worker holds, that is not queued and whose cached copy is
\* up to date is suspended, stalled by a template or expired without a ttl, and
\* its status says so: no other return of the loop ends without something that
\* brings the Artifact back.
THEOREM WakeupsAreNotLost == Spec => []NoLostWakeup
<1>1. WakeInv => NoLostWakeup
  BY DEF WakeInv, NoLostWakeup, cached, api
<1> QED
  BY <1>1, WakeHolds, PTL
=============================================================================
