---------------------- MODULE SearchLifecycle_proofs ----------------------
(***************************************************************************)
(* Proofs about SearchLifecycle for every Plan and all bounds.             *)
(***************************************************************************)
EXTENDS SearchLifecycle, TLAPS

\* A version that lets a reconcile create objects ...
Permits(v) == v.exists /\ v.finalizer /\ ~v.deleting
\* ... and one that makes it finalize.
Condemns(v) == v.exists /\ v.finalizer /\ v.deleting

\* A cached version that permits creation is a version of the stored Search,
\* and that one still carries the finalizer.
CacheInv ==
  \A i \in 1 .. Len(versions) :
     /\ Permits(versions[i]) => Stored.exists /\ Stored.finalizer
     /\ Condemns(versions[i]) /\ Stored.exists /\ Stored.finalizer
          => Stored.deleting
     /\ ~versions[i].exists => ~versions[i].deleting /\ ~versions[i].finalizer

\* What the worker may rely on about the stored Search while it works.
WorkerInv ==
  /\ phase # "idle" => inst.exists
  /\ phase # "idle" /\ fresh => inst = Stored
  /\ phase \in {"setFinalizer", "finalize"} /\ fresh => Len(versions) = 1
  /\ phase = "setFinalizer" /\ Permits(inst) => Stored.exists /\ Stored.finalizer
  /\ phase = "setFinalizer" /\ Condemns(inst) /\ Stored.exists
       /\ Stored.finalizer => Stored.deleting
  /\ phase = "apply" => ~inst.deleting /\ inst.finalizer
                        /\ Stored.exists /\ Stored.finalizer
  /\ phase = "finalize" => Condemns(inst)
  /\ phase = "finalize" /\ Stored.exists /\ Stored.finalizer => Stored.deleting

\* What finalizeSearch has taken down stays down until it is done.
FinalizeInv ==
  phase = "finalize" =>
    \A j \in 1 .. Len(finalizeSearch) : j < at => ~objs[finalizeSearch[j]].there

-----------------------------------------------------------------------------
(* Facts about the model's values.                                         *)

\* The versions of the Search CR are never empty: there is a stored one.
LEMMA StoredType ==
  ASSUME TypeOK
  PROVE  /\ Len(versions) \in Nat /\ Len(versions) >= 1
         /\ Stored \in Search /\ Cached \in Search /\ Cached = versions[1]
         /\ \A i \in 1 .. Len(versions) : versions[i] \in Search
  BY DEF TypeOK, Stored, Cached

\* A write of the Search CR appends a version and keeps the earlier ones.
LEMMA AppendVersion ==
  ASSUME TypeOK, NEW v \in Search, versions' = Append(versions, v)
  PROVE  /\ versions' \in Seq(Search) /\ versions' # <<>>
         /\ Len(versions') = Len(versions) + 1
         /\ Stored' = v
         /\ \A i \in 1 .. Len(versions) : versions'[i] = versions[i]
         /\ versions'[Len(versions')] = v
  <1>1. versions \in Seq(Search) /\ Len(versions) \in Nat
    BY DEF TypeOK
  <1>2. /\ versions' \in Seq(Search)
        /\ Len(versions') = Len(versions) + 1
        /\ \A i \in 1 .. Len(versions) : versions'[i] = versions[i]
        /\ versions'[Len(versions')] = v
    BY <1>1
  <1>3. versions' # <<>>
    BY <1>1, <1>2
  <1> QED
    BY <1>2, <1>3 DEF Stored

\* The informer moving on drops the first version and keeps the stored one.
LEMMA TailVersions ==
  ASSUME TypeOK, Deliver
  PROVE  /\ versions' \in Seq(Search) /\ versions' # <<>>
         /\ Len(versions') = Len(versions) - 1
         /\ Stored' = Stored
         /\ \A i \in 1 .. Len(versions') : versions'[i] = versions[i + 1]
  <1>1. /\ versions \in Seq(Search) /\ Len(versions) \in Nat
        /\ Len(versions) > 1 /\ versions' = Tail(versions)
    BY DEF TypeOK, Deliver
  <1>2. /\ versions' \in Seq(Search) /\ Len(versions') = Len(versions) - 1
        /\ \A i \in 1 .. Len(versions') : versions'[i] = versions[i + 1]
    BY <1>1
  <1>3. versions' # <<>>
    BY <1>1, <1>2
  <1>4. Stored' = Stored
    BY <1>1, <1>2 DEF Stored
  <1> QED
    BY <1>2, <1>3, <1>4

\* The records the model builds for the Search CR and for an object are typed.
LEMMA RecordTypes ==
  /\ \A u \in Nat : Gone(u) \in Search /\ NewSearch(u) \in Search
  /\ Absent \in Object /\ Preexisting \in Object
  BY DEF Gone, NewSearch, Search, Absent, Preexisting, Object

\* What an update of one field of a Search leaves and what it changes.
LEMMA SearchUpdates ==
  ASSUME NEW v \in Search
  PROVE  /\ Finalizable(v) \in Search /\ MarkedDeleted(v) \in Search
         /\ NextGen(v) \in Search
         /\ \A p \in BOOLEAN : WithPause(v, p) \in Search
  <1>1. Finalizable(v) \in Search
    BY DEF Search, Finalizable
  <1>2. MarkedDeleted(v) \in Search
    BY DEF Search, MarkedDeleted
  <1>3. \A p \in BOOLEAN : WithPause(v, p) \in Search
    BY DEF Search, WithPause
  <1>4. NextGen(v) \in Search
    BY DEF Search, NextGen
  <1> QED
    BY <1>1, <1>2, <1>3, <1>4

\* What an ensure-step writes is an object.
LEMMA WrittenType ==
  ASSUME TypeOK, at \in DOMAIN Plan
  PROVE  Now.obj \in Objects /\ Current \in Object
         /\ Built \in Object /\ Written \in Object
  <1>1. Now.obj \in Objects
    BY DEF Now, Objects
  <1>2. Current \in Object
    BY <1>1 DEF Current, TypeOK
  <1>3. Built \in Object
    BY DEF Built, Object, Wanted, TypeOK, Search
  <1>4. Rebuilt(Current, Built.gen) \in Object
    BY <1>2, <1>3 DEF Object, Rebuilt
  <1> QED
    BY <1>1, <1>2, <1>3, <1>4, RecordTypes DEF Written

-----------------------------------------------------------------------------
(* Type correctness.                                                       *)

\* The initial states are well typed.
LEMMA InitType == Init => TypeOK
  <1> SUFFICES ASSUME Init PROVE TypeOK
    OBVIOUS
  <1>1. versions \in Seq(Search) /\ versions # <<>>
    <2>1. Gone(0) \in Search /\ NewSearch(1) \in Search
      BY RecordTypes
    <2>2. Finalizable(NewSearch(1)) \in Search
      BY <2>1, SearchUpdates
    <2>3. \A v \in Search : <<v>> \in Seq(Search) /\ <<v>> # <<>>
      OBVIOUS
    <2> QED
      BY <2>1, <2>2, <2>3 DEF Init
  <1>2. objs \in [Objects -> Object]
    BY RecordTypes DEF Init
  <1>3. inst \in Search
    BY RecordTypes DEF Init
  <1>4. FlagsOK
    BY DEF Init, FlagsOK
  <1> QED
    BY <1>1, <1>2, <1>3, <1>4 DEF Init, TypeOK, Phases

\* Every step keeps the flags Boolean.
LEMMA NextFlags == TypeOK /\ [Next]_vars => FlagsOK'
  <1> SUFFICES ASSUME TypeOK, [Next]_vars PROVE FlagsOK'
    OBVIOUS
  <1>0. FlagsOK
    BY DEF TypeOK
  <1>1. CASE StartReconcile
    BY <1>0, <1>1 DEF FlagsOK, StartReconcile, Idle
  <1>2. CASE setFinalizer
    BY <1>0, <1>2 DEF FlagsOK, setFinalizer, Goto, KeepInst, Return, Requeue, Idle, PauseCheck, once
  <1>3. CASE FinalizeStep
    BY <1>0, <1>3 DEF FlagsOK, FinalizeStep, Goto, KeepInst, Requeue, Idle, once
  <1>4. CASE RemoveFinalizer
    BY <1>0, <1>4 DEF FlagsOK, RemoveFinalizer, Return, Requeue, Idle, once
  <1>5. CASE ApplyStep
    BY <1>0, <1>5 DEF FlagsOK, ApplyStep, NextStep, NextStepWith, Enqueue, Idle, SpendOnce, once
  <1>6. CASE ApplyGetError
    BY <1>0, <1>6 DEF FlagsOK, ApplyGetError, NextStep, NextStepWith, Enqueue, Requeue, Idle, once
  <1>7. CASE ApplyWriteError
    BY <1>0, <1>7 DEF FlagsOK, ApplyWriteError, NextStep, NextStepWith, Enqueue, Requeue, Idle,
       SpendOnce, once
  <1>8. CASE ApplyFeatures
    BY <1>0, <1>8 DEF FlagsOK, ApplyFeatures, NextStep, NextStepWith, Enqueue, Requeue, Idle, once
  <1>9. CASE UpdateStatus
    BY <1>0, <1>9 DEF FlagsOK, UpdateStatus, worker, once
  <1>10. CASE Deliver
    BY <1>0, <1>10 DEF FlagsOK, Deliver, worker, once
  <1>11. CASE Resync
    BY <1>0, <1>11 DEF FlagsOK, Resync, worker, once
  <1>12. CASE Crash
    BY <1>0, <1>12 DEF FlagsOK, Crash, Idle
  <1>13. ASSUME NEW o \in Objects, GarbageCollect(o) PROVE FlagsOK'
    BY <1>0, <1>13 DEF FlagsOK, GarbageCollect, Enqueue, worker, once
  <1>14. CASE CreateSearch
    BY <1>0, <1>14 DEF FlagsOK, CreateSearch, EditSearch, once
  <1>15. ASSUME NEW p \in BOOLEAN, Pause(p) PROVE FlagsOK'
    BY <1>0, <1>15 DEF FlagsOK, Pause, EditSearch, once
  <1>16. CASE ChangeSpec
    BY <1>0, <1>16 DEF FlagsOK, ChangeSpec, EditSearch, once
  <1>17. CASE DeleteSearch
    BY <1>0, <1>17 DEF FlagsOK, DeleteSearch, EditSearch, once
  <1>18. ASSUME NEW o \in Objects, DeleteObject(o) PROVE FlagsOK'
    BY <1>0, <1>18 DEF FlagsOK, DeleteObject, Enqueue, worker, once
  <1>19. ASSUME NEW o \in Objects, ChangeObject(o) PROVE FlagsOK'
    BY <1>0, <1>19 DEF FlagsOK, ChangeObject, Enqueue, worker, once
  <1>20. CASE UNCHANGED vars
    BY <1>0, <1>20 DEF FlagsOK, vars
  <1> QED
    BY <1>1, <1>2, <1>3, <1>4, <1>5, <1>6, <1>7, <1>8, <1>9, <1>10, <1>11, <1>12,
       <1>13, <1>14, <1>15, <1>16, <1>17, <1>18, <1>19, <1>20
    DEF Next, Worker, Environment

\* Every step keeps the state well typed.
LEMMA NextType == TypeOK /\ [Next]_vars => TypeOK'
  <1> SUFFICES ASSUME TypeOK, [Next]_vars PROVE TypeOK'
    OBVIOUS
  <1>0. /\ FlagsOK' /\ Gone(0) \in Search /\ Absent \in Object
        /\ Stored \in Search /\ Cached \in Search /\ inst \in Search
        /\ Len(versions) \in Nat
    BY NextFlags, RecordTypes, StoredType DEF TypeOK
  <1>1. CASE StartReconcile
    BY <1>0, <1>1 DEF TypeOK, StartReconcile, Idle, cluster, Fault, NoFault, Phases
  <1>2. CASE setFinalizer
    <2>1. Finalizable(inst) \in Search
      BY <1>0, SearchUpdates, RecordTypes DEF Search
    <2>2. versions' \in Seq(Search) /\ versions' # <<>>
      <3>1. UNCHANGED versions \/ versions' = Append(versions, Finalizable(inst))
        BY <1>2 DEF setFinalizer, UpdateSearch
      <3> QED
        BY <3>1, <2>1, AppendVersion DEF TypeOK
    <2> QED
      BY <1>0, <1>2, <2>1, <2>2 DEF TypeOK, setFinalizer, Goto, KeepInst, Return, Requeue, Idle, PauseCheck, once, Fault, NoFault, Phases
  <1>3. CASE FinalizeStep
    BY <1>0, <1>3 DEF TypeOK, FinalizeStep, Goto, KeepInst, Requeue, Idle, once, Fault, NoFault, Phases
  <1>4. CASE RemoveFinalizer
    <2>1. Gone(inst.uid) \in Search
      BY <1>0, SearchUpdates, RecordTypes DEF Search
    <2>2. versions' \in Seq(Search) /\ versions' # <<>>
      <3>1. UNCHANGED versions \/ versions' = Append(versions, Gone(inst.uid))
        BY <1>4 DEF RemoveFinalizer, UpdateSearch
      <3> QED
        BY <3>1, <2>1, AppendVersion DEF TypeOK
    <2> QED
      BY <1>0, <1>4, <2>1, <2>2 DEF TypeOK, RemoveFinalizer, Return, Requeue, Idle, once, Fault, NoFault, Phases
  <1>5. CASE ApplyStep
    <2>1. objs' \in [Objects -> Object]
      BY <1>5, WrittenType DEF ApplyStep, TypeOK
    <2> QED
      BY <1>0, <1>5, <2>1 DEF TypeOK, ApplyStep, NextStep, NextStepWith, Enqueue, Idle, SpendOnce, once, NoFault, Phases
  <1>6. CASE ApplyGetError
    <2>1. objs' \in [Objects -> Object]
      BY <1>6, WrittenType DEF ApplyGetError, TypeOK
    <2> QED
      BY <1>0, <1>6, <2>1 DEF TypeOK, ApplyGetError, NextStep, NextStepWith, Enqueue, Requeue, Idle, once, Fault, Phases
  <1>7. CASE ApplyWriteError
    <2>1. objs' \in [Objects -> Object]
      BY <1>0, <1>7 DEF ApplyWriteError, TypeOK
    <2> QED
      BY <1>0, <1>7, <2>1 DEF TypeOK, ApplyWriteError, NextStep, NextStepWith, Enqueue, Requeue, Idle, SpendOnce, once, Fault, Phases
  <1>8. CASE ApplyFeatures
    <2>1. NextGen(inst) \in Search
      BY <1>0, SearchUpdates, RecordTypes DEF Search
    <2>2. versions' \in Seq(Search) /\ versions' # <<>>
      <3>1. UNCHANGED versions \/ versions' = Append(versions, NextGen(inst))
        BY <1>8 DEF ApplyFeatures, UpdateSearch
      <3> QED
        BY <3>1, <2>1, AppendVersion DEF TypeOK
    <2> QED
      BY <1>0, <1>8, <2>1, <2>2 DEF TypeOK, ApplyFeatures, NextStep, NextStepWith, Enqueue, Requeue, Idle, once, Fault, NoFault, Phases
  <1>9. CASE UpdateStatus
    <2>1. versions' \in Seq(Search) /\ versions' # <<>>
      BY <1>0, <1>9, AppendVersion DEF UpdateStatus
    <2> QED
      BY <1>0, <1>9, <2>1 DEF TypeOK, UpdateStatus, worker, once
  <1>10. CASE Deliver
    <2>1. versions' \in Seq(Search) /\ versions' # <<>>
      BY <1>10, TailVersions
    <2> QED
      BY <1>0, <1>10, <2>1 DEF TypeOK, Deliver, worker, once
  <1>11. CASE Resync
    BY <1>0, <1>11 DEF TypeOK, Resync, worker, once, cluster
  <1>12. CASE Crash
    <2>1. <<Stored>> \in Seq(Search) /\ <<Stored>> # <<>>
      BY <1>0
    <2> QED
      BY <1>0, <1>12, <2>1 DEF TypeOK, Crash, Idle, Fault, Phases
  <1>13. ASSUME NEW o \in Objects, GarbageCollect(o) PROVE TypeOK'
    BY <1>0, <1>13 DEF TypeOK, GarbageCollect, Enqueue, worker, once
  <1>14. CASE CreateSearch
    <2>1. NewSearch(Stored.uid + 1) \in Search
      <3>1. Stored.uid + 1 \in Nat
        BY <1>0 DEF Search
      <3> QED
        BY <3>1, RecordTypes
    <2>2. versions' \in Seq(Search) /\ versions' # <<>>
      BY <1>14, <2>1, AppendVersion DEF CreateSearch, EditSearch
    <2> QED
      BY <1>0, <1>14, <2>2 DEF TypeOK, CreateSearch, EditSearch, once, Edit
  <1>15. ASSUME NEW p \in BOOLEAN, Pause(p) PROVE TypeOK'
    <2>1. WithPause(Stored, p) \in Search
      BY <1>0, SearchUpdates, RecordTypes DEF Search
    <2>2. versions' \in Seq(Search) /\ versions' # <<>>
      BY <1>15, <2>1, AppendVersion DEF Pause, EditSearch
    <2> QED
      BY <1>0, <1>15, <2>2 DEF TypeOK, Pause, EditSearch, once, Edit
  <1>16. CASE ChangeSpec
    <2>1. NextGen(Stored) \in Search
      BY <1>0, SearchUpdates, RecordTypes DEF Search
    <2>2. versions' \in Seq(Search) /\ versions' # <<>>
      BY <1>16, <2>1, AppendVersion DEF ChangeSpec, EditSearch
    <2> QED
      BY <1>0, <1>16, <2>2 DEF TypeOK, ChangeSpec, EditSearch, once, Edit
  <1>17. CASE DeleteSearch
    <2>1. Gone(Stored.uid) \in Search /\ MarkedDeleted(Stored) \in Search
      BY <1>0, SearchUpdates, RecordTypes DEF Search
    <2>2. versions' \in Seq(Search) /\ versions' # <<>>
      <3>1. \/ versions' = Append(versions, Gone(Stored.uid))
            \/ versions' = Append(versions, MarkedDeleted(Stored))
        BY <1>17 DEF DeleteSearch, EditSearch
      <3> QED
        BY <3>1, <2>1, AppendVersion
    <2> QED
      BY <1>0, <1>17, <2>2 DEF TypeOK, DeleteSearch, EditSearch, once, Edit
  <1>18. ASSUME NEW o \in Objects, DeleteObject(o) PROVE TypeOK'
    BY <1>0, <1>18 DEF TypeOK, DeleteObject, Enqueue, worker, once, Edit
  <1>19. ASSUME NEW o \in Objects, ChangeObject(o) PROVE TypeOK'
    <2>1. Rebuilt(objs[o], 0) \in Object
      BY DEF TypeOK, Object, Rebuilt
    <2> QED
      BY <1>0, <1>19, <2>1 DEF TypeOK, ChangeObject, Enqueue, worker, once, Edit
  <1>20. CASE UNCHANGED vars
    BY <1>0, <1>20 DEF TypeOK, vars
  <1> QED
    BY <1>1, <1>2, <1>3, <1>4, <1>5, <1>6, <1>7, <1>8, <1>9, <1>10, <1>11, <1>12,
       <1>13, <1>14, <1>15, <1>16, <1>17, <1>18, <1>19, <1>20
    DEF Next, Worker, Environment

\* Every reachable state is well typed.
THEOREM TypeCorrect == Spec => []TypeOK
  BY InitType, NextType, PTL DEF Spec

-----------------------------------------------------------------------------
(* No privilege outlives the product.                                      *)

IInv == TypeOK /\ CacheInv /\ WorkerInv /\ FinalizeInv /\ RBACCovered

\* What a write by anybody but setFinalizer may put after the stored Search: it
\* neither gives nor takes the finalizer, and a deletion is never revoked.
Covered(v) == v.exists /\ v.finalizer
Follows(v) == /\ Covered(Stored) <=> Covered(v)
              /\ Covered(Stored) /\ Stored.deleting => v.deleting
              /\ ~v.exists => ~v.deleting /\ ~v.finalizer

\* The fields of the versions that are written.
LEMMA SearchFields ==
  ASSUME NEW v \in Search
  PROVE  /\ Finalizable(v).exists = v.exists /\ Finalizable(v).finalizer = TRUE
         /\ Finalizable(v).deleting = v.deleting
         /\ MarkedDeleted(v).exists = v.exists /\ MarkedDeleted(v).deleting = TRUE
         /\ MarkedDeleted(v).finalizer = v.finalizer
         /\ NextGen(v).exists = v.exists /\ NextGen(v).deleting = v.deleting
         /\ NextGen(v).finalizer = v.finalizer
         /\ \A p \in BOOLEAN : /\ WithPause(v, p).exists = v.exists
                                /\ WithPause(v, p).deleting = v.deleting
                                /\ WithPause(v, p).finalizer = v.finalizer
  BY DEF Search, Finalizable, MarkedDeleted, NextGen, WithPause

\* A Search that is gone has neither finalizer nor deletion; a new one likewise.
LEMMA FreshFields ==
  ASSUME NEW u
  PROVE  /\ ~Gone(u).exists /\ ~Gone(u).finalizer /\ ~Gone(u).deleting
         /\ NewSearch(u).exists /\ ~NewSearch(u).finalizer
         /\ ~NewSearch(u).deleting
  BY DEF Gone, NewSearch

\* A write that follows the stored Search keeps what the cache may show.
LEMMA FollowsKeepsCache ==
  ASSUME TypeOK, CacheInv, NEW v \in Search, Follows(v),
         versions' = Append(versions, v)
  PROVE  CacheInv' /\ Stored' = v
  <1>1. /\ Len(versions') = Len(versions) + 1 /\ Stored' = v
        /\ \A i \in 1 .. Len(versions) : versions'[i] = versions[i]
        /\ versions'[Len(versions')] = v
        /\ Len(versions) \in Nat /\ Len(versions) >= 1
    BY AppendVersion, StoredType
  <1> SUFFICES ASSUME NEW i \in 1 .. Len(versions')
               PROVE /\ Permits(versions'[i]) => v.exists /\ v.finalizer
                     /\ Condemns(versions'[i]) /\ v.exists /\ v.finalizer
                          => v.deleting
                     /\ ~versions'[i].exists
                          => ~versions'[i].deleting /\ ~versions'[i].finalizer
    BY <1>1 DEF CacheInv, Permits, Condemns
  <1>2. CASE i \in 1 .. Len(versions)
    <2>1. versions'[i] = versions[i]
      BY <1>1, <1>2
    <2>2. /\ Permits(versions[i]) => Covered(Stored)
          /\ Condemns(versions[i]) /\ Covered(Stored) => Stored.deleting
          /\ ~versions[i].exists => ~versions[i].deleting /\ ~versions[i].finalizer
      BY <1>2 DEF CacheInv, Covered
    <2> QED
      BY <2>1, <2>2, Zenon DEF Follows, Covered
  <1>3. CASE i = Len(versions')
    <2>1. versions'[i] = v
      BY <1>1, <1>3
    <2> QED
      BY <2>1, Zenon DEF Follows, Permits, Condemns
  <1> QED
    BY <1>1, <1>2, <1>3

\* A step that leaves the worker and the Search CR alone, and creates nothing.
LEMMA QuietKeeps ==
  ASSUME IInv, TypeOK', UNCHANGED <<versions, phase, at, inst, fresh>>,
         \A o \in Objects : objs'[o].there => objs[o].there
  PROVE  IInv'
  <1>1. Stored' = Stored
    BY DEF Stored
  <1>2. CacheInv' /\ WorkerInv'
    BY <1>1, Zenon DEF IInv, CacheInv, WorkerInv, Permits, Condemns
  <1>3. FinalizeInv'
    BY DEF IInv, FinalizeInv, Objects
  <1>4. RBACCovered'
    BY <1>1 DEF IInv, RBACCovered
  <1> QED
    BY <1>2, <1>3, <1>4 DEF IInv

\* A reconcile that ends without a write of the Search CR, and creates nothing.
LEMMA IdleKeeps ==
  ASSUME IInv, TypeOK', Idle, UNCHANGED versions,
         \A o \in Objects : objs'[o].there => objs[o].there
  PROVE  IInv'
  <1>1. Stored' = Stored
    BY DEF Stored
  <1>2. CacheInv'
    BY <1>1, Zenon DEF IInv, CacheInv, Permits, Condemns
  <1>3. WorkerInv' /\ FinalizeInv'
    BY DEF Idle, WorkerInv, FinalizeInv
  <1>4. RBACCovered'
    BY <1>1 DEF IInv, RBACCovered
  <1> QED
    BY <1>2, <1>3, <1>4 DEF IInv

\* A write of the Search CR by somebody else, or with the worker idle.
LEMMA FollowsKeeps ==
  ASSUME IInv, TypeOK', NEW v \in Search, Follows(v),
         versions' = Append(versions, v), phase = "idle" \/ ~fresh',
         UNCHANGED <<objs, phase, at, inst>>
  PROVE  IInv'
  <1>1. CacheInv' /\ Stored' = v
    BY FollowsKeepsCache DEF IInv
  <1>2. WorkerInv'
    BY <1>1, Zenon DEF IInv, WorkerInv, Follows, Covered, Permits, Condemns
  <1>3. FinalizeInv'
    BY DEF IInv, FinalizeInv
  <1>4. RBACCovered'
    BY <1>1, Zenon DEF IInv, RBACCovered, Follows, Covered
  <1> QED
    BY <1>1, <1>2, <1>3, <1>4 DEF IInv

\* The initial states satisfy the invariant.
LEMMA InitInv == Init => IInv
  <1> SUFFICES ASSUME Init PROVE IInv
    OBVIOUS
  <1>1. TypeOK /\ phase = "idle"
    BY InitType DEF Init
  <1>2. \A o \in FinalizedRBAC \cap Objects : ~objs[o].there
    BY DEF Init, FinalizedRBAC, Legacy, Absent, Preexisting
  <1>3. PICK v : /\ versions = <<v>>
                 /\ Permits(v) => v.exists /\ v.finalizer
                 /\ ~v.deleting
                 /\ ~v.exists => ~v.finalizer
    <2>1. NewSearch(1) \in Search
      BY RecordTypes
    <2>2. /\ Finalizable(NewSearch(1)).exists /\ Finalizable(NewSearch(1)).finalizer
          /\ ~Finalizable(NewSearch(1)).deleting
      BY <2>1, SearchFields, FreshFields
    <2>3. ~Gone(0).exists /\ ~Gone(0).finalizer /\ ~Gone(0).deleting
      BY FreshFields
    <2>4. CASE versions = <<Gone(0)>>
      BY <2>3, <2>4 DEF Permits
    <2>5. CASE versions = <<Finalizable(NewSearch(1))>>
      BY <2>2, <2>5 DEF Permits
    <2> QED
      BY <2>4, <2>5 DEF Init
  <1>4. Len(versions) = 1 /\ versions[1] = v /\ Stored = v
    BY <1>3 DEF Stored
  <1>5. CacheInv
    BY <1>3, <1>4 DEF CacheInv, Condemns
  <1> QED
    BY <1>1, <1>2, <1>5 DEF IInv, WorkerInv, FinalizeInv, RBACCovered

\* A reconcile starts from the cached Search.
LEMMA StartKeeps == IInv /\ TypeOK' /\ StartReconcile => IInv'
  <1> SUFFICES ASSUME IInv, TypeOK', StartReconcile PROVE IInv'
    OBVIOUS
  <1>0. UNCHANGED <<versions, objs>>
    BY DEF StartReconcile, cluster
  <1>1. CASE ~Cached.exists
    BY <1>0, <1>1, IdleKeeps DEF StartReconcile
  <1>2. CASE Cached.exists
    <2>1. /\ phase' = "setFinalizer" /\ inst' = Cached
          /\ fresh' => Len(versions) = 1
      BY <1>2 DEF StartReconcile
    <2>2. /\ Stored' = Stored /\ Cached = versions[1] /\ Len(versions) \in Nat
          /\ Len(versions) >= 1 /\ 1 \in 1 .. Len(versions)
      BY <1>0, StoredType DEF Stored, IInv
    <2>3. fresh' => Cached = Stored
      BY <2>1, <2>2 DEF Stored
    <2>4. /\ Permits(Cached) => Stored.exists /\ Stored.finalizer
          /\ Condemns(Cached) /\ Stored.exists /\ Stored.finalizer
               => Stored.deleting
      BY <2>2 DEF IInv, CacheInv
    <2>5. WorkerInv'
      BY <1>0, <1>2, <2>1, <2>2, <2>3, <2>4 DEF WorkerInv, Permits, Condemns
    <2>6. CacheInv' /\ RBACCovered'
      BY <1>0, <2>2, Zenon DEF IInv, CacheInv, RBACCovered, Permits, Condemns
    <2>7. FinalizeInv'
      BY <2>1 DEF FinalizeInv
    <2> QED
      BY <2>5, <2>6, <2>7 DEF IInv
  <1> QED
    BY <1>1, <1>2

\* setFinalizer gives the finalizer only to the stored Search.
LEMMA setFinalizerKeeps == IInv /\ TypeOK' /\ setFinalizer => IInv'
  <1> SUFFICES ASSUME IInv, TypeOK', setFinalizer PROVE IInv'
    OBVIOUS
  <1>0. UNCHANGED objs /\ phase = "setFinalizer" /\ inst \in Search /\ inst.exists
    BY DEF setFinalizer, IInv, WorkerInv, TypeOK
  <1>1. CASE UNCHANGED versions /\ Idle
    BY <1>0, <1>1, IdleKeeps
  <1>2. CASE UNCHANGED <<versions, inst, fresh>> /\ Condemns(inst)
             /\ phase' = "finalize" /\ at' = 1
    <2>1. Stored' = Stored
      BY <1>2 DEF Stored
    <2>2. WorkerInv'
      BY <1>0, <1>2, <2>1 DEF IInv, WorkerInv, Permits, Condemns
    <2>3. CacheInv' /\ RBACCovered'
      BY <1>0, <1>2, <2>1, Zenon DEF IInv, CacheInv, RBACCovered, Permits, Condemns
    <2>4. FinalizeInv'
      BY <1>2 DEF FinalizeInv, finalizeSearch
    <2> QED
      BY <2>2, <2>3, <2>4 DEF IInv
  <1>3. CASE /\ UNCHANGED <<versions, inst, fresh>> /\ Permits(inst)
             /\ phase' = "apply"
    <2>1. Stored' = Stored
      BY <1>3 DEF Stored
    <2>2. WorkerInv'
      BY <1>0, <1>3, <2>1 DEF IInv, WorkerInv, Permits, Condemns
    <2>3. CacheInv' /\ RBACCovered'
      BY <1>0, <1>3, <2>1, Zenon DEF IInv, CacheInv, RBACCovered, Permits, Condemns
    <2>4. FinalizeInv'
      BY <1>3 DEF FinalizeInv
    <2> QED
      BY <2>2, <2>3, <2>4 DEF IInv
  <1>4. CASE /\ ~inst.deleting /\ fresh
             /\ versions' = Append(versions, Finalizable(inst))
             /\ \/ Idle
                \/ phase' = "apply" /\ inst' = Finalizable(inst)
    <2>1. inst = Stored /\ Len(versions) = 1
      BY <1>0, <1>4 DEF IInv, WorkerInv
    <2>2. /\ Finalizable(inst) \in Search /\ Finalizable(inst).exists
          /\ Finalizable(inst).finalizer /\ ~Finalizable(inst).deleting
      BY <1>0, <1>4, SearchUpdates, SearchFields
    <2>3. /\ Stored' = Finalizable(inst) /\ Len(versions') = 2
          /\ versions'[1] = inst /\ versions'[2] = Finalizable(inst)
      BY <1>4, <2>1, <2>2, AppendVersion DEF IInv, Stored
    <2>4. CacheInv'
      <3> SUFFICES ASSUME NEW i \in 1 .. 2
                   PROVE /\ Permits(versions'[i]) => Stored'.exists /\ Stored'.finalizer
                         /\ ~Condemns(versions'[i]) /\ versions'[i].exists
        BY <2>3 DEF CacheInv, Permits, Condemns
      <3>1. CASE i = 1
        BY <1>0, <1>4, <2>2, <2>3, <3>1, Zenon DEF Permits, Condemns
      <3>2. CASE i = 2
        BY <2>2, <2>3, <3>2, Zenon DEF Permits, Condemns
      <3> QED
        BY <3>1, <3>2
    <2>5. WorkerInv' /\ FinalizeInv'
      BY <1>4, <2>2, <2>3 DEF Idle, WorkerInv, FinalizeInv
    <2>6. RBACCovered'
      BY <2>2, <2>3 DEF RBACCovered
    <2> QED
      BY <2>4, <2>5, <2>6 DEF IInv
  <1> QED
    BY <1>0, <1>1, <1>2, <1>3, <1>4
    DEF setFinalizer, Goto, KeepInst, Return, Requeue, PauseCheck, UpdateSearch,
        Permits, Condemns

\* finalizeSearch covers the RBAC objects it is responsible for.
LEMMA FinalizeCovers ==
  /\ Len(finalizeSearch) = 7
  /\ \A j \in 1 .. 7 : finalizeSearch[j] \in Objects
  /\ \A o \in FinalizedRBAC : \E j \in 1 .. 7 : finalizeSearch[j] = o
  <1>1. Len(finalizeSearch) = 7 /\ DOMAIN finalizeSearch = 1 .. 7
    BY DEF finalizeSearch
  <1>2. \A j \in 1 .. 7 : finalizeSearch[j] \in Objects
    BY <1>1 DEF Objects
  <1>3. /\ finalizeSearch[2] = "addon-cr" /\ finalizeSearch[4] = "api-crb"
        /\ finalizeSearch[5] = "collector-crb" /\ finalizeSearch[6] = "indexer-cr"
        /\ finalizeSearch[7] = "indexer-crb"
    BY DEF finalizeSearch
  <1> QED
    BY <1>1, <1>2, <1>3 DEF FinalizedRBAC

\* A step of finalizeSearch takes down one object more, or gives up.
LEMMA FinalizeStepKeeps == IInv /\ TypeOK' /\ FinalizeStep => IInv'
  <1> SUFFICES ASSUME IInv, TypeOK', FinalizeStep PROVE IInv'
    OBVIOUS
  <1>0. UNCHANGED versions /\ Stored' = Stored /\ ~Absent.there
        /\ objs \in [Objects -> Object] /\ at \in Nat /\ phase = "finalize"
    BY DEF FinalizeStep, Stored, Absent, IInv, TypeOK
  <1>1. CASE Idle /\ UNCHANGED objs
    BY <1>0, <1>1, IdleKeeps
  <1>2. CASE /\ objs' = [objs EXCEPT ![finalizeSearch[at]] = Absent]
             /\ phase' = "finalize" /\ at' = at + 1 /\ UNCHANGED <<inst, fresh>>
    <2>1. \A o \in Objects : objs'[o].there => objs[o].there
      BY <1>0, <1>2
    <2>2. RBACCovered'
      BY <1>0, <2>1 DEF IInv, RBACCovered
    <2>3. CacheInv' /\ WorkerInv'
      BY <1>0, <1>2, Zenon DEF IInv, CacheInv, WorkerInv, Permits, Condemns
    <2>4. FinalizeInv'
      BY <1>0, <1>2, <2>1, FinalizeCovers DEF IInv, FinalizeInv
    <2> QED
      BY <2>2, <2>3, <2>4 DEF IInv
  <1> QED
    BY <1>1, <1>2 DEF FinalizeStep, Goto, KeepInst, Requeue

\* The finalizer goes last: by then finalizeSearch has taken everything down.
LEMMA RemoveFinalizerKeeps == IInv /\ TypeOK' /\ RemoveFinalizer => IInv'
  <1> SUFFICES ASSUME IInv, TypeOK', RemoveFinalizer PROVE IInv'
    OBVIOUS
  <1>0. /\ UNCHANGED objs /\ Idle /\ phase = "finalize"
        /\ at > Len(finalizeSearch) /\ at \in Nat
        /\ inst \in Search /\ Condemns(inst)
    BY DEF RemoveFinalizer, Return, Requeue, IInv, WorkerInv, TypeOK
  <1>1. CASE UNCHANGED versions
    BY <1>0, <1>1, IdleKeeps
  <1>2. CASE fresh /\ versions' = Append(versions, Gone(inst.uid))
    <2>1. inst = Stored /\ Len(versions) = 1
      BY <1>0, <1>2 DEF IInv, WorkerInv
    <2>2. /\ Gone(inst.uid) \in Search /\ ~Gone(inst.uid).exists
          /\ ~Gone(inst.uid).finalizer /\ ~Gone(inst.uid).deleting
      BY <1>0, RecordTypes, FreshFields DEF Search
    <2>3. /\ Stored' = Gone(inst.uid) /\ Len(versions') = 2
          /\ versions'[1] = inst /\ versions'[2] = Gone(inst.uid)
      BY <1>2, <2>1, <2>2, AppendVersion DEF IInv, Stored
    <2>4. CacheInv'
      <3> SUFFICES ASSUME NEW i \in 1 .. 2
                   PROVE /\ ~Permits(versions'[i])
                         /\ ~versions'[i].exists
                              => ~versions'[i].deleting /\ ~versions'[i].finalizer
        BY <2>2, <2>3 DEF CacheInv, Permits, Condemns
      <3>1. CASE i = 1
        BY <1>0, <2>3, <3>1, Zenon DEF Permits, Condemns
      <3>2. CASE i = 2
        BY <2>2, <2>3, <3>2, Zenon DEF Permits, Condemns
      <3> QED
        BY <3>1, <3>2
    <2>5. WorkerInv' /\ FinalizeInv'
      BY <1>0 DEF Idle, WorkerInv, FinalizeInv
    <2>6. \A o \in FinalizedRBAC \cap Objects : ~objs[o].there
      BY <1>0, FinalizeCovers DEF IInv, FinalizeInv
    <2>7. RBACCovered'
      BY <1>0, <2>6 DEF RBACCovered
    <2> QED
      BY <2>4, <2>5, <2>7 DEF IInv
  <1> QED
    BY <1>1, <1>2 DEF RemoveFinalizer, UpdateSearch

\* Ensure-steps run only while the stored Search carries the finalizer, so what
\* they create is covered, however old the Search they work from is.
LEMMA ApplyKeeps ==
  ASSUME IInv, TypeOK', phase = "apply", UNCHANGED versions,
         Idle \/ (phase' = "apply" /\ UNCHANGED <<inst, fresh>>)
  PROVE  IInv'
  <1>1. Stored' = Stored /\ Stored.exists /\ Stored.finalizer
    BY DEF Stored, IInv, WorkerInv
  <1>2. RBACCovered'
    BY <1>1 DEF RBACCovered
  <1>3. CacheInv'
    BY <1>1, Zenon DEF IInv, CacheInv, Permits, Condemns
  <1>4. WorkerInv' /\ FinalizeInv'
    BY <1>1 DEF IInv, WorkerInv, FinalizeInv, Idle, Permits, Condemns
  <1> QED
    BY <1>2, <1>3, <1>4 DEF IInv

\* The optional features write the Search CR without touching the finalizer.
LEMMA FeaturesKeep == IInv /\ TypeOK' /\ ApplyFeatures => IInv'
  <1> SUFFICES ASSUME IInv, TypeOK', ApplyFeatures PROVE IInv'
    OBVIOUS
  <1>0. /\ UNCHANGED objs /\ phase = "apply" /\ inst \in Search
        /\ inst.exists /\ inst.finalizer /\ ~inst.deleting
    BY DEF ApplyFeatures, IInv, WorkerInv, TypeOK
  <1>1. CASE UNCHANGED versions
             /\ (Idle \/ (phase' = "apply" /\ UNCHANGED <<inst, fresh>>))
    BY <1>0, <1>1, ApplyKeeps
  <1>2. CASE /\ fresh /\ versions' = Append(versions, NextGen(inst))
             /\ Idle \/ (phase' = "apply" /\ inst' = NextGen(inst))
    <2>1. inst = Stored
      BY <1>0, <1>2 DEF IInv, WorkerInv
    <2>2. /\ NextGen(inst) \in Search /\ NextGen(inst).exists
          /\ NextGen(inst).finalizer /\ ~NextGen(inst).deleting
      BY <1>0, SearchUpdates, SearchFields
    <2>3. Follows(NextGen(inst))
      BY <1>0, <2>1, <2>2, Zenon DEF Follows, Covered
    <2>4. CacheInv' /\ Stored' = NextGen(inst)
      BY <1>2, <2>2, <2>3, FollowsKeepsCache DEF IInv
    <2>5. WorkerInv' /\ FinalizeInv'
      BY <1>2, <2>2, <2>4 DEF Idle, WorkerInv, FinalizeInv
    <2>6. RBACCovered'
      BY <2>2, <2>4 DEF RBACCovered
    <2> QED
      BY <2>4, <2>5, <2>6 DEF IInv
  <1> QED
    BY <1>1, <1>2
    DEF ApplyFeatures, UpdateSearch, NextStep, NextStepWith, Requeue

\* The informer moves on to a version that was already accounted for.
LEMMA DeliverKeeps == IInv /\ TypeOK' /\ Deliver => IInv'
  <1> SUFFICES ASSUME IInv, TypeOK', Deliver PROVE IInv'
    OBVIOUS
  <1>1. /\ Len(versions') = Len(versions) - 1 /\ Stored' = Stored
        /\ \A i \in 1 .. Len(versions') : versions'[i] = versions[i + 1]
        /\ Len(versions) > 1 /\ Len(versions) \in Nat
        /\ UNCHANGED <<objs, phase, at, inst, fresh>>
    BY TailVersions, StoredType DEF IInv, Deliver, worker
  <1>2. CacheInv'
    <2> SUFFICES ASSUME NEW i \in 1 .. Len(versions')
                 PROVE /\ Permits(versions'[i]) => Stored.exists /\ Stored.finalizer
                       /\ Condemns(versions'[i]) /\ Stored.exists
                            /\ Stored.finalizer => Stored.deleting
                       /\ ~versions'[i].exists
                            => ~versions'[i].deleting /\ ~versions'[i].finalizer
      BY <1>1 DEF CacheInv, Permits, Condemns
    <2>1. i + 1 \in 1 .. Len(versions) /\ versions'[i] = versions[i + 1]
      BY <1>1
    <2> QED
      BY <2>1, Zenon DEF IInv, CacheInv
  <1>3. WorkerInv'
    BY <1>1 DEF IInv, WorkerInv, Permits, Condemns
  <1>4. FinalizeInv' /\ RBACCovered'
    BY <1>1 DEF IInv, FinalizeInv, RBACCovered
  <1> QED
    BY <1>2, <1>3, <1>4 DEF IInv

\* A crash forgets the cache and the worker, never the stored Search.
LEMMA CrashKeeps == IInv /\ TypeOK' /\ Crash => IInv'
  <1> SUFFICES ASSUME IInv, TypeOK', Crash PROVE IInv'
    OBVIOUS
  <1>1. /\ Len(versions') = 1 /\ versions'[1] = Stored /\ Stored' = Stored
        /\ Idle /\ UNCHANGED objs
    BY DEF Crash, Stored
  <1>2. /\ Len(versions) \in 1 .. Len(versions)
        /\ versions[Len(versions)] = Stored
    BY StoredType DEF IInv, Stored
  <1>3. ~Stored.exists => ~Stored.deleting /\ ~Stored.finalizer
    BY <1>2 DEF IInv, CacheInv
  <1>4. CacheInv'
    BY <1>1, <1>3 DEF CacheInv, Permits, Condemns
  <1>5. WorkerInv' /\ FinalizeInv'
    BY <1>1 DEF Idle, WorkerInv, FinalizeInv
  <1>6. RBACCovered'
    BY <1>1 DEF IInv, RBACCovered
  <1> QED
    BY <1>4, <1>5, <1>6 DEF IInv

\* What others write to the Search CR follows what is stored.
LEMMA EditsFollow ==
  ASSUME IInv
  PROVE  /\ ~Stored.exists => /\ NewSearch(Stored.uid + 1) \in Search
                              /\ Follows(NewSearch(Stored.uid + 1))
         /\ NextGen(Stored) \in Search /\ Follows(NextGen(Stored))
         /\ \A p \in BOOLEAN : /\ WithPause(Stored, p) \in Search
                                /\ Follows(WithPause(Stored, p))
         /\ Stored.exists => /\ MarkedDeleted(Stored) \in Search
                             /\ Follows(MarkedDeleted(Stored))
         /\ ~Stored.finalizer => /\ Gone(Stored.uid) \in Search
                                 /\ Follows(Gone(Stored.uid))
  <1>1. /\ Stored \in Search /\ Stored.uid \in Nat /\ Stored.uid + 1 \in Nat
        /\ Len(versions) \in 1 .. Len(versions)
        /\ versions[Len(versions)] = Stored
    BY StoredType DEF IInv, Stored, Search
  <1>2. ~Stored.exists => ~Stored.deleting /\ ~Stored.finalizer
    BY <1>1 DEF IInv, CacheInv
  <1>3. ~Stored.exists => /\ NewSearch(Stored.uid + 1) \in Search
                          /\ Follows(NewSearch(Stored.uid + 1))
    BY <1>1, <1>2, RecordTypes, FreshFields, Zenon DEF Follows, Covered
  <1>4. NextGen(Stored) \in Search /\ Follows(NextGen(Stored))
    BY <1>1, <1>2, SearchUpdates, SearchFields, Zenon DEF Follows, Covered
  <1>5. ASSUME NEW p \in BOOLEAN
        PROVE WithPause(Stored, p) \in Search /\ Follows(WithPause(Stored, p))
    BY <1>1, <1>2, SearchUpdates, SearchFields, Zenon DEF Follows, Covered
  <1>6. Stored.exists => /\ MarkedDeleted(Stored) \in Search
                         /\ Follows(MarkedDeleted(Stored))
    BY <1>1, <1>2, SearchUpdates, SearchFields, Zenon DEF Follows, Covered
  <1>7. ~Stored.finalizer => /\ Gone(Stored.uid) \in Search
                             /\ Follows(Gone(Stored.uid))
    BY <1>1, RecordTypes, FreshFields, Zenon DEF Follows, Covered
  <1> QED
    BY <1>3, <1>4, <1>5, <1>6, <1>7

\* Every step preserves the invariant.
LEMMA NextInv == IInv /\ [Next]_vars => IInv'
  <1> SUFFICES ASSUME IInv, [Next]_vars PROVE IInv'
    OBVIOUS
  <1>0. TypeOK /\ TypeOK' /\ objs \in [Objects -> Object] /\ ~Absent.there
    BY NextType DEF IInv, TypeOK, Absent
  <1>1. CASE StartReconcile
    BY <1>0, <1>1, StartKeeps
  <1>2. CASE setFinalizer
    BY <1>0, <1>2, setFinalizerKeeps
  <1>3. CASE FinalizeStep
    BY <1>0, <1>3, FinalizeStepKeeps
  <1>4. CASE RemoveFinalizer
    BY <1>0, <1>4, RemoveFinalizerKeeps
  <1>5. CASE ApplyStep
    <2>1. /\ phase = "apply" /\ UNCHANGED versions
          /\ Idle \/ (phase' = "apply" /\ UNCHANGED <<inst, fresh>>)
      BY <1>5 DEF ApplyStep, NextStep, NextStepWith
    <2> QED
      BY <1>0, <2>1, ApplyKeeps
  <1>6. CASE ApplyGetError
    <2>1. /\ phase = "apply" /\ UNCHANGED versions
          /\ Idle \/ (phase' = "apply" /\ UNCHANGED <<inst, fresh>>)
      BY <1>6 DEF ApplyGetError, NextStep, NextStepWith, Requeue
    <2> QED
      BY <1>0, <2>1, ApplyKeeps
  <1>7. CASE ApplyWriteError
    <2>1. /\ phase = "apply" /\ UNCHANGED versions
          /\ Idle \/ (phase' = "apply" /\ UNCHANGED <<inst, fresh>>)
      BY <1>7 DEF ApplyWriteError, NextStep, NextStepWith, Requeue
    <2> QED
      BY <1>0, <2>1, ApplyKeeps
  <1>8. CASE ApplyFeatures
    BY <1>0, <1>8, FeaturesKeep
  <1>9. CASE UpdateStatus
    <2>1. Cached = Stored /\ Stored \in Search
      BY <1>0, <1>9, StoredType DEF UpdateStatus, Stored
    <2>2. Follows(Stored)
      <3>1. 1 \in 1 .. Len(versions) /\ versions[1] = Stored
        BY <1>0, <2>1, StoredType
      <3> QED
        BY <3>1, Zenon DEF IInv, CacheInv, Follows, Covered
    <2> QED
      BY <1>0, <1>9, <2>1, <2>2, FollowsKeeps DEF UpdateStatus, worker
  <1>10. CASE Deliver
    BY <1>0, <1>10, DeliverKeeps
  <1>11. CASE Resync
    BY <1>0, <1>11, QuietKeeps DEF Resync, cluster, worker
  <1>12. CASE Crash
    BY <1>0, <1>12, CrashKeeps
  <1>13. ASSUME NEW o \in Objects,
                GarbageCollect(o) \/ DeleteObject(o)
         PROVE IInv'
    <2>1. /\ objs' = [objs EXCEPT ![o] = Absent]
          /\ UNCHANGED <<versions, phase, at, inst, fresh>>
      BY <1>13 DEF GarbageCollect, DeleteObject, worker
    <2>2. \A q \in Objects : objs'[q].there => objs[q].there
      BY <1>0, <2>1
    <2> QED
      BY <1>0, <2>1, <2>2, QuietKeeps
  <1>14. CASE CreateSearch
    BY <1>0, <1>14, EditsFollow, FollowsKeeps DEF CreateSearch, EditSearch
  <1>15. ASSUME NEW p \in BOOLEAN, Pause(p) PROVE IInv'
    BY <1>0, <1>15, EditsFollow, FollowsKeeps DEF Pause, EditSearch
  <1>16. CASE ChangeSpec
    BY <1>0, <1>16, EditsFollow, FollowsKeeps DEF ChangeSpec, EditSearch
  <1>17. CASE DeleteSearch
    BY <1>0, <1>17, EditsFollow, FollowsKeeps DEF DeleteSearch, EditSearch
  <1>18. ASSUME NEW o \in Objects, ChangeObject(o) PROVE IInv'
    <2>1. /\ objs' = [objs EXCEPT ![o] = Rebuilt(objs[o], 0)]
          /\ objs[o].there
          /\ UNCHANGED <<versions, phase, at, inst, fresh>>
      BY <1>18 DEF ChangeObject, worker
    <2>2. \A q \in Objects : objs'[q].there => objs[q].there
      BY <1>0, <2>1
    <2> QED
      BY <1>0, <2>1, <2>2, QuietKeeps
  <1>19. CASE UNCHANGED vars
    BY <1>0, <1>19, QuietKeeps DEF vars
  <1> QED
    BY <1>1, <1>2, <1>3, <1>4, <1>5, <1>6, <1>7, <1>8, <1>9, <1>10, <1>11, <1>12,
       <1>13, <1>14, <1>15, <1>16, <1>17, <1>18, <1>19
    DEF Next, Worker, Environment

\* The invariant holds in every reachable state.
LEMMA InvHolds == Spec => []IInv
  BY InitInv, NextInv, PTL DEF Spec

\* A ClusterRole or ClusterRoleBinding that finalizeSearch is responsible for
\* exists only while the stored Search carries the finalizer, for every plan of
\* ensure-steps and any number of faults and edits.
THEOREM RBACAlwaysCovered == Spec => []RBACCovered
  <1>1. IInv => RBACCovered
    BY DEF IInv
  <1> QED
    BY <1>1, InvHolds, PTL

\* finalizeSearch takes nothing from a Search that is not being deleted, even
\* when a stale read of a deleted predecessor started it.
THEOREM FinalizeSparesLive == Spec => FinalizerSparesLive
  <1> DEFINE A == phase = "finalize" /\ ~(Stored.exists /\ Stored.deleting)
                    /\ phase' = "finalize"
                  => \A o \in FinalizedRBAC \cap Objects :
                        objs[o].there => objs'[o].there
  <1>1. IInv => A
    BY DEF IInv, WorkerInv, RBACCovered
  <1>2. IInv /\ [Next]_vars => [A]_vars
    BY <1>1
  <1> QED
    BY <1>2, InvHolds, PTL DEF FinalizerSparesLive, Spec

-----------------------------------------------------------------------------
(* SearchLifecycle implements ProductLife.                                 *)

LifeStep == Life!Next \/ UNCHANGED Life!life

\* A step that leaves the standing of the Search and the privileges as they are.
LEMMA LifeQuiet ==
  ASSUME LifeOf(Stored)' = LifeOf(Stored), UNCHANGED objs
  PROVE  LifeStep
  <1>1. Granted' = Granted
    BY DEF Granted
  <1> QED
    BY <1>1 DEF LifeStep, Life!life

\* A step that writes one object, and creates it only under the finalizer.
LEMMA LifeObject ==
  ASSUME TypeOK, NEW o \in Objects, NEW x \in Object,
         objs' = [objs EXCEPT ![o] = x], UNCHANGED versions,
         x.there => objs[o].there \/ Covered(Stored)
  PROVE  LifeStep
  <1>1. LifeOf(Stored)' = LifeOf(Stored)
    BY DEF Stored
  <1>2. objs \in [Objects -> Object] /\ objs'[o] = x
        /\ \A q \in Objects : q # o => objs'[q] = objs[q]
    BY DEF TypeOK
  <1>3. CASE o \in FinalizedRBAC /\ x.there /\ ~objs[o].there
    <2>1. Granted' = Granted \cup {o}
      BY <1>2, <1>3 DEF Granted
    <2>2. LifeOf(Stored) \in {"guarded", "terminating"}
      BY <1>3 DEF Covered, LifeOf
    <2>3. Life!Grant(o)
      BY <1>1, <2>1, <2>2 DEF Life!Grant
    <2> QED
      BY <1>3, <2>3 DEF LifeStep, Life!Next
  <1>4. CASE o \in FinalizedRBAC /\ ~x.there
    <2>1. Granted' = Granted \ {o}
      BY <1>2, <1>4 DEF Granted
    <2>2. Life!Revoke(o)
      BY <1>1, <2>1 DEF Life!Revoke
    <2> QED
      BY <1>4, <2>2 DEF LifeStep, Life!Next
  <1>5. CASE o \notin FinalizedRBAC \/ (x.there /\ objs[o].there)
    <2>1. Granted' = Granted
      BY <1>2, <1>5 DEF Granted
    <2> QED
      BY <1>1, <2>1 DEF LifeStep, Life!life
  <1> QED
    BY <1>3, <1>4, <1>5

\* The initial states of the life cycle are initial states of ProductLife.
LEMMA LifeInit == Init => Life!Init
  <1> SUFFICES ASSUME Init PROVE Life!Init
    OBVIOUS
  <1>1. Granted = {}
    BY DEF Init, Granted, FinalizedRBAC, Legacy, Absent, Preexisting
  <1>2. LifeOf(Stored) \in {"none", "guarded"}
    <2>1. NewSearch(1) \in Search
      BY RecordTypes
    <2>2. /\ Finalizable(NewSearch(1)).exists /\ Finalizable(NewSearch(1)).finalizer
          /\ ~Finalizable(NewSearch(1)).deleting
      BY <2>1, SearchFields, FreshFields
    <2>3. ~Gone(0).exists
      BY FreshFields
    <2>4. Stored = Gone(0) \/ Stored = Finalizable(NewSearch(1))
      BY DEF Init, Stored
    <2> QED
      BY <2>2, <2>3, <2>4 DEF LifeOf
  <1> QED
    BY <1>1, <1>2 DEF Life!Init

\* What each write of the Search CR does to its standing.
LEMMA LifeFields ==
  ASSUME NEW v \in Search
  PROVE  /\ LifeOf(NextGen(v)) = LifeOf(v)
         /\ \A p \in BOOLEAN : LifeOf(WithPause(v, p)) = LifeOf(v)
         /\ v.exists => LifeOf(MarkedDeleted(v)) = "terminating"
         /\ v.exists /\ ~v.deleting => LifeOf(Finalizable(v)) = "guarded"
         /\ \A u : LifeOf(Gone(u)) = "none" /\ LifeOf(NewSearch(u)) = "plain"
  <1>0. /\ NextGen(v).exists = v.exists /\ NextGen(v).deleting = v.deleting
        /\ NextGen(v).finalizer = v.finalizer
        /\ \A p \in BOOLEAN : /\ WithPause(v, p).exists = v.exists
                               /\ WithPause(v, p).deleting = v.deleting
                               /\ WithPause(v, p).finalizer = v.finalizer
    BY SearchFields
  <1>1. /\ LifeOf(NextGen(v)) = LifeOf(v)
        /\ \A p \in BOOLEAN : LifeOf(WithPause(v, p)) = LifeOf(v)
    BY <1>0, Zenon DEF LifeOf
  <1>2. /\ v.exists => LifeOf(MarkedDeleted(v)) = "terminating"
        /\ v.exists /\ ~v.deleting => LifeOf(Finalizable(v)) = "guarded"
    BY SearchFields DEF LifeOf
  <1>3. \A u : LifeOf(Gone(u)) = "none" /\ LifeOf(NewSearch(u)) = "plain"
    BY FreshFields DEF LifeOf
  <1> QED
    BY <1>1, <1>2, <1>3

\* The finalizer guards a Search that is not being deleted.
LEMMA LifeSetFinalizer == IInv /\ setFinalizer => LifeStep
  <1> SUFFICES ASSUME IInv, setFinalizer PROVE LifeStep
    OBVIOUS
  <1>0. TypeOK /\ UNCHANGED objs /\ phase = "setFinalizer" /\ inst \in Search /\ inst.exists
    BY DEF setFinalizer, IInv, WorkerInv, TypeOK
  <1>1. CASE UNCHANGED versions
    <2>1. LifeOf(Stored)' = LifeOf(Stored)
      BY <1>1 DEF Stored
    <2> QED
      BY <1>0, <2>1, LifeQuiet
  <1>2. CASE /\ ~inst.deleting /\ ~inst.finalizer /\ fresh
             /\ versions' = Append(versions, Finalizable(inst))
    <2>1. inst = Stored
      BY <1>0, <1>2 DEF IInv, WorkerInv
    <2>2. Finalizable(inst) \in Search
      BY <1>0, SearchUpdates
    <2>3. Stored' = Finalizable(inst)
      BY <1>0, <1>2, <2>2, AppendVersion
    <2>4. LifeOf(Stored) = "plain"
      BY <1>0, <1>2, <2>1 DEF LifeOf
    <2>5. LifeOf(Stored)' = "guarded"
      BY <1>0, <1>2, <2>3, LifeFields
    <2>6. Granted' = Granted
      BY <1>0 DEF Granted
    <2>7. Life!Guard
      BY <2>4, <2>5, <2>6 DEF Life!Guard
    <2> QED
      BY <2>7 DEF LifeStep, Life!Next
  <1> QED
    BY <1>1, <1>2 DEF setFinalizer, UpdateSearch

\* The Search goes when all privileges have been revoked.
LEMMA LifeRemoveFinalizer == IInv /\ RemoveFinalizer => LifeStep
  <1> SUFFICES ASSUME IInv, RemoveFinalizer PROVE LifeStep
    OBVIOUS
  <1>0. /\ TypeOK /\ UNCHANGED objs /\ phase = "finalize"
        /\ at > Len(finalizeSearch) /\ at \in Nat
        /\ inst \in Search /\ Condemns(inst)
    BY DEF RemoveFinalizer, IInv, WorkerInv, TypeOK
  <1>1. CASE UNCHANGED versions
    <2>1. LifeOf(Stored)' = LifeOf(Stored)
      BY <1>1 DEF Stored
    <2> QED
      BY <1>0, <2>1, LifeQuiet
  <1>2. CASE fresh /\ versions' = Append(versions, Gone(inst.uid))
    <2>1. inst = Stored
      BY <1>0, <1>2 DEF IInv, WorkerInv
    <2>2. Gone(inst.uid) \in Search
      BY <1>0, RecordTypes DEF Search
    <2>3. Stored' = Gone(inst.uid)
      BY <1>0, <1>2, <2>2, AppendVersion
    <2>4. LifeOf(Stored) = "terminating"
      BY <1>0, <2>1 DEF LifeOf, Condemns
    <2>5. LifeOf(Stored)' = "none"
      BY <1>0, <2>3, LifeFields
    <2>6. Granted = {} /\ Granted' = {}
      BY <1>0, FinalizeCovers DEF IInv, FinalizeInv, Granted
    <2>7. Life!Complete
      BY <2>4, <2>5, <2>6 DEF Life!Complete
    <2> QED
      BY <2>7 DEF LifeStep, Life!Next
  <1> QED
    BY <1>1, <1>2 DEF RemoveFinalizer, UpdateSearch

\* An ensure-step works under the finalizer, whatever it writes.
LEMMA LifeApply ==
  ASSUME IInv, at \in DOMAIN Plan, phase = "apply", UNCHANGED versions,
         NEW x \in Object,
         objs' = objs \/ objs' = [objs EXCEPT ![Now.obj] = x]
  PROVE  LifeStep
  <1>1. TypeOK /\ Covered(Stored) /\ Now.obj \in Objects
    BY WrittenType DEF IInv, WorkerInv, Covered
  <1>2. CASE objs' = objs
    <2>1. LifeOf(Stored)' = LifeOf(Stored)
      BY DEF Stored
    <2> QED
      BY <1>2, <2>1, LifeQuiet
  <1>3. CASE objs' = [objs EXCEPT ![Now.obj] = x]
    BY <1>1, <1>3, LifeObject
  <1> QED
    BY <1>2, <1>3

\* What others do to the Search CR.
LEMMA LifeEdits ==
  ASSUME IInv, NEW v \in Search, EditSearch(v),
         \/ LifeOf(v) = LifeOf(Stored)
         \/ LifeOf(Stored) = "none" /\ LifeOf(v) = "plain"
         \/ LifeOf(Stored) = "plain" /\ LifeOf(v) = "none"
         \/ LifeOf(Stored) = "guarded" /\ LifeOf(v) = "terminating"
  PROVE  LifeStep
  <1>1. TypeOK /\ versions' = Append(versions, v) /\ UNCHANGED objs
    BY DEF IInv, EditSearch
  <1>2. Stored' = v
    BY <1>1, AppendVersion
  <1>3. Granted' = Granted
    BY <1>1 DEF Granted
  <1> QED
    BY <1>2, <1>3 DEF LifeStep, Life!life, Life!Next, Life!Install, Life!Remove

\* Every step of the life cycle is a step of ProductLife or none.
LEMMA LifeNext == IInv /\ [Next]_vars => LifeStep
  <1> SUFFICES ASSUME IInv, [Next]_vars PROVE LifeStep
    OBVIOUS
  <1>0. /\ TypeOK /\ Stored \in Search /\ Stored.uid \in Nat /\ Absent \in Object
        /\ ~Absent.there /\ objs \in [Objects -> Object]
    BY StoredType, RecordTypes DEF IInv, TypeOK, Absent, Search
  <1>1. CASE UNCHANGED objs /\ Stored' = Stored
    BY <1>1, LifeQuiet
  <1>2. CASE StartReconcile \/ Resync \/ UNCHANGED vars
    BY <1>1, <1>2 DEF StartReconcile, Resync, vars, cluster, Stored
  <1>3. CASE setFinalizer
    BY <1>3, LifeSetFinalizer
  <1>4. CASE FinalizeStep
    <2>1. CASE UNCHANGED objs
      BY <1>1, <1>4, <2>1 DEF FinalizeStep, Stored
    <2>2. CASE objs' = [objs EXCEPT ![finalizeSearch[at]] = Absent]
      <3>1. CASE finalizeSearch[at] \in Objects
        BY <1>0, <1>4, <2>2, <3>1, LifeObject DEF FinalizeStep
      <3>2. CASE finalizeSearch[at] \notin Objects
        BY <1>0, <2>1, <2>2, <3>2
      <3> QED
        BY <3>1, <3>2
    <2> QED
      BY <1>4, <2>1, <2>2 DEF FinalizeStep
  <1>5. CASE RemoveFinalizer
    BY <1>5, LifeRemoveFinalizer
  <1>6. CASE ApplyStep
    <2>1. at \in DOMAIN Plan /\ phase = "apply" /\ UNCHANGED versions
          /\ (objs' = objs \/ objs' = [objs EXCEPT ![Now.obj] = Written])
      BY <1>6 DEF ApplyStep
    <2> QED
      BY <1>0, <2>1, WrittenType, LifeApply
  <1>7. CASE ApplyGetError
    <2>1. at \in DOMAIN Plan /\ phase = "apply" /\ UNCHANGED versions
          /\ (objs' = objs \/ objs' = [objs EXCEPT ![Now.obj] = Built])
      BY <1>7 DEF ApplyGetError
    <2> QED
      BY <1>0, <2>1, WrittenType, LifeApply
  <1>8. CASE ApplyWriteError
    <2>1. at \in DOMAIN Plan /\ phase = "apply" /\ UNCHANGED versions
          /\ (objs' = objs \/ objs' = [objs EXCEPT ![Now.obj] = Absent])
      BY <1>8 DEF ApplyWriteError
    <2> QED
      BY <1>0, <2>1, LifeApply
  <1>9. CASE ApplyFeatures
    <2>1. UNCHANGED objs /\ phase = "apply" /\ inst \in Search
      BY <1>0, <1>9 DEF ApplyFeatures, TypeOK
    <2>2. CASE UNCHANGED versions
      BY <1>1, <2>1, <2>2 DEF Stored
    <2>3. CASE fresh /\ versions' = Append(versions, NextGen(inst))
      <3>1. inst = Stored /\ NextGen(inst) \in Search
        BY <2>1, <2>3, SearchUpdates DEF IInv, WorkerInv
      <3>2. Stored' = NextGen(inst)
        BY <1>0, <2>3, <3>1, AppendVersion
      <3>3. LifeOf(Stored)' = LifeOf(Stored)
        BY <1>0, <3>1, <3>2, LifeFields
      <3> QED
        BY <2>1, <3>3, LifeQuiet
    <2> QED
      BY <1>9, <2>2, <2>3 DEF ApplyFeatures, UpdateSearch
  <1>10. CASE UpdateStatus
    <2>1. Cached = Stored /\ versions' = Append(versions, Cached) /\ UNCHANGED objs
      BY <1>0, <1>10, StoredType DEF UpdateStatus, Stored
    <2> QED
      BY <1>0, <1>1, <2>1, AppendVersion
  <1>11. CASE Deliver
    BY <1>0, <1>1, <1>11, TailVersions DEF Deliver
  <1>12. CASE Crash
    BY <1>1, <1>12 DEF Crash, Stored
  <1>13. ASSUME NEW o \in Objects, GarbageCollect(o) \/ DeleteObject(o) PROVE LifeStep
    BY <1>0, <1>13, LifeObject DEF GarbageCollect, DeleteObject
  <1>14. ASSUME NEW o \in Objects, ChangeObject(o) PROVE LifeStep
    <2>1. Rebuilt(objs[o], 0) \in Object /\ objs[o].there
      BY <1>0, <1>14 DEF ChangeObject, Object, Rebuilt
    <2> QED
      BY <1>0, <1>14, <2>1, LifeObject DEF ChangeObject
  <1>15. CASE CreateSearch
    <2>1. NewSearch(Stored.uid + 1) \in Search
      BY <1>0, RecordTypes
    <2>2. LifeOf(Stored) = "none"
      BY <1>15 DEF CreateSearch, LifeOf
    <2> QED
      BY <1>0, <1>15, <2>1, <2>2, LifeFields, LifeEdits DEF CreateSearch
  <1>16. ASSUME NEW p \in BOOLEAN, Pause(p) PROVE LifeStep
    BY <1>0, <1>16, SearchUpdates, LifeFields, LifeEdits DEF Pause
  <1>17. CASE ChangeSpec
    BY <1>0, <1>17, SearchUpdates, LifeFields, LifeEdits DEF ChangeSpec
  <1>18. CASE DeleteSearch
    <2>1. Stored.exists /\ ~Stored.deleting
      BY <1>18 DEF DeleteSearch
    <2>2. CASE Stored.finalizer
      <3>1. LifeOf(Stored) = "guarded" /\ LifeOf(MarkedDeleted(Stored)) = "terminating"
            /\ MarkedDeleted(Stored) \in Search
        BY <1>0, <2>1, <2>2, LifeFields, SearchUpdates DEF LifeOf
      <3>2. EditSearch(MarkedDeleted(Stored))
        BY <1>18, <2>2 DEF DeleteSearch
      <3> QED
        BY <3>1, <3>2, LifeEdits
    <2>3. CASE ~Stored.finalizer
      <3>1. LifeOf(Stored) = "plain" /\ LifeOf(Gone(Stored.uid)) = "none"
            /\ Gone(Stored.uid) \in Search
        BY <1>0, <2>1, <2>3, LifeFields, RecordTypes DEF LifeOf
      <3>2. EditSearch(Gone(Stored.uid))
        BY <1>18, <2>3 DEF DeleteSearch
      <3> QED
        BY <3>1, <3>2, LifeEdits
    <2> QED
      BY <2>2, <2>3
  <1> QED
    BY <1>2, <1>3, <1>4, <1>5, <1>6, <1>7, <1>8, <1>9, <1>10, <1>11, <1>12, <1>13,
       <1>14, <1>15, <1>16, <1>17, <1>18
    DEF Next, Worker, Environment

\* The reconciler with its lagging cache, failures and crashes implements
\* ProductLife: privileges only under the finalizer, and none left at the end.
THEOREM LifecycleImplementsProductLife == Spec => ImplementsProductLife
  <1>1. Init => Life!Init
    BY LifeInit
  <1>2. IInv /\ [Next]_vars => [Life!Next]_(Life!life)
    BY LifeNext DEF LifeStep
  <1> QED
    BY <1>1, <1>2, InvHolds, PTL DEF Spec, ImplementsProductLife, Life!Spec
=============================================================================
