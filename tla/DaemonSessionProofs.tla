------------------------ MODULE DaemonSessionProofs ------------------------
(***************************************************************************)
(* The theorems about DaemonSession: its invariant, the safety properties  *)
(* that follow from it, what a step may never do, and the refinement of    *)
(* SavedWork.  DaemonSessionSteps proves the invariant one action at a     *)
(* time.                                                                   *)
(***************************************************************************)
EXTENDS DaemonSessionSteps

\* The daemon of a key never used before satisfies the invariant.
LEMMA InitInv == ASSUME Init PROVE IInv
<1>1. /\ h = Idle /\ mem = NoSession /\ next = 1 /\ disk = NoMeta
      /\ token = [u \in Leases |-> [view |-> 0, root |-> 0]]
  BY DEF Init
<1>2. TypeOK
  <2>1. h \in HandlerType /\ mem \in SessionType
    <3>1. Idle \in HandlerType
      BY DEF Idle, HandlerType, Stages, Ops
    <3> QED BY <1>1, <3>1, NoSessionType
  <2>2. MaxViews \in Nat /\ next \in 1 .. MaxViews + 1
    <3>1. MaxViews \in Nat
      BY SessionAssumption DEF SessionAssumption
    <3>2. 1 \in 1 .. MaxViews + 1
      BY <3>1
    <3> QED BY <1>1, <3>1, <3>2
  <2>3. disk \in MetaType
    BY <1>1, <2>2 DEF NoMeta, MetaType
  <2>4. token \in [Leases -> TokenType]
    <3>1. [view |-> 0, root |-> 0] \in TokenType
      BY <2>2 DEF TokenType
    <3> QED BY <1>1, <3>1
  <2>5. /\ up \in BOOLEAN /\ closing \in BOOLEAN
        /\ patch \in SUBSET Writes /\ written \in SUBSET Writes
        /\ upper \in [Views -> SUBSET Writes]
        /\ roots \in SUBSET Views /\ mounts \in SUBSET roots
        /\ exts \in SUBSET Views /\ alive \in SUBSET Owners
        /\ client \in [Leases -> {"idle", "held", "releasing", "saved"}]
        /\ group \in [Leases -> {"none", "helper", "run", "quit", "dead"}]
    BY DEF Init
  <2> QED BY <2>1, <2>2, <2>3, <2>4, <2>5 DEF TypeOK
<1>3. NothingLost /\ MetaInv /\ RecordInv
  BY <1>1 DEF Init, NothingLost, Retained, MetaInv, MetaValid, NoMeta, RecordInv, Idle
<1>4. HandlerInv /\ StageInv /\ SessionInv
  BY <1>1 DEF Init, HandlerInv, StageInv, SessionInv, Idle, NoSession, At,
     Inside, EnsureOps
<1>5. DataInv
  BY <1>1 DEF Init, DataInv, NoSession, NoMeta, Idle, At
<1>6. WriterInv
  BY <1>1 DEF Init, WriterInv, Holds, Runs, NoSession
<1> QED BY <1>2, <1>3, <1>4, <1>5, <1>6 DEF IInv

\* A step that changes nothing keeps the invariant.
LEMMA StutterKeeps == ASSUME IInv, UNCHANGED vars PROVE IInv'
<1> USE DEF IInv, vars
<1>1. TypeOK' /\ NothingLost' /\ MetaInv' /\ SessionInv'
  BY DEF TypeOK, NothingLost, Retained, MetaInv, SessionInv, At
<1>2. HandlerInv' /\ StageInv' /\ RecordInv'
  BY DEF HandlerInv, StageInv, RecordInv, At, GroupAlive, OwnerAlive, Holds, Runs
<1>3. DataInv' /\ WriterInv'
  BY DEF DataInv, WriterInv, Holds, Runs, OwnerAlive, At
<1> QED BY <1>1, <1>2, <1>3

\* Every step of the handler at work keeps the invariant.
LEMMA HandlerStepKeeps == ASSUME IInv, HandlerStep PROVE IInv'
BY WriteAttachedKeeps, FoundRegisteredKeeps, WriteUsedKeeps, NotFoundKeeps,
   CreateNewKeeps, WriteNewKeeps, RestoreKeeps, WriteRestoredKeeps,
   RestoreRefusedKeeps, CreateFailedKeeps, EnsureDoneKeeps, MarkDirtyKeeps,
   WriteMarkedKeeps, RecoverBusyKeeps, FinishKeeps, WriteFinishedKeeps,
   WriteUnsavedKeeps, AcquireBusyKeeps, AcquireAbortedKeeps, GrantKeeps,
   WriteAcquiredKeeps, LeftAloneKeeps, SkipFlushKeeps, WriteSkippedKeeps,
   BeginFlushKeeps, WriteCheckpointKeeps, ExportKeeps, WriteFlushedKeeps,
   RunCleanupKeeps, RemoveMetaKeeps, WritePreservedKeeps
DEF HandlerStep

\* The arrival of a request keeps the invariant.
LEMMA RequestKeeps == ASSUME IInv, Request PROVE IInv'
BY BeginLookupKeeps, BeginAcquireKeeps, BeginReleaseKeeps, BeginAttachKeeps,
   RecoverKeeps
DEF Request

\* A step of an owner, a helper, a command or an editor keeps the invariant.
LEMMA ProcessKeeps == ASSUME IInv, Process PROVE IInv'
BY OwnerDiesKeeps, SpawnHelperKeeps, GroupEndsKeeps, WriteKeeps, DirectWriteKeeps
DEF Process

\* The invariant is inductive.
LEMMA NextKeeps == ASSUME IInv, [Next]_vars PROVE IInv'
BY StutterKeeps, HandlerStepKeeps, RequestKeeps, ProcessKeeps, StartKeeps,
   CrashKeeps, SignalKeeps, BeginCloseKeeps
DEF Next

(***************************************************************************)
(* The invariant holds of every reachable state of the daemon, its files   *)
(* and its clients, for any leases, owners, requests and failures.         *)
(***************************************************************************)
THEOREM Invariance == Spec => []IInv
<1>1. Init => IInv
  BY InitInv
<1>2. IInv /\ [Next]_vars => IInv'
  BY NextKeeps
<1> QED BY <1>1, <1>2, PTL DEF Spec

(***************************************************************************)
(* Type correctness; in particular no session root is removed under the    *)
(* overlay mounted on it.                                                  *)
(***************************************************************************)
THEOREM TypeCorrect == Spec => []TypeOK
<1>1. IInv => TypeOK
  BY DEF IInv
<1> QED BY <1>1, Invariance, PTL

(***************************************************************************)
(* Nothing promised is lost: through crashes, failed writes, recoveries    *)
(* and shutdowns it is in the patch or in a retained upper layer.          *)
(***************************************************************************)
THEOREM NoLoss == Spec => []NothingLost
<1>1. IInv => NothingLost
  BY DEF IInv
<1> QED BY <1>1, Invariance, PTL

\* Whoever may write is a lease holder or an attached command.
LEMMA ActiveWriter ==
  ASSUME NEW u \in Leases, Active(u)
  PROVE  Holds(u) \/ Runs(u)
BY DEF Active, Holds, Runs

(***************************************************************************)
(* The mutation lease is exclusive, across daemon restarts as well.        *)
(***************************************************************************)
THEOREM Exclusive == Spec => []OneWriter
<1>1. IInv => OneWriter
  BY ActiveWriter DEF IInv, WriterInv, OneWriter
<1> QED BY <1>1, Invariance, PTL

(***************************************************************************)
(* A process that may write is recorded in the metadata file, as owner or  *)
(* as process group, with its view marked unsaved.                         *)
(***************************************************************************)
THEOREM WritersRecorded == Spec => []WriterRecorded
<1>1. IInv => WriterRecorded
  <2> SUFFICES ASSUME IInv, NEW u \in Leases, Active(u)
               PROVE  /\ disk.there /\ disk.dirty
                      /\ disk.root = token[u].root /\ disk.root \in roots
                      /\ IF group[u] = "run" THEN disk.group = u
                         ELSE disk.owner = OwnerOf[u]
    BY DEF WriterRecorded
  <2>1. /\ disk.there /\ disk.dirty
        /\ disk.root = token[u].root /\ disk.root \in roots
    BY ActiveWriter DEF IInv, WriterInv
  <2>2. CASE Runs(u)
    BY <2>1, <2>2 DEF IInv, WriterInv, Runs
  <2>3. CASE ~Runs(u)
    BY <2>1, <2>3, ActiveWriter DEF IInv, WriterInv, Runs
  <2> QED BY <2>2, <2>3
<1> QED BY <1>1, Invariance, PTL

(***************************************************************************)
(* A lease released with success left its changes in the patch, for good.  *)
(***************************************************************************)
THEOREM ReleaseSaves == Spec => []ReleasedIsSaved
<1>1. IInv => ReleasedIsSaved
  BY DEF IInv, WriterInv, ReleasedIsSaved
<1> QED BY <1>1, Invariance, PTL

(***************************************************************************)
(* No handler composes metadata that the validation of a write, or of the  *)
(* next daemon's read, would refuse.                                       *)
(***************************************************************************)
THEOREM MetadataValid == Spec => []WritesValidMeta
<1>1. IInv => MetaValid(Snapshot(mem))
  BY DEF IInv, SessionInv, MetaValid, Snapshot
<1>2. IInv => WritesValidMeta
  BY <1>1 DEF WritesValidMeta
<1> QED BY <1>2, Invariance, PTL

(***************************************************************************)
(* An attached command runs in the view of its lease, which the session    *)
(* keeps for it as long as its process group lives.                        *)
(***************************************************************************)
THEOREM CommandKeepsItsView == Spec => []RunsInItsView
<1>1. IInv => RunsInItsView
  BY DEF IInv, WriterInv, RunsInItsView, Runs, ViewOf
<1> QED BY <1>1, Invariance, PTL

-----------------------------------------------------------------------------
\* What a clean session has.

\* While the session and the files stay as they are, only a handler that comes
\* to replace the patch, or leaves the record of a grant, has anything to show.
LEMMA StillClean ==
  ASSUME CleanInv, UNCHANGED <<mem, disk, patch>>,
         h' = h \/ (~At("writeAcquired") /\ h'.at \notin {"export", "writeNew", "writeAcquired"})
  PROVE  CleanInv'
BY DEF CleanInv, CleanHasPatch, At

\* A metadata write of a registered session, with nothing else changed.
LEMMA WriteStaysClean ==
  ASSUME IInv, CleanInv, NEW out \in MetaResults, WriteMeta(out), mem.reg,
         ~At("writeAcquired"), UNCHANGED <<mem, patch>>,
         h'.at \notin {"writeNew", "writeAcquired"}, h'.at = "export" => out = "ok" /\ mem.dirty
  PROVE  CleanInv'
<1>1. disk' \in {disk, Snapshot(mem)} /\ (out = "ok" => disk' = Snapshot(mem))
  BY WriteMetaSteps DEF IInv
<1>2. mem.busy => mem.dirty
  BY DEF IInv, SessionInv
<1>3. Snapshot(mem).there /\ Snapshot(mem).dirty = mem.dirty /\ Snapshot(mem).sum = mem.sum
  BY DEF Snapshot
<1> QED BY <1>1, <1>2, <1>3 DEF CleanInv, CleanHasPatch, At

\* A daemon that stops leaves only the files.
LEMMA StopStaysClean ==
  ASSUME Stopped, CleanHasPatch' PROVE CleanInv'
BY DEF Stopped, CleanInv, NoSession, Idle, At

\* A session just created, entered or restored carries the checksum of the
\* patch its view was built from.
LEMMA NewStaysClean ==
  ASSUME IInv, CleanInv, CreateNew \/ WriteNew \/ Restore PROVE CleanInv'
<1>1. CASE CreateNew
  <2>1. /\ mem'.sum = patch /\ patch' = patch /\ ~mem'.busy /\ disk' = disk
        /\ h'.at = "writeNew" /\ ~disk.there
    BY <1>1 DEF CreateNew, BuildView, Goto, IInv, TypeOK, HandlerType, NoSession
  <2> QED BY <2>1 DEF CleanInv, CleanHasPatch, At
<1>2. CASE WriteNew
  <2>1. PICK out \in MetaResults : WriteMeta(out)
    BY <1>2 DEF WriteNew
  <2>2. ~mem.reg /\ ~mem.dirty /\ ~mem.busy /\ ~disk.there /\ mem.sum = patch
    BY <1>2 DEF WriteNew, IInv, HandlerInv, SessionInv, CleanInv, At
  <2>3. disk' \in {disk, Snapshot(mem)}
    BY <2>1, WriteMetaSteps DEF IInv
  <2>4. mem' \in {[mem EXCEPT !.reg = TRUE], NoSession} /\ patch' = patch
    BY <1>2 DEF WriteNew
  <2>5. h'.at \in {"have", "idle"}
    BY <1>2, GotoSteps, ReturnSteps DEF WriteNew, Stages, IInv
  <2>6. /\ mem'.reg => mem'.sum = patch
        /\ ~mem'.busy
    BY <2>2, <2>4 DEF NoSession, IInv, TypeOK, SessionType
  <2> QED BY <2>2, <2>3, <2>4, <2>5, <2>6 DEF CleanInv, CleanHasPatch, At, Snapshot
<1>3. CASE Restore
  <2>1. mem'.sum = patch /\ ~mem'.busy /\ UNCHANGED <<disk, patch>>
    BY <1>3 DEF Restore, BuildView, NoSession
  <2>2. h'.at = "writeRestored"
    BY <1>3, GotoSteps DEF Restore, Stages, IInv
  <2> QED BY <2>1, <2>2 DEF CleanInv, CleanHasPatch, At
<1> QED BY <1>1, <1>2, <1>3

\* Marking, attaching, granting and beginning a save make the session dirtier in
\* memory and leave the files.
LEMMA DirtyingStaysClean ==
  ASSUME IInv, CleanInv, "unmask" \notin Faults,
         MarkDirty \/ Grant \/ BeginFlush \/ AcquireAborted \/ \E u \in Leases : BeginAttach(u)
  PROVE  CleanInv'
<1>1. mem \in SessionType
  BY DEF IInv, TypeOK
<1>2. CASE MarkDirty
  <2>1. /\ mem' \in {mem, [mem EXCEPT !.dirty = TRUE, !.gen = @ + 1]}
        /\ UNCHANGED <<disk, patch>> /\ At("have")
    BY <1>2 DEF MarkDirty, fileVars
  <2>2. h'.at \in {"idle", "writeMarked"}
    BY <1>2, GotoSteps, ReturnSteps DEF MarkDirty, Stages, IInv
  <2>3. mem'.busy = mem.busy /\ mem'.reg = mem.reg /\ mem'.sum = mem.sum /\ (mem.dirty => mem'.dirty)
    BY <1>1, <2>1 DEF SessionType
  <2> QED BY <2>1, <2>2, <2>3 DEF CleanInv, CleanHasPatch, At
<1>3. CASE Grant
  <2>1. /\ mem'.dirty /\ mem'.was = mem.dirty /\ mem'.sum = mem.sum /\ mem.reg
        /\ UNCHANGED <<disk, patch>>
    BY <1>1, <1>3 DEF Grant, SessionType, fileVars, IInv, HandlerInv, At,
       Inside, Stages
  <2>2. h'.at = "writeAcquired"
    BY <1>3, GotoSteps DEF Grant, Stages, IInv
  <2> QED BY <2>1, <2>2 DEF CleanInv, CleanHasPatch, At
<1>4. CASE BeginFlush
  <2>1. mem' \in {mem, [mem EXCEPT !.dirty = TRUE]} /\ UNCHANGED <<disk, patch>> /\ ~mem.busy
    BY <1>4 DEF BeginFlush, fileVars
  <2>2. h'.at \in {"cleanup", "writeCheckpoint"}
    BY <1>4, GotoSteps DEF BeginFlush, Stages, IInv
  <2>3. ~mem'.busy /\ mem'.reg = mem.reg /\ mem'.sum = mem.sum /\ (mem.dirty => mem'.dirty)
    BY <1>1, <2>1 DEF SessionType
  <2> QED BY <2>1, <2>2, <2>3 DEF CleanInv, CleanHasPatch, At
<1>5. CASE AcquireAborted
  <2>1. Return /\ UNCHANGED <<mem, disk, patch>> /\ At("ready")
    BY <1>5 DEF AcquireAborted, Works, fileVars
  <2> QED BY <2>1, StillClean, ReturnSteps DEF At
<1>6. ASSUME NEW u \in Leases, BeginAttach(u) PROVE CleanInv'
  <2>1. CASE Attachable(u)
    <3>1. /\ mem' = [mem EXCEPT !.group = u] /\ h'.at = "writeAttached"
          /\ UNCHANGED <<disk, patch>> /\ At("idle")
      BY <1>6, <2>1 DEF BeginAttach, Accepts, GateFree, At, Idle, fileVars
    <3>2. mem'.busy = mem.busy /\ mem'.reg = mem.reg /\ mem'.sum = mem.sum /\ mem'.dirty = mem.dirty
      BY <1>1, <3>1 DEF SessionType
    <3> QED BY <3>1, <3>2 DEF CleanInv, CleanHasPatch, At
  <2>2. CASE ~Attachable(u)
    BY <1>6, <2>2, StillClean DEF BeginAttach, fileVars
  <2> QED BY <2>1, <2>2
<1> QED BY <1>2, <1>3, <1>4, <1>5, <1>6

\* A save finds the metadata dirty; what it leaves clean has the new checksum.
LEMMA SaveStaysClean ==
  ASSUME IInv, CleanInv, "unmask" \notin Faults,
         Finish \/ WriteFinished \/ Export \/ WriteFlushed
  PROVE  CleanInv'
<1>1. mem \in SessionType
  BY DEF IInv, TypeOK
<1>2. CASE Finish
  <2>1. PICK out \in PatchResults :
          /\ WritePatch(out) /\ mem' = Finished(out = "ok", TRUE)
          /\ Goto(FinishStage(out = "ok", TRUE))
    BY <1>2 DEF Finish, Works
  <2>2. disk.there /\ disk.dirty /\ disk' = disk
    BY <1>2 DEF Finish, IInv, StageInv, CleanInv, At
  <2>3. h'.at \in {"writeFinished", "writeUnsaved"}
    BY <2>1, GotoSteps DEF FinishStage, Stages, IInv
  <2>4. ~mem'.busy /\ (~mem'.dirty => mem'.sum = patch')
    BY <1>1, <2>1 DEF Finished, SessionType, WritePatch
  <2> QED BY <2>2, <2>3, <2>4 DEF CleanInv, CleanHasPatch, At
<1>3. CASE WriteFinished
  <2>1. PICK out \in MetaResults :
          WriteMeta(out) /\ mem' = [mem EXCEPT !.dirty = (out # "ok")]
    BY <1>3 DEF WriteFinished
  <2>2. At("writeFinished") /\ mem.reg /\ ~mem.busy /\ ~mem.dirty /\ patch' = patch
    BY <1>3 DEF WriteFinished, fileVars, IInv, HandlerInv, StageInv, At, Inside, Stages
  <2>3. disk' \in {disk, Snapshot(mem)} /\ mem.sum = patch
    BY <2>1, <2>2, WriteMetaSteps DEF IInv, CleanInv
  <2>4. h'.at \in {"idle", "writePreserved", "cleanup", "ready"}
    BY <1>3, GotoSteps, ReturnSteps DEF WriteFinished, AfterFinish, Fail, Stages, IInv
  <2>5. ~mem'.busy /\ mem'.sum = mem.sum
    BY <1>1, <2>1, <2>2 DEF SessionType
  <2> QED BY <2>2, <2>3, <2>4, <2>5 DEF CleanInv, CleanHasPatch, At, Snapshot
<1>4. CASE Export
  <2>1. PICK out \in PatchResults :
          /\ WritePatch(out)
          /\ IF out = "ok" THEN mem'.sum = patch' ELSE mem' = mem
          /\ mem'.busy = mem.busy
          /\ h'.at \in {"writeFlushed", "writeUnsaved"}
    <3>1. PICK out \in PatchResults :
          /\ WritePatch(out)
          /\ IF out = "ok"
             THEN /\ mem' = [mem EXCEPT !.sum = upper[mem.root], !.dirty = FALSE,
                                        !.durable = mem.gen]
                  /\ Goto("writeFlushed")
             ELSE Goto("writeUnsaved") /\ UNCHANGED mem
      BY <1>4 DEF Export
    <3>2. h'.at \in {"writeFlushed", "writeUnsaved"}
      BY <3>1, GotoSteps DEF Stages, IInv
    <3> QED BY <1>1, <3>1, <3>2, WritePatchSteps DEF SessionType
  <2>2. At("export") /\ ~mem.busy /\ mem.dirty /\ disk' = disk /\ disk.there /\ disk.dirty
    BY <1>4 DEF Export, IInv, StageInv, CleanInv, At
  <2> QED BY <2>1, <2>2 DEF CleanInv, CleanHasPatch, At
<1>5. CASE WriteFlushed
  <2>1. PICK out \in MetaResults :
          /\ WriteMeta(out)
          /\ mem' \in {mem, [mem EXCEPT !.dirty = TRUE], [mem EXCEPT !.closed = TRUE]}
    BY <1>5 DEF WriteFlushed
  <2>2. At("writeFlushed") /\ mem.reg /\ ~mem.busy /\ ~mem.dirty /\ patch' = patch
    BY <1>5 DEF WriteFlushed, fileVars, IInv, HandlerInv, StageInv, At, Inside, Stages
  <2>3. disk' \in {disk, Snapshot(mem)} /\ mem.sum = patch
    BY <2>1, <2>2, WriteMetaSteps DEF IInv, CleanInv
  <2>4. h'.at \in {"idle", "writePreserved", "cleanup"}
    BY <1>5, GotoSteps, ReturnSteps DEF WriteFlushed, Fail, Stages, IInv
  <2>5. ~mem'.busy /\ mem'.sum = mem.sum
    BY <1>1, <2>1, <2>2 DEF SessionType
  <2> QED BY <2>2, <2>3, <2>4, <2>5 DEF CleanInv, CleanHasPatch, At, Snapshot
<1> QED BY <1>2, <1>3, <1>4, <1>5

\* The record of a grant makes the file dirty, or the grant is rolled back.
LEMMA GrantStaysClean ==
  ASSUME IInv, CleanInv, "unmask" \notin Faults, WriteAcquired PROVE CleanInv'
<1>1. PICK out \in MetaResults :
        /\ WriteMeta(out)
        /\ mem' = IF out = "ok" THEN [mem EXCEPT !.was = FALSE] ELSE RolledBack
  BY DEF WriteAcquired, Works
<1>2. /\ mem \in SessionType /\ mem.reg /\ mem.busy /\ mem.dirty
      /\ patch' = patch /\ h'.at = "idle" /\ At("writeAcquired")
  BY ReturnSteps DEF WriteAcquired, fileVars, IInv, TypeOK, StageInv, SessionInv, HandlerInv, At,
     Inside, Stages
<1>3. disk' \in {disk, Snapshot(mem)} /\ (out = "ok" => disk' = Snapshot(mem))
  BY <1>1, WriteMetaSteps DEF IInv
<1>4. CASE out = "ok"
  BY <1>1, <1>2, <1>3, <1>4 DEF CleanInv, CleanHasPatch, At, Snapshot, SessionType
<1>5. CASE out # "ok"
  <2>1. ~mem'.busy /\ mem'.dirty = mem.was /\ mem'.sum = mem.sum
    BY <1>1, <1>2, <1>5 DEF RolledBack, SessionType
  <2> QED BY <1>2, <1>3, <2>1 DEF CleanInv, CleanHasPatch, At, Snapshot
<1> QED BY <1>4, <1>5

\* A daemon that stops, by SIGKILL or at the end of a shutdown, whose last write
\* may be that of a session that could not be saved.
LEMMA EndStaysClean ==
  ASSUME IInv, CleanInv, Crash \/ WritePreserved \/ BeginClose PROVE CleanInv'
<1> USE DEF fileVars
<1>1. CASE Crash
  BY <1>1, StopStaysClean DEF Crash, CleanInv, CleanHasPatch
<1>2. CASE WritePreserved
  <2>1. PICK out \in MetaResults : WriteMeta(out)
    BY <1>2 DEF WritePreserved
  <2>2. disk' \in {disk, Snapshot(mem)} /\ mem.reg /\ patch' = patch
    BY <1>2, <2>1, WriteMetaSteps DEF WritePreserved, IInv, HandlerInv, At, Inside, Stages
  <2>3. CleanHasPatch'
    BY <2>2 DEF CleanInv, CleanHasPatch, Snapshot
  <2> QED BY <1>2, <2>3, StopStaysClean DEF WritePreserved
<1>3. CASE BeginClose
  <2>1. CASE ~mem.reg
    BY <1>3, <2>1, StopStaysClean DEF BeginClose, CleanInv, CleanHasPatch
  <2>2. CASE mem.reg
    <3>1. At("idle") /\ h'.at \in {"writePreserved", "finish", "ready", "cleanup"}
      BY <1>3, <2>2 DEF BeginClose, CloseStage, GateFree, Idle, At
    <3> QED BY <1>3, <2>2, <3>1, StillClean DEF BeginClose, At
  <2> QED BY <2>1, <2>2
<1> QED BY <1>1, <1>2, <1>3

\* What is cleaned up is neither recorded as unsaved nor saved once more.
LEMMA CleanupStaysClean ==
  ASSUME IInv, CleanInv, RunCleanup \/ RemoveMeta PROVE CleanInv'
<1>1. mem \in SessionType
  BY DEF IInv, TypeOK
<1>2. CASE RunCleanup
  <2>1. UNCHANGED <<disk, patch>> /\ ~mem.busy
    BY <1>2 DEF RunCleanup, IInv, StageInv, At
  <2>2. CASE Stopped
    BY <2>1, <2>2, StopStaysClean DEF CleanInv, CleanHasPatch
  <2>3. CASE ~Stopped
    <3>1. \E x \in SUBSET CleanupSteps : mem' = [mem EXCEPT !.todo = x]
      <4>1. PICK done \in SUBSET mem.todo :
              mem' = [mem EXCEPT !.todo = @ \ done] \/ mem' = [mem EXCEPT !.todo = {}]
        BY <1>2, <2>3 DEF RunCleanup
      <4> QED BY <1>1, <4>1 DEF SessionType
    <3>2. h'.at \in {"idle", "writePreserved", "writeUnsaved", "remove"}
      BY <1>2, <2>3, GotoSteps, ReturnSteps DEF RunCleanup, Fail, Stages, IInv
    <3>3. /\ ~mem'.busy /\ mem'.dirty = mem.dirty /\ mem'.sum = mem.sum
          /\ mem'.reg = mem.reg
      BY <1>1, <2>1, <3>1 DEF SessionType
    <3> QED BY <2>1, <3>2, <3>3 DEF CleanInv, CleanHasPatch, At
  <2> QED BY <2>2, <2>3
<1>3. CASE RemoveMeta
  <2>1. /\ disk' \in {disk, NoMeta} /\ mem' \in {mem, NoSession} /\ patch' = patch
        /\ ~mem.busy /\ h'.at = "idle"
    BY <1>3, ReturnSteps DEF RemoveMeta, IInv, StageInv, SessionInv, At, fileVars
  <2> QED BY <2>1 DEF CleanInv, CleanHasPatch, At, NoMeta, NoSession
<1> QED BY <1>2, <1>3

\* The handler steps that touch neither the session nor the files.
LEMMA PassingStaysClean ==
  ASSUME IInv, CleanInv,
         \/ FoundRegistered \/ NotFound \/ RestoreRefused \/ CreateFailed \/ EnsureDone
         \/ RecoverBusy \/ AcquireBusy \/ LeftAlone \/ SkipFlush
  PROVE  CleanInv'
<1>1. UNCHANGED <<mem, disk, patch>> /\ ~At("writeAcquired")
  BY DEF fileVars, At, FoundRegistered, NotFound, RestoreRefused, CreateFailed, EnsureDone,
     RecoverBusy, AcquireBusy, LeftAlone, SkipFlush
<1>2. h'.at \in {"idle", "have", "writeUsed", "finish", "ready", "cleanup", "writeSkipped"}
  BY GotoSteps, ReturnSteps
     DEF FoundRegistered, NotFound, RestoreRefused, CreateFailed, EnsureDone, RecoverBusy,
         AcquireBusy, LeftAlone, SkipFlush, Stages, IInv
<1> QED BY <1>1, <1>2, StillClean

\* The handler steps that only write the metadata.
LEMMA RecordingStaysClean ==
  ASSUME IInv, CleanInv,
         \/ WriteAttached \/ WriteUsed \/ WriteRestored \/ WriteMarked \/ WriteUnsaved
         \/ WriteSkipped \/ WriteCheckpoint
  PROVE  CleanInv'
<1> USE DEF fileVars
<1>1. /\ UNCHANGED <<mem, patch>> /\ ~At("writeAcquired") /\ mem.reg
      /\ At("writeCheckpoint") => mem.dirty
  BY DEF At, IInv, HandlerInv, StageInv, Inside, Stages, WriteAttached, WriteUsed,
     WriteRestored, WriteMarked, WriteUnsaved, WriteSkipped, WriteCheckpoint
<1>2. PICK out \in MetaResults :
        /\ WriteMeta(out)
        /\ Return \/ Goto("have") \/ Fail \/ (At("writeCheckpoint") /\ Goto("export") /\ out = "ok")
  BY DEF WriteAttached, WriteUsed, WriteRestored, WriteMarked, WriteUnsaved, WriteSkipped,
     WriteCheckpoint
<1>3. \/ h'.at \in {"idle", "have", "writePreserved"}
      \/ h'.at = "export" /\ At("writeCheckpoint") /\ out = "ok"
  BY <1>2, GotoSteps, ReturnSteps DEF Fail, Stages, IInv
<1> QED BY <1>1, <1>2, <1>3, WriteStaysClean

\* Requests, processes and the start of a daemon leave the session and the files.
LEMMA OthersStayClean ==
  ASSUME IInv, CleanInv,
         \/ Start \/ Signal \/ Process \/ Recover
         \/ \E o \in Requests : BeginLookup(o)
         \/ \E u \in Leases : BeginAcquire(u) \/ BeginRelease(u)
         \/ UNCHANGED vars
  PROVE  CleanInv'
<1>1. UNCHANGED <<mem, disk, patch>>
  BY DEF Start, Signal, Process, Recover, BeginLookup, BeginAcquire, BeginRelease, vars,
     fileVars, daemonVars, OwnerDies, SpawnHelper, GroupEnds, Write, DirectWrite
<1>2. h' = h \/ (At("idle") /\ h'.at \in {"idle", "lookup", "finish", "restore"})
  BY DEF Start, Signal, Process, Recover, BeginLookup, BeginAcquire, BeginRelease, vars,
     daemonVars, OwnerDies, SpawnHelper, GroupEnds, Write, DirectWrite, Accepts, GateFree,
     Idle, At
<1> QED BY <1>1, <1>2, StillClean DEF At

\* Every step keeps CleanInv, failures to remove masks aside.
LEMMA NextStaysClean ==
  ASSUME IInv, CleanInv, "unmask" \notin Faults, [Next]_vars PROVE CleanInv'
BY NewStaysClean, DirtyingStaysClean, SaveStaysClean, GrantStaysClean, EndStaysClean,
   CleanupStaysClean, PassingStaysClean, RecordingStaysClean, OthersStayClean
DEF Next, HandlerStep, Request

(***************************************************************************)
(* Metadata that says clean has the checksum of the patch that is there:   *)
(* unless masks cannot be removed, no crash and no failed write comes      *)
(* between a save and what the file says of it, so that a saved session    *)
(* can always be restored.                                                 *)
(***************************************************************************)
THEOREM CleanIsCurrent == ASSUME "unmask" \notin Faults PROVE Spec => []CleanHasPatch
<1>1. Init => CleanInv
  BY DEF Init, CleanInv, CleanHasPatch, NoSession, NoMeta, Idle, At
<1>2. IInv /\ CleanInv /\ [Next]_vars => CleanInv'
  BY NextStaysClean
<1>3. CleanInv => CleanHasPatch
  BY DEF CleanInv
<1> QED BY <1>1, <1>2, <1>3, Invariance, PTL DEF Spec

-----------------------------------------------------------------------------
\* What an unsaved session has.

\* Without failures of the directory sync a write that is reported as failed has
\* left the file as it was.
LEMMA WriteIsExact ==
  ASSUME "late" \notin Faults, NEW out \in MetaResults, WriteMeta(out)
  PROVE  disk' = IF out = "ok" THEN Snapshot(mem) ELSE disk
BY DEF WriteMeta, MetaResults

\* A session recorded as unsaved has its root.
LEMMA UnsavedHasRoot ==
  ASSUME IInv, mem.reg, mem.dirty PROVE mem.root \in roots
BY DEF IInv, DataInv

\* While the session and its record stay as they are, a root is all there is to
\* lose; a handler about to record a save has yet to do so.
LEMMA StillThere ==
  ASSUME DirtyInv, UNCHANGED <<mem, disk>>, roots \subseteq roots',
         h' = h \/ (~At("writeFinished") /\ ~At("writeFlushed") /\ h'.at # "writeAcquired")
  PROVE  DirtyInv'
BY DEF DirtyInv, DirtyHasUpper, At

\* A daemon that stops leaves only the files.
LEMMA StopLeavesUpper ==
  ASSUME Stopped, DirtyHasUpper' PROVE DirtyInv'
BY DEF Stopped, DirtyInv, NoSession, Idle, At

\* Creating or restoring a session takes no root away; a restored one is as
\* dirty as its record.
LEMMA NewKeepsUpper ==
  ASSUME IInv, DirtyInv, "late" \notin Faults, CreateNew \/ WriteNew \/ Restore
  PROVE  DirtyInv'
<1>1. CASE CreateNew
  <2>1. /\ ~mem'.reg /\ disk' = disk /\ roots \subseteq roots' /\ h'.at = "writeNew"
    BY <1>1 DEF CreateNew, BuildView, Goto, IInv, TypeOK, HandlerType, NoSession
  <2> QED BY <2>1 DEF DirtyInv, DirtyHasUpper, At
<1>2. CASE WriteNew
  <2>1. PICK out \in MetaResults :
          /\ WriteMeta(out)
          /\ mem' = IF out = "ok" THEN [mem EXCEPT !.reg = TRUE] ELSE NoSession
    BY <1>2 DEF WriteNew
  <2>2. ~mem.dirty /\ ~disk.there
    BY <1>2 DEF WriteNew, IInv, HandlerInv, SessionInv, At
  <2>3. disk' = IF out = "ok" THEN Snapshot(mem) ELSE disk
    BY <2>1, WriteIsExact
  <2>4. h'.at \in {"have", "idle"}
    BY <1>2, GotoSteps, ReturnSteps DEF WriteNew, Stages, IInv
  <2> QED BY <2>1, <2>2, <2>3, <2>4 DEF DirtyInv, DirtyHasUpper, At, Snapshot, NoSession
<1>3. CASE Restore
  <2>1. /\ mem'.dirty = disk.dirty /\ disk' = disk /\ roots \subseteq roots'
    BY <1>3 DEF Restore, BuildView, NoSession
  <2>2. h'.at = "writeRestored"
    BY <1>3, GotoSteps DEF Restore, Stages, IInv
  <2> QED BY <2>1, <2>2 DEF DirtyInv, DirtyHasUpper, At
<1> QED BY <1>1, <1>2, <1>3

\* A session that is marked, attached, granted or about to be saved is dirtier
\* in memory than before, and its record is as it was.
LEMMA DirtyingKeepsUpper ==
  ASSUME IInv, DirtyInv,
         MarkDirty \/ Grant \/ BeginFlush \/ AcquireAborted \/ \E u \in Leases : BeginAttach(u)
  PROVE  DirtyInv'
<1>1. mem \in SessionType
  BY DEF IInv, TypeOK
<1>2. UNCHANGED <<disk, roots>>
  BY DEF MarkDirty, Grant, BeginFlush, AcquireAborted, BeginAttach, fileVars
<1>3. CASE MarkDirty \/ BeginFlush \/ AcquireAborted
  <2>1. ~At("writeFinished") /\ ~At("writeFlushed")
    BY <1>3 DEF MarkDirty, BeginFlush, AcquireAborted, At
  <2>2. mem' = mem \/ mem'.dirty
    BY <1>1, <1>3 DEF MarkDirty, BeginFlush, AcquireAborted, SessionType
  <2>3. h'.at \in {"idle", "writeMarked", "cleanup", "writeCheckpoint", "writeUnsaved"}
    BY <1>3, GotoSteps, ReturnSteps DEF MarkDirty, BeginFlush, AcquireAborted, Stages, IInv
  <2> QED BY <1>2, <2>1, <2>2, <2>3 DEF DirtyInv, DirtyHasUpper, At
<1>4. CASE Grant
  <2>1. mem'.dirty /\ mem'.was = mem.dirty /\ mem.reg /\ At("ready")
    BY <1>1, <1>4 DEF Grant, SessionType, IInv, HandlerInv, At, Inside, Stages
  <2> QED BY <1>2, <2>1 DEF DirtyInv, DirtyHasUpper, At
<1>5. ASSUME NEW u \in Leases, BeginAttach(u) PROVE DirtyInv'
  <2>1. mem'.dirty = mem.dirty /\ mem'.reg = mem.reg /\ At("idle")
    BY <1>1, <1>5 DEF BeginAttach, Accepts, GateFree, At, Idle, SessionType
  <2>2. h'.at \in {"idle", "writeAttached"}
    BY <1>5, <2>1 DEF BeginAttach, At
  <2> QED BY <1>2, <2>1, <2>2 DEF DirtyInv, DirtyHasUpper, At
<1> QED BY <1>3, <1>4, <1>5

\* A save leaves the session clean only together with its record.
LEMMA SaveKeepsUpper ==
  ASSUME IInv, DirtyInv, "late" \notin Faults,
         Finish \/ WriteFinished \/ Export \/ WriteFlushed
  PROVE  DirtyInv'
<1> USE DEF fileVars
<1>1. mem \in SessionType
  BY DEF IInv, TypeOK
<1>2. CASE Finish
  <2>1. PICK out \in PatchResults, unmasked \in BOOLEAN :
          /\ mem' = Finished(out = "ok", unmasked)
          /\ Goto(FinishStage(out = "ok", unmasked))
    BY <1>2 DEF Finish, Works
  <2>2. \/ h'.at = "writeFinished"
        \/ h'.at = "writeUnsaved" /\ mem'.dirty
    BY <1>1, <2>1, GotoSteps DEF FinishStage, Finished, SessionType, Stages, IInv
  <2> QED BY <1>2, <2>2 DEF Finish, DirtyInv, DirtyHasUpper, At
<1>3. CASE WriteFinished
  <2>1. PICK out \in MetaResults :
          WriteMeta(out) /\ mem' = [mem EXCEPT !.dirty = (out # "ok")]
    BY <1>3 DEF WriteFinished
  <2>2. ~mem.dirty
    BY <1>3 DEF WriteFinished, IInv, StageInv, At
  <2>3. disk' = IF out = "ok" THEN Snapshot(mem) ELSE disk
    BY <2>1, WriteIsExact
  <2>4. h'.at \in {"idle", "writePreserved", "cleanup", "ready"}
    BY <1>3, GotoSteps, ReturnSteps DEF WriteFinished, AfterFinish, Fail, Stages, IInv
  <2>5. mem'.dirty = (out # "ok")
    BY <1>1, <2>1 DEF SessionType
  <2> QED BY <1>3, <2>2, <2>3, <2>4, <2>5 DEF WriteFinished, DirtyInv, DirtyHasUpper, At,
          Snapshot
<1>4. CASE Export
  <2>1. \/ h'.at = "writeFlushed"
        \/ h'.at = "writeUnsaved" /\ mem' = mem
    BY <1>4, GotoSteps DEF Export, Stages, IInv
  <2>2. mem.dirty
    BY <1>4 DEF Export, IInv, StageInv, At
  <2> QED BY <1>4, <2>1, <2>2 DEF Export, DirtyInv, DirtyHasUpper, At
<1>5. CASE WriteFlushed
  <2>1. PICK out \in MetaResults :
          /\ WriteMeta(out)
          /\ out # "ok" => mem' = [mem EXCEPT !.dirty = TRUE]
    BY <1>5 DEF WriteFlushed
  <2>2. ~mem.dirty
    BY <1>5 DEF WriteFlushed, IInv, StageInv, At
  <2>3. disk' = IF out = "ok" THEN Snapshot(mem) ELSE disk
    BY <2>1, WriteIsExact
  <2>4. h'.at \in {"idle", "writePreserved", "cleanup"}
    BY <1>5, GotoSteps, ReturnSteps DEF WriteFlushed, Fail, Stages, IInv
  <2>5. out # "ok" => mem'.dirty
    BY <1>1, <2>1 DEF SessionType
  <2> QED BY <1>5, <2>2, <2>3, <2>4, <2>5 DEF WriteFlushed, DirtyInv, DirtyHasUpper, At,
          Snapshot
<1> QED BY <1>2, <1>3, <1>4, <1>5

\* A grant that cannot be recorded is rolled back to what the file says.
LEMMA GrantKeepsUpper ==
  ASSUME IInv, DirtyInv, "late" \notin Faults, WriteAcquired PROVE DirtyInv'
<1>1. PICK out \in MetaResults, unmasked \in BOOLEAN :
        /\ WriteMeta(out)
        /\ mem' = IF out = "ok" \/ ~unmasked THEN [mem EXCEPT !.was = FALSE]
                  ELSE RolledBack
  BY DEF WriteAcquired, Works
<1>2. /\ mem \in SessionType /\ mem.reg /\ mem.dirty
      /\ roots' = roots /\ h'.at = "idle" /\ At("writeAcquired")
  BY ReturnSteps DEF WriteAcquired, fileVars, IInv, TypeOK, StageInv, SessionInv, HandlerInv, At,
     Inside, Stages
<1>3. disk' = IF out = "ok" THEN Snapshot(mem) ELSE disk
  BY <1>1, WriteIsExact
<1>4. CASE out = "ok" \/ ~unmasked
  <2>1. mem'.dirty
    BY <1>1, <1>2, <1>4 DEF SessionType
  <2> QED BY <1>2, <1>3, <2>1, UnsavedHasRoot DEF DirtyInv, DirtyHasUpper, At, Snapshot
<1>5. CASE out # "ok" /\ unmasked
  <2>1. mem'.dirty = mem.was
    BY <1>1, <1>2, <1>5 DEF RolledBack, SessionType
  <2> QED BY <1>2, <1>3, <1>5, <2>1 DEF DirtyInv, DirtyHasUpper, At
<1> QED BY <1>4, <1>5

\* A daemon that stops has not touched a root since its last record.
LEMMA EndKeepsUpper ==
  ASSUME IInv, DirtyInv, Crash \/ WritePreserved \/ BeginClose PROVE DirtyInv'
<1> USE DEF fileVars
<1>1. CASE Crash
  BY <1>1, StopLeavesUpper DEF Crash, DirtyInv, DirtyHasUpper
<1>2. CASE WritePreserved
  <2>1. PICK out \in MetaResults : WriteMeta(out)
    BY <1>2 DEF WritePreserved
  <2>2. disk' \in {disk, Snapshot(mem)} /\ mem.reg /\ roots' = roots
    BY <1>2, <2>1, WriteMetaSteps DEF WritePreserved, IInv, HandlerInv, At, Inside, Stages
  <2>3. DirtyHasUpper'
    BY <2>2, UnsavedHasRoot DEF DirtyInv, DirtyHasUpper, Snapshot
  <2> QED BY <1>2, <2>3, StopLeavesUpper DEF WritePreserved
<1>3. CASE BeginClose
  <2>1. CASE ~mem.reg
    BY <1>3, <2>1, StopLeavesUpper DEF BeginClose, DirtyInv, DirtyHasUpper
  <2>2. CASE mem.reg
    <3>1. At("idle") /\ h'.at \in {"writePreserved", "finish", "ready", "cleanup"}
      BY <1>3, <2>2 DEF BeginClose, CloseStage, GateFree, Idle, At
    <3> QED BY <1>3, <2>2, <3>1, StillThere DEF BeginClose, At
  <2> QED BY <2>1, <2>2
<1> QED BY <1>1, <1>2, <1>3

\* Only a session recorded as saved is cleaned up or recovered without its root.
LEMMA RemovalKeepsUpper ==
  ASSUME IInv, DirtyInv, RunCleanup \/ RemoveMeta \/ Recover PROVE DirtyInv'
<1>1. mem \in SessionType
  BY DEF IInv, TypeOK
<1>2. CASE RunCleanup
  <2>1. disk' = disk /\ ~disk.dirty
    BY <1>2 DEF RunCleanup, IInv, HandlerInv, StageInv, DirtyInv, At, Inside, Stages
  <2>2. CASE Stopped
    BY <2>1, <2>2, StopLeavesUpper DEF DirtyHasUpper
  <2>3. CASE ~Stopped
    <3>1. h'.at # "writeAcquired"
      BY <1>2, <2>3, GotoSteps, ReturnSteps DEF RunCleanup, Fail, Stages, IInv
    <3> QED BY <2>1, <3>1 DEF DirtyInv, DirtyHasUpper, At
  <2> QED BY <2>2, <2>3
<1>3. CASE RemoveMeta
  <2>1. /\ disk' \in {disk, NoMeta} /\ mem' \in {mem, NoSession} /\ roots' = roots
        /\ h'.at = "idle" /\ At("remove")
    BY <1>3, ReturnSteps DEF RemoveMeta, fileVars
  <2> QED BY <2>1 DEF DirtyInv, DirtyHasUpper, At, NoMeta, NoSession
<1>4. CASE Recover
  <2>1. /\ UNCHANGED <<mem, disk>> /\ ~mem.reg /\ (disk.dirty => roots' = roots)
        /\ h'.at \in {"restore", "idle"}
    BY <1>4 DEF Recover, DiscardsRoot, Idle
  <2> QED BY <2>1 DEF DirtyInv, DirtyHasUpper, At
<1> QED BY <1>2, <1>3, <1>4

\* The handler steps that touch neither the session nor the files recovery reads.
LEMMA PassingKeepsUpper ==
  ASSUME IInv, DirtyInv,
         \/ FoundRegistered \/ NotFound \/ RestoreRefused \/ CreateFailed \/ EnsureDone
         \/ RecoverBusy \/ AcquireBusy \/ LeftAlone \/ SkipFlush
  PROVE  DirtyInv'
<1>1. UNCHANGED <<mem, disk, roots>> /\ ~At("writeFinished") /\ ~At("writeFlushed")
  BY DEF fileVars, At, FoundRegistered, NotFound, RestoreRefused, CreateFailed, EnsureDone,
     RecoverBusy, AcquireBusy, LeftAlone, SkipFlush
<1>2. h'.at \in {"idle", "have", "writeUsed", "finish", "ready", "cleanup", "writeSkipped"}
  BY GotoSteps, ReturnSteps
     DEF FoundRegistered, NotFound, RestoreRefused, CreateFailed, EnsureDone, RecoverBusy,
         AcquireBusy, LeftAlone, SkipFlush, Stages, IInv
<1> QED BY <1>1, <1>2, StillThere

\* The handler steps that only write the metadata.
LEMMA RecordingKeepsUpper ==
  ASSUME IInv, DirtyInv, "late" \notin Faults,
         \/ WriteAttached \/ WriteUsed \/ WriteRestored \/ WriteMarked \/ WriteUnsaved
         \/ WriteSkipped \/ WriteCheckpoint
  PROVE  DirtyInv'
<1> USE DEF fileVars
<1>1. /\ UNCHANGED <<mem, roots>> /\ mem.reg
      /\ ~At("writeFinished") /\ ~At("writeFlushed")
  BY DEF At, IInv, HandlerInv, Inside, Stages, WriteAttached, WriteUsed,
     WriteRestored, WriteMarked, WriteUnsaved, WriteSkipped, WriteCheckpoint
<1>2. PICK out \in MetaResults :
        WriteMeta(out) /\ (Return \/ Goto("have") \/ Fail \/ Goto("export"))
  BY DEF WriteAttached, WriteUsed, WriteRestored, WriteMarked, WriteUnsaved, WriteSkipped,
     WriteCheckpoint
<1>3. h'.at \in {"idle", "have", "writePreserved", "export"}
  BY <1>2, GotoSteps, ReturnSteps DEF Fail, Stages, IInv
<1>4. disk' \in {disk, Snapshot(mem)}
  BY <1>2, WriteIsExact
<1> QED BY <1>1, <1>3, <1>4, UnsavedHasRoot DEF DirtyInv, DirtyHasUpper, At, Snapshot

\* Requests, processes and the start of a daemon leave the session and its root.
LEMMA OthersKeepUpper ==
  ASSUME IInv, DirtyInv,
         \/ Start \/ Signal \/ Process
         \/ \E o \in Requests : BeginLookup(o)
         \/ \E u \in Leases : BeginAcquire(u) \/ BeginRelease(u)
         \/ UNCHANGED vars
  PROVE  DirtyInv'
<1>1. UNCHANGED <<mem, disk, roots>>
  BY DEF Start, Signal, Process, BeginLookup, BeginAcquire, BeginRelease, vars,
     fileVars, daemonVars, OwnerDies, SpawnHelper, GroupEnds, Write, DirectWrite
<1>2. h' = h \/ (At("idle") /\ h'.at \in {"idle", "lookup", "finish"})
  BY DEF Start, Signal, Process, BeginLookup, BeginAcquire, BeginRelease, vars,
     daemonVars, OwnerDies, SpawnHelper, GroupEnds, Write, DirectWrite, Accepts, GateFree,
     Idle, At
<1> QED BY <1>1, <1>2, StillThere DEF At

\* Every step keeps DirtyInv, failures of the directory sync aside.
LEMMA NextKeepsUpper ==
  ASSUME IInv, DirtyInv, "late" \notin Faults, [Next]_vars PROVE DirtyInv'
BY NewKeepsUpper, DirtyingKeepsUpper, SaveKeepsUpper, GrantKeepsUpper, EndKeepsUpper,
   RemovalKeepsUpper, PassingKeepsUpper, RecordingKeepsUpper, OthersKeepUpper
DEF Next, HandlerStep, Request

(***************************************************************************)
(* Metadata that says dirty names a root that exists, whatever fails, as   *)
(* long as no metadata write takes effect and is reported as failed: a     *)
(* directory sync that fails is the only way to the finding.               *)
(***************************************************************************)
THEOREM DirtyIsRetained == ASSUME "late" \notin Faults PROVE Spec => []DirtyHasUpper
<1>1. Init => DirtyInv
  BY DEF Init, DirtyInv, DirtyHasUpper, NoSession, NoMeta, Idle, At
<1>2. IInv /\ DirtyInv /\ [Next]_vars => DirtyInv'
  BY NextKeepsUpper
<1>3. DirtyInv => DirtyHasUpper
  BY DEF DirtyInv
<1> QED BY <1>1, <1>2, <1>3, Invariance, PTL DEF Spec

-----------------------------------------------------------------------------
\* A handler works on a session, registered or about to be.
Serves == mem.reg \/ At("writeNew")

\* The session in memory is at least as recent as its record: as much of it is
\* saved, and as many views of it have been opened.
NumbersInv == disk.there /\ Serves => disk.durable <= mem.durable /\ disk.view <= mem.view

\* What a record says of them is not taken back by the record that follows.
NumbersGo == disk.there /\ disk'.there => disk.durable <= disk'.durable /\ disk.view <= disk'.view

RecordsGoForward == [][NumbersGo]_vars

\* A session may go, but not back.
SessionGoes == Serves' => /\ Serves
                          /\ mem.durable <= mem'.durable /\ mem.view <= mem'.view

\* The file stays, is replaced by what the session is, or goes.
FileGoes == \/ disk' = disk
            \/ disk' = Snapshot(mem) /\ Serves
            \/ ~disk'.there

\* A session that does not go back keeps ahead of its record, whichever of the
\* two writes and crashes leave in the file.
LEMMA NumbersKept ==
  ASSUME TypeOK, TypeOK', NumbersInv, SessionGoes, FileGoes
  PROVE  NumbersInv' /\ NumbersGo
<1>1. /\ mem.durable \in Nat /\ mem.view \in Nat /\ mem'.durable \in Nat /\ mem'.view \in Nat
      /\ disk.durable \in Nat /\ disk.view \in Nat
  BY DEF TypeOK, SessionType, MetaType
<1>2. CASE disk' = disk
  <2>1. NumbersGo
    BY <1>1, <1>2 DEF NumbersGo
  <2>2. NumbersInv'
    BY <1>1, <1>2 DEF NumbersInv, SessionGoes
  <2> QED BY <2>1, <2>2
<1>3. CASE disk' = Snapshot(mem) /\ Serves
  <2>1. disk'.durable = mem.durable /\ disk'.view = mem.view
    BY <1>3 DEF Snapshot
  <2>2. NumbersGo
    BY <1>3, <2>1 DEF NumbersInv, NumbersGo
  <2>3. NumbersInv'
    BY <2>1 DEF NumbersInv, SessionGoes
  <2> QED BY <2>2, <2>3
<1>4. CASE ~disk'.there
  BY <1>4 DEF NumbersInv, NumbersGo
<1> QED BY <1>2, <1>3, <1>4 DEF FileGoes

\* A write of the session's metadata leaves the old record or the new one.
LEMMA WriteGoes ==
  ASSUME IInv, Serves, NEW out \in MetaResults, WriteMeta(out) PROVE FileGoes
BY WriteMetaSteps DEF FileGoes, IInv

\* Without a change to the session or the file nothing goes back.
LEMMA NothingGoes ==
  ASSUME UNCHANGED <<mem, disk>>, h'.at = "writeNew" => At("writeNew")
  PROVE  (TypeOK => SessionGoes) /\ FileGoes
<1>1. TypeOK => mem.durable \in Nat /\ mem.view \in Nat
  BY DEF TypeOK, SessionType
<1> QED BY <1>1 DEF SessionGoes, FileGoes, Serves, At

\* A creation finds no record; the view that a restored session opens is the
\* next after the recorded one, and as much of it is saved.
LEMMA NewIsAhead ==
  ASSUME IInv, CreateNew \/ Restore PROVE NumbersInv' /\ NumbersGo
<1>1. disk.durable \in Nat /\ disk.view \in Nat /\ disk' = disk
  BY DEF IInv, TypeOK, MetaType, CreateNew, Restore
<1>2. NumbersGo
  BY <1>1 DEF NumbersGo
<1>3. CASE CreateNew
  BY <1>1, <1>2, <1>3 DEF CreateNew, NumbersInv
<1>4. CASE Restore
  <2>1. mem'.durable = disk.durable /\ mem'.view = disk.view + 1
    BY <1>4 DEF Restore, NoSession
  <2> QED BY <1>1, <1>2, <2>1 DEF NumbersInv
<1> QED BY <1>3, <1>4

\* A session comes into the registry as it was recorded, or not at all.
LEMMA EntryGoes ==
  ASSUME IInv, WriteNew PROVE SessionGoes /\ FileGoes
<1>1. Serves
  BY DEF WriteNew, Serves
<1>2. PICK out \in MetaResults :
        /\ WriteMeta(out)
        /\ IF out = "ok" THEN mem' = [mem EXCEPT !.reg = TRUE] ELSE mem' = NoSession /\ Return
  BY DEF WriteNew
<1>3. mem \in SessionType
  BY DEF IInv, TypeOK
<1>4. CASE out = "ok"
  <2>1. mem'.durable = mem.durable /\ mem'.view = mem.view /\ mem.durable \in Nat /\ mem.view \in Nat
    BY <1>2, <1>3, <1>4 DEF SessionType
  <2> QED BY <1>1, <1>2, <2>1, WriteGoes DEF SessionGoes
<1>5. CASE out # "ok"
  <2>1. ~Serves'
    BY <1>2, <1>5, ReturnSteps DEF Serves, NoSession, At
  <2> QED BY <1>1, <1>2, <2>1, WriteGoes DEF SessionGoes
<1> QED BY <1>4, <1>5

\* Marking, attaching, granting and beginning a save leave both numbers.
LEMMA DirtyingGoes ==
  ASSUME IInv,
         MarkDirty \/ Grant \/ BeginFlush \/ AcquireAborted \/ \E u \in Leases : BeginAttach(u)
  PROVE  SessionGoes /\ FileGoes
<1>1. mem \in SessionType
  BY DEF IInv, TypeOK
<1>2. disk' = disk
  BY DEF MarkDirty, Grant, BeginFlush, AcquireAborted, BeginAttach
<1>3. h'.at # "writeNew"
  <2>1. CASE MarkDirty \/ Grant \/ BeginFlush \/ AcquireAborted
    BY <2>1, GotoSteps, ReturnSteps
       DEF MarkDirty, Grant, BeginFlush, AcquireAborted, Stages, IInv
  <2>2. ASSUME NEW u \in Leases, BeginAttach(u) PROVE h'.at # "writeNew"
    BY <2>2 DEF BeginAttach, Accepts, GateFree, Idle
  <2> QED BY <2>1, <2>2
<1>4. mem'.reg = mem.reg /\ mem'.durable = mem.durable /\ mem'.view = mem.view
  <2>1. CASE MarkDirty \/ Grant
    BY <1>1, <2>1 DEF MarkDirty, Grant, SessionType
  <2>2. CASE BeginFlush \/ AcquireAborted
    BY <1>1, <2>2 DEF BeginFlush, AcquireAborted, SessionType
  <2>3. ASSUME NEW u \in Leases, BeginAttach(u)
        PROVE  mem'.reg = mem.reg /\ mem'.durable = mem.durable /\ mem'.view = mem.view
    BY <1>1, <2>3 DEF BeginAttach, SessionType
  <2> QED BY <2>1, <2>2, <2>3
<1>5. mem.durable \in Nat /\ mem.view \in Nat
  BY <1>1 DEF SessionType
<1> QED BY <1>2, <1>3, <1>4, <1>5 DEF SessionGoes, FileGoes, Serves, At

\* A save raises what is saved to the generation of the view, which it has not
\* passed before; a grant that is rolled back gives up its generation, not more.
LEMMA SaveGoes ==
  ASSUME IInv, Finish \/ WriteFinished \/ Export \/ WriteFlushed \/ WriteAcquired
  PROVE  SessionGoes /\ FileGoes
<1>1. mem \in SessionType /\ mem.durable <= mem.gen
  BY DEF IInv, TypeOK, SessionInv
<1>2. mem.reg /\ Serves
  BY DEF IInv, HandlerInv, At, Inside, Stages, Serves, Finish, WriteFinished, Export, WriteFlushed,
     WriteAcquired
<1>3. h'.at # "writeNew"
  BY GotoSteps, ReturnSteps
     DEF Finish, FinishStage, WriteFinished, AfterFinish, Export, WriteFlushed, WriteAcquired,
         Fail, Stages, IInv
<1>4. FileGoes
  <2>1. CASE Finish \/ Export
    BY <2>1 DEF Finish, Export, FileGoes
  <2>2. CASE WriteFinished \/ WriteFlushed \/ WriteAcquired
    <3>1. PICK out \in MetaResults : WriteMeta(out)
      BY <2>2 DEF WriteFinished, WriteFlushed, WriteAcquired
    <3> QED BY <1>2, <3>1, WriteGoes
  <2> QED BY <2>1, <2>2
<1>5. mem'.durable \in {mem.durable, mem.gen} /\ mem'.view = mem.view
  <2>1. CASE Finish
    <3>1. PICK done \in BOOLEAN, unmasked \in BOOLEAN : mem' = Finished(done, unmasked)
      BY <2>1 DEF Finish, Works
    <3> QED BY <1>1, <3>1 DEF Finished, SessionType
  <2>2. CASE WriteFinished \/ WriteFlushed
    BY <1>1, <2>2 DEF WriteFinished, WriteFlushed, SessionType
  <2>3. CASE Export
    BY <1>1, <2>3 DEF Export, SessionType
  <2>4. CASE WriteAcquired
    <3>1. mem' = [mem EXCEPT !.was = FALSE] \/ mem' = RolledBack
      BY <2>4 DEF WriteAcquired
    <3> QED BY <1>1, <3>1 DEF RolledBack, SessionType
  <2> QED BY <2>1, <2>2, <2>3, <2>4
<1>6. mem.durable \in Nat /\ mem.gen \in Nat /\ mem.view \in Nat
  BY <1>1 DEF SessionType
<1>7. mem.durable <= mem'.durable /\ mem.view <= mem'.view
  BY <1>1, <1>5, <1>6
<1> QED BY <1>2, <1>4, <1>7 DEF SessionGoes

\* A daemon that stops, a cleanup and a removal leave no session behind, or the
\* one there was.
LEMMA EndGoes ==
  ASSUME IInv, Crash \/ WritePreserved \/ BeginClose \/ RunCleanup \/ RemoveMeta
  PROVE  SessionGoes /\ FileGoes
<1>1. mem \in SessionType
  BY DEF IInv, TypeOK
<1>2. mem.durable \in Nat /\ mem.view \in Nat
  BY <1>1 DEF SessionType
<1>3. ASSUME Stopped PROVE SessionGoes
  BY <1>3 DEF Stopped, SessionGoes, Serves, NoSession, Idle, At
<1>4. CASE Crash
  BY <1>3, <1>4 DEF Crash, FileGoes
<1>5. CASE WritePreserved
  <2>1. Serves
    BY <1>5 DEF WritePreserved, IInv, HandlerInv, At, Inside, Stages, Serves
  <2>2. PICK out \in MetaResults : WriteMeta(out)
    BY <1>5 DEF WritePreserved
  <2>3. Stopped
    BY <1>5 DEF WritePreserved
  <2> QED BY <1>3, <2>1, <2>2, <2>3, WriteGoes
<1>6. CASE BeginClose
  <2>1. CASE ~mem.reg
    BY <1>3, <1>6, <2>1 DEF BeginClose, FileGoes
  <2>2. CASE mem.reg
    <3>1. UNCHANGED <<mem, disk>> /\ h'.at # "writeNew"
      BY <1>6, <2>2 DEF BeginClose, CloseStage
    <3> QED BY <3>1, NothingGoes DEF IInv
  <2> QED BY <2>1, <2>2
<1>7. CASE RunCleanup
  <2>1. disk' = disk /\ mem.reg
    BY <1>7 DEF RunCleanup, IInv, HandlerInv, At, Inside, Stages
  <2>2. CASE Stopped
    BY <1>3, <2>1, <2>2 DEF FileGoes
  <2>3. CASE ~Stopped
    <3>1. mem'.durable = mem.durable /\ mem'.view = mem.view
      BY <1>1, <1>7, <2>3 DEF RunCleanup, SessionType
    <3> QED BY <1>2, <2>1, <3>1 DEF SessionGoes, FileGoes, Serves
  <2> QED BY <2>2, <2>3
<1>8. CASE RemoveMeta
  <2>1. /\ mem' \in {mem, NoSession} /\ disk' \in {disk, NoMeta}
        /\ h'.at # "writeNew" /\ mem.reg
    BY <1>8, ReturnSteps DEF RemoveMeta, IInv, HandlerInv, At, Inside, Stages
  <2>2. SessionGoes
    BY <1>2, <2>1 DEF SessionGoes, Serves, NoSession, At
  <2> QED BY <2>1, <2>2 DEF FileGoes, NoMeta
<1> QED BY <1>4, <1>5, <1>6, <1>7, <1>8

\* The handler steps that touch neither the session nor the files, and those
\* that only write the metadata.
LEMMA RecordingGoes ==
  ASSUME IInv,
         \/ FoundRegistered \/ NotFound \/ RestoreRefused \/ CreateFailed \/ EnsureDone
         \/ RecoverBusy \/ AcquireBusy \/ LeftAlone \/ SkipFlush
         \/ WriteAttached \/ WriteUsed \/ WriteRestored \/ WriteMarked \/ WriteUnsaved
         \/ WriteSkipped \/ WriteCheckpoint
  PROVE  SessionGoes /\ FileGoes
<1>1. mem' = mem
  BY DEF FoundRegistered, NotFound, RestoreRefused, CreateFailed, EnsureDone, RecoverBusy,
     AcquireBusy, LeftAlone, SkipFlush, WriteAttached, WriteUsed, WriteRestored, WriteMarked,
     WriteUnsaved, WriteSkipped, WriteCheckpoint
<1>2. h'.at # "writeNew"
  BY GotoSteps, ReturnSteps
     DEF FoundRegistered, NotFound, RestoreRefused, CreateFailed, EnsureDone, RecoverBusy,
         AcquireBusy, LeftAlone, SkipFlush, WriteAttached, WriteUsed, WriteRestored, WriteMarked,
         WriteUnsaved, WriteSkipped, WriteCheckpoint, Fail, Stages, IInv
<1>3. mem.durable \in Nat /\ mem.view \in Nat
  BY DEF IInv, TypeOK, SessionType
<1>4. SessionGoes
  BY <1>1, <1>2, <1>3 DEF SessionGoes, Serves, At
<1>5. CASE \/ FoundRegistered \/ NotFound \/ RestoreRefused \/ CreateFailed \/ EnsureDone
           \/ RecoverBusy \/ AcquireBusy \/ LeftAlone \/ SkipFlush
  <2>1. disk' = disk
    BY <1>5 DEF FoundRegistered, NotFound, RestoreRefused, CreateFailed, EnsureDone,
       RecoverBusy, AcquireBusy, LeftAlone, SkipFlush
  <2> QED BY <1>4, <2>1 DEF FileGoes
<1>6. CASE \/ WriteAttached \/ WriteUsed \/ WriteRestored \/ WriteMarked \/ WriteUnsaved
           \/ WriteSkipped \/ WriteCheckpoint
  <2>1. mem.reg
    BY <1>6 DEF At, IInv, HandlerInv, Inside, Stages, WriteAttached, WriteUsed, WriteRestored,
       WriteMarked, WriteUnsaved, WriteSkipped, WriteCheckpoint
  <2>2. PICK out \in MetaResults : WriteMeta(out)
    BY <1>6 DEF WriteAttached, WriteUsed, WriteRestored, WriteMarked, WriteUnsaved,
       WriteSkipped, WriteCheckpoint
  <2> QED BY <1>4, <2>1, <2>2, WriteGoes DEF Serves
<1> QED BY <1>4, <1>5, <1>6

\* Requests, processes and the start of a daemon leave the session and the files.
LEMMA OthersGo ==
  ASSUME IInv,
         \/ Start \/ Signal \/ Process \/ Recover
         \/ \E o \in Requests : BeginLookup(o)
         \/ \E u \in Leases : BeginAcquire(u) \/ BeginRelease(u)
         \/ UNCHANGED vars
  PROVE  SessionGoes /\ FileGoes
<1>1. UNCHANGED <<mem, disk>>
  BY DEF Start, Signal, Process, Recover, BeginLookup, BeginAcquire, BeginRelease, vars,
     fileVars, daemonVars, OwnerDies, SpawnHelper, GroupEnds, Write, DirectWrite
<1>2. h' = h \/ h'.at \in {"idle", "lookup", "finish", "restore"}
  BY DEF Start, Signal, Process, Recover, BeginLookup, BeginAcquire, BeginRelease, vars,
     daemonVars, OwnerDies, SpawnHelper, GroupEnds, Write, DirectWrite, Idle
<1>3. h'.at = "writeNew" => At("writeNew")
  BY <1>2 DEF At
<1> QED BY <1>1, <1>3, NothingGoes DEF IInv

\* Every step keeps the session ahead of its record, and the record from going
\* back.
LEMMA NextGoes == ASSUME IInv, NumbersInv, [Next]_vars PROVE NumbersInv' /\ NumbersGo
<1>1. TypeOK /\ TypeOK'
  BY NextKeeps DEF IInv
<1>2. CASE CreateNew \/ Restore
  BY <1>2, NewIsAhead
<1>3. CASE ~(CreateNew \/ Restore)
  <2>1. SessionGoes /\ FileGoes
    BY <1>3, EntryGoes, DirtyingGoes, SaveGoes, EndGoes, RecordingGoes, OthersGo
       DEF Next, HandlerStep, Request
  <2> QED BY <1>1, <2>1, NumbersKept
<1> QED BY <1>2, <1>3

(***************************************************************************)
(* As long as a session has a record, neither the generation that the      *)
(* record calls saved nor the number of the view that it names goes back:  *)
(* failed writes, rolled-back grants, crashes and restores never have a    *)
(* daemon take up an older state of the session than was once on record.   *)
(* (The generation of the view itself is given back by a rolled-back       *)
(* grant.)                                                                 *)
(***************************************************************************)
THEOREM RecordsNeverGoBack == Spec => RecordsGoForward
<1>1. Init => NumbersInv
  BY DEF Init, NumbersInv, NoMeta
<1>2. IInv /\ NumbersInv /\ [Next]_vars => NumbersInv' /\ [NumbersGo]_vars
  BY NextGoes
<1> QED BY <1>1, <1>2, Invariance, PTL DEF Spec, RecordsGoForward

-----------------------------------------------------------------------------
\* Only the export of a live view changes the patch, and it leaves the
\* files that recovery reads as they are.
LEMMA PatchSteps ==
  ASSUME IInv, [Next]_vars, patch' # patch
  PROVE  /\ patch \subseteq patch'
         /\ UNCHANGED <<disk, upper, roots, mounts, written>>
         /\ \A u \in Leases : ~Holds(u) /\ ~Runs(u)
<1> USE DEF fileVars
<1>1. Finish \/ Export
  BY DEF Next, HandlerStep, Request, Process, vars, Start, Crash, Signal,
     BeginLookup, BeginAcquire, BeginRelease, BeginAttach, Recover, BeginClose,
     WriteAttached, FoundRegistered, WriteUsed, NotFound, CreateNew, BuildView,
     WriteNew, Restore, WriteRestored, RestoreRefused, CreateFailed, EnsureDone,
     MarkDirty, WriteMarked, RecoverBusy, WriteFinished, WriteUnsaved,
     AcquireBusy, AcquireAborted, Grant, WriteAcquired, LeftAlone, SkipFlush,
     WriteSkipped, BeginFlush, WriteCheckpoint, WriteFlushed, RunCleanup,
     RemoveMeta, WritePreserved, OwnerDies, SpawnHelper, GroupEnds, Write,
     DirectWrite
<1>2. mem.reg /\ ~mem.closed /\ ~At("writePreserved")
  BY <1>1 DEF IInv, HandlerInv, StageInv, SessionInv, Finish, Export, At,
              Inside, Stages
<1>3. written \cup patch \subseteq upper[mem.root]
  BY <1>2, LiveView
<1>4. CASE Finish
  <2>1. At("finish") /\ patch' \in {patch, upper[mem.root]}
    BY <1>4, WritePatchSteps DEF Finish
  <2> QED BY <1>3, <1>4, <2>1, FinishIsQuiet DEF Finish
<1>5. CASE Export
  <2>1. ~mem.busy /\ patch' \in {patch, upper[mem.root]}
    BY <1>5, WritePatchSteps DEF Export, IInv, StageInv, At
  <2> QED BY <1>2, <1>3, <1>5, <2>1, FreeIsQuiet DEF Export
<1> QED BY <1>1, <1>4, <1>5

\* Only the undoing of a creation, a cleanup and a recovery remove a root or
\* a mount; a root goes only when all promised work is in the patch, and
\* either goes only when nobody may write.
LEMMA RemovalSteps ==
  ASSUME IInv, [Next]_vars,
         ~(roots \subseteq roots') \/ ~(mounts \subseteq mounts')
  PROVE  /\ ~(roots \subseteq roots') => written \subseteq patch
         /\ \A u \in Leases : ~Holds(u) /\ ~Runs(u)
<1> USE DEF fileVars
<1>1. WriteNew \/ RunCleanup \/ Recover
  BY DEF Next, HandlerStep, Request, Process, vars, Start, Crash, Signal,
     BeginLookup, BeginAcquire, BeginRelease, BeginAttach, BeginClose,
     WriteAttached, FoundRegistered, WriteUsed, NotFound, CreateNew, BuildView,
     Restore, WriteRestored, RestoreRefused, CreateFailed, EnsureDone,
     MarkDirty, WriteMarked, RecoverBusy, Finish, WriteFinished, WriteUnsaved,
     AcquireBusy, AcquireAborted, Grant, WriteAcquired, LeftAlone, SkipFlush,
     WriteSkipped, BeginFlush, WriteCheckpoint, Export, WriteFlushed,
     RemoveMeta, WritePreserved, OwnerDies, SpawnHelper, GroupEnds, Write,
     DirectWrite
<1>2. CASE WriteNew
  <2>1. ~mem.reg /\ ~disk.there
    BY <1>2 DEF IInv, HandlerInv, WriteNew, At
  <2> QED BY <2>1 DEF IInv, WriterInv, NothingLost, Retained
<1>3. CASE RunCleanup
  <2>1. mem.reg /\ ~mem.busy /\ ~mem.dirty
    BY <1>3 DEF IInv, HandlerInv, StageInv, RunCleanup, At, Inside, Stages
  <2> QED BY <2>1, FreeIsQuiet DEF IInv, DataInv
<1>4. CASE Recover
  <2>1. ~mem.reg /\ disk.there /\ ~MutationOwnerAlive(disk.owner, disk.group)
    BY <1>4 DEF Recover
  <2>2. ~(roots \subseteq roots') => ~disk.dirty
    BY <1>4 DEF Recover, DiscardsRoot
  <2>3. \A u \in Leases : ~Holds(u) /\ ~Runs(u)
    BY <2>1, SessionAssumption
       DEF SessionAssumption, IInv, WriterInv, MutationOwnerAlive, OwnerAlive,
           GroupAlive, Holds, Runs
  <2> QED BY <2>2, <2>3 DEF IInv, NothingLost, Retained
<1> QED BY <1>1, <1>2, <1>3, <1>4

(***************************************************************************)
(* A save never drops what the patch holds.                                *)
(***************************************************************************)
THEOREM SavesOnlyAdd == Spec => PatchOnlyGrows
<1>1. IInv /\ [Next]_vars => [patch \subseteq patch']_vars
  BY PatchSteps
<1> QED BY <1>1, Invariance, PTL DEF Spec, PatchOnlyGrows

(***************************************************************************)
(* A root is removed only when its promised work is saved and nobody may   *)
(* still write to it.                                                      *)
(***************************************************************************)
THEOREM RemovalIsSafe == Spec => RemovedOnlyWhenSaved
<1>1. ASSUME IInv, [Next]_vars
      PROVE  [\A r \in roots \ roots' :
                /\ upper[r] \cap written \subseteq patch
                /\ \A u \in Leases : Active(u) => token[u].root # r]_vars
  BY <1>1, RemovalSteps, ActiveWriter
<1> QED BY <1>1, Invariance, PTL DEF Spec, RemovedOnlyWhenSaved

(***************************************************************************)
(* The view is exported and unmounted only while nobody may write to it.   *)
(***************************************************************************)
THEOREM SavesAreQuiet == Spec => SavesAQuietView
<1>1. ASSUME IInv, [Next]_vars
      PROVE  [patch' # patch \/ mounts \ mounts' # {}
                => \A u \in Leases : ~Active(u)]_vars
  BY <1>1, PatchSteps, RemovalSteps, ActiveWriter
<1> QED BY <1>1, Invariance, PTL DEF Spec, SavesAQuietView

-----------------------------------------------------------------------------
\* Promised work is made by a lease holder's write, or by an editor whose
\* mark-dirty succeeds, and is from then on in the retained upper layer.
LEMMA WrittenSteps ==
  ASSUME IInv, [Next]_vars, written' # written
  PROVE  /\ patch' = patch
         /\ \E w \in Writes : written' = written \cup {w}
         /\ disk'.there /\ disk'.dirty /\ disk'.root \in roots'
<1> USE DEF fileVars
<1>1. WriteMarked \/ \E u \in Leases : Write(u)
  BY DEF Next, HandlerStep, Request, Process, vars, Start, Crash, Signal,
     BeginLookup, BeginAcquire, BeginRelease, BeginAttach, Recover, BeginClose,
     WriteAttached, FoundRegistered, WriteUsed, NotFound, CreateNew,
     WriteNew, Restore, WriteRestored, RestoreRefused, CreateFailed, EnsureDone,
     MarkDirty, RecoverBusy, Finish, WriteFinished, WriteUnsaved,
     AcquireBusy, AcquireAborted, Grant, WriteAcquired, LeftAlone, SkipFlush,
     WriteSkipped, BeginFlush, WriteCheckpoint, Export, WriteFlushed, RunCleanup,
     RemoveMeta, WritePreserved, OwnerDies, SpawnHelper, GroupEnds, DirectWrite
<1>2. CASE WriteMarked
  <2>1. mem.reg /\ mem.dirty /\ ~mem.closed /\ ~At("writePreserved")
    BY <1>2 DEF IInv, HandlerInv, StageInv, WriteMarked, At, Inside, Stages
  <2>2. mem.root \in roots
    BY <2>1, LiveView
  <2>3. PICK out \in MetaResults :
          /\ WriteMeta(out)
          /\ written' = IF out = "ok"
                        THEN written \cup (upper[mem.root] \cap {Direct})
                        ELSE written
    BY <1>2 DEF WriteMarked
  <2>4. out = "ok" /\ written' = written \cup {Direct}
    BY <2>3
  <2>5. disk' = Snapshot(mem)
    BY <2>3, <2>4, WriteMetaSteps DEF IInv
  <2>6. disk'.there /\ disk'.dirty /\ disk'.root = mem.root
    BY <2>1, <2>5 DEF Snapshot
  <2>7. patch' = patch /\ roots' = roots
    BY <1>2 DEF WriteMarked
  <2> QED BY <2>2, <2>4, <2>6, <2>7 DEF Writes
<1>3. ASSUME NEW u \in Leases, Write(u)
      PROVE  /\ patch' = patch
             /\ \E w \in Writes : written' = written \cup {w}
             /\ disk'.there /\ disk'.dirty /\ disk'.root \in roots'
  <2>1. disk.there /\ disk.dirty /\ disk.root \in roots
    BY <1>3, ActiveWriter DEF Write, IInv, WriterInv
  <2> QED BY <1>3, <2>1 DEF Write, Writes
<1> QED BY <1>1, <1>2, <1>3

AllKeptOrSaved ==
  /\ written = (patch \cap written) \cup (Retained \cap written)
  /\ IF disk.there /\ disk.dirty /\ disk.root \in roots
     THEN Retained \cap written = written
     ELSE Retained \cap written = {}

\* Either the retained upper layer holds all promised work or it is not
\* there, and then all promised work is saved.
LEMMA KeptOrSaved == IInv => AllKeptOrSaved
BY DEF IInv, NothingLost, DataInv, Retained, AllKeptOrSaved

(***************************************************************************)
(* DaemonSession implements SavedWork: whatever fails, work once promised  *)
(* is saved or kept, kept work is dropped only once all of it is saved,    *)
(* and saved work stays saved.                                             *)
(***************************************************************************)
THEOREM Refinement == Spec => ImplementsSavedWork
<1> DEFINE saved == patch \cap written
           kept  == Retained \cap written
<1>1. Init => Work!Init
  BY DEF Init, Work!Init
<1>2. IInv' => AllKeptOrSaved'
  BY KeptOrSaved, PTL
<1>3. IInv /\ IInv' /\ [Next]_vars => [Work!Next]_<<saved, kept>>
  <2> SUFFICES ASSUME IInv, IInv', [Next]_vars
               PROVE  Work!Next \/ UNCHANGED <<saved, kept>>
    OBVIOUS
  <2>1. /\ written = saved \cup kept /\ kept \in {{}, written}
        /\ written' = saved' \cup kept' /\ kept' \in {{}, written'}
        /\ disk'.there /\ disk'.dirty /\ disk'.root \in roots' => kept' = written'
    BY <1>2, KeptOrSaved DEF AllKeptOrSaved
  <2>2. CASE written' # written
    <3>1. /\ patch' = patch /\ \E w \in Writes : written' = written \cup {w}
          /\ disk'.there /\ disk'.dirty /\ disk'.root \in roots'
      BY <2>2, WrittenSteps
    <3>2. PICK w \in Writes : written' = written \cup {w}
      BY <3>1
    <3>3. Work!Commit(w)
      BY <2>1, <3>1, <3>2 DEF Work!Commit
    <3> QED BY <3>3 DEF Work!Next
  <2>3. CASE written' = written /\ patch' # patch
    <3>1. kept' = kept
      BY <2>3, PatchSteps DEF Retained
    <3>2. Work!Save
      BY <2>1, <2>3, <3>1, PatchSteps DEF Work!Save
    <3> QED BY <3>2 DEF Work!Next
  <2>4. CASE written' = written /\ patch' = patch
    <3>1. CASE kept' = kept
      BY <2>4, <3>1
    <3>2. CASE kept = {} /\ kept' = written
      BY <2>1, <2>4, <3>2 DEF Work!Keep, Work!Next
    <3>3. CASE kept = written /\ kept' = {}
      BY <2>1, <2>4, <3>3 DEF Work!Drop, Work!Next
    <3> QED BY <2>1, <2>4, <3>1, <3>2, <3>3
  <2> QED BY <2>2, <2>3, <2>4
<1> QED BY <1>1, <1>3, Invariance, PTL DEF Spec, ImplementsSavedWork, Work!Spec
-----------------------------------------------------------------------------
(***************************************************************************)
(* The way of a handler.                                                   *)
(***************************************************************************)
\* How many steps a handler takes at most, from each stage on.
StageLeft(s) ==
  IF s \in {"lookup", "restore"} THEN 12
  ELSE IF s \in {"writeUsed", "writeNew", "writeRestored"} THEN 11
  ELSE IF s = "have" THEN 10
  ELSE IF s = "finish" THEN 9
  ELSE IF s = "writeFinished" THEN 8
  ELSE IF s = "ready" THEN 7
  ELSE IF s = "writeCheckpoint" THEN 6
  ELSE IF s = "export" THEN 5
  ELSE IF s = "writeFlushed" THEN 4
  ELSE IF s = "cleanup" THEN 3
  ELSE IF s = "writeUnsaved" THEN 2
  ELSE IF s = "idle" THEN 0 ELSE 1

StepsLeft == StageLeft(h.at)

\* The ways on from a stage: out, to a later stage, or the end of the process.
GoesOn == \/ Return /\ UNCHANGED closing
          \/ /\ \E s \in Stages \ {"idle"} : Goto(s) /\ StageLeft(s) < StepsLeft
             /\ UNCHANGED closing
          \/ Stopped

LEMMA LookupGoesOn ==
  ASSUME FoundRegistered \/ WriteUsed \/ NotFound \/ CreateNew \/ WriteNew \/ Restore
         \/ WriteRestored \/ RestoreRefused \/ CreateFailed
  PROVE  GoesOn /\ h.at \in {"lookup", "restore", "writeUsed", "writeNew", "writeRestored"}
BY DEF FoundRegistered, WriteUsed, NotFound, CreateNew, WriteNew, Restore, WriteRestored,
       RestoreRefused, CreateFailed, At, GoesOn, StepsLeft, StageLeft, Stages

LEMMA WorkGoesOn ==
  ASSUME IInv, EnsureDone \/ MarkDirty \/ WriteMarked \/ RecoverBusy \/ Finish \/ WriteFinished
         \/ WriteUnsaved \/ AcquireBusy \/ AcquireAborted \/ Grant \/ WriteAcquired
         \/ WriteAttached
  PROVE  GoesOn /\ h.at # "idle"
<1>1. CASE EnsureDone \/ MarkDirty \/ WriteMarked \/ WriteAttached
  BY <1>1 DEF EnsureDone, MarkDirty, WriteMarked, WriteAttached, At, GoesOn, StepsLeft,
     StageLeft, Stages
<1>2. CASE RecoverBusy
  BY <1>2 DEF RecoverBusy, At, GoesOn, StepsLeft, StageLeft, Stages
<1>3. CASE Finish
  BY <1>3 DEF Finish, FinishStage, At, GoesOn, StepsLeft, StageLeft, Stages
<1>4. CASE WriteFinished \/ WriteUnsaved
  BY <1>4 DEF WriteFinished, WriteUnsaved, AfterFinish, Fail, At, GoesOn, StepsLeft, StageLeft,
     Stages
<1>5. CASE AcquireBusy \/ AcquireAborted \/ Grant \/ WriteAcquired
  BY <1>5 DEF AcquireBusy, AcquireAborted, Grant, WriteAcquired, At, GoesOn, StepsLeft,
     StageLeft, Stages
<1> QED BY <1>1, <1>2, <1>3, <1>4, <1>5

LEMMA EndGoesOn ==
  ASSUME LeftAlone \/ SkipFlush \/ WriteSkipped \/ BeginFlush \/ WriteCheckpoint \/ Export
         \/ WriteFlushed \/ RunCleanup \/ RemoveMeta \/ WritePreserved
  PROVE  GoesOn /\ h.at # "idle"
<1>1. CASE LeftAlone \/ SkipFlush \/ WriteSkipped
  BY <1>1 DEF LeftAlone, SkipFlush, WriteSkipped, At, GoesOn, StepsLeft, StageLeft, Stages
<1>2. CASE BeginFlush \/ WriteCheckpoint \/ Export
  BY <1>2 DEF BeginFlush, WriteCheckpoint, Export, Fail, At, GoesOn, StepsLeft, StageLeft, Stages
<1>3. CASE WriteFlushed
  BY <1>3 DEF WriteFlushed, Fail, At, GoesOn, StepsLeft, StageLeft, Stages
<1>4. CASE RunCleanup
  BY <1>4 DEF RunCleanup, Fail, At, GoesOn, StepsLeft, StageLeft, Stages
<1>5. CASE RemoveMeta \/ WritePreserved
  BY <1>5 DEF RemoveMeta, WritePreserved, At, GoesOn, StepsLeft, StageLeft, Stages
<1> QED BY <1>1, <1>2, <1>3, <1>4, <1>5

LEMMA HandlerGoesOn == ASSUME IInv, HandlerStep PROVE GoesOn /\ h.at # "idle"
BY LookupGoesOn, WorkGoesOn, EndGoesOn DEF HandlerStep

(***************************************************************************)
(* A handler that has the gate comes to its end in at most twelve steps,   *)
(* whatever fails on the way: none of its error paths leads back.          *)
(***************************************************************************)
THEOREM HandlersEnd == Spec => [][HandlerStep => StepsLeft' < StepsLeft]_vars
<1>1. ASSUME IInv, HandlerStep PROVE StepsLeft' < StepsLeft
  <2>1. h \in HandlerType /\ h.at # "idle" /\ GoesOn
    BY <1>1, HandlerGoesOn DEF IInv, TypeOK
  <2>2. ASSUME NEW s, Goto(s) PROVE h'.at = s
    BY <2>1, <2>2 DEF Goto, HandlerType
  <2>3. CASE Return \/ Stopped
    <3>1. h'.at = "idle"
      BY <2>3 DEF Return, Stopped, Idle
    <3> QED BY <2>1, <3>1 DEF StepsLeft, StageLeft
  <2> QED BY <2>1, <2>2, <2>3 DEF GoesOn, StepsLeft
<1> QED BY <1>1, Invariance, PTL DEF Spec
-----------------------------------------------------------------------------
(***************************************************************************)
(* The gate.                                                               *)
(***************************************************************************)
\* A handler that goes on stays at its request.
LEMMA HandlerStaysInside ==
  ASSUME IInv, HandlerStep PROVE [Gate!Next]_(Gate!vars)
<1>1. h \in HandlerType /\ h # Idle /\ GoesOn
  BY HandlerGoesOn DEF IInv, TypeOK, Idle
<1>2. CASE Stopped
  BY <1>2 DEF Stopped, WorkInside, Gate!Next, Gate!Stop
<1>3. CASE Return /\ UNCHANGED closing
  BY <1>3 DEF Return, WorkInside, Gate!Next, Gate!Leave
<1>4. ASSUME NEW s \in Stages \ {"idle"}, Goto(s), UNCHANGED closing
      PROVE  [Gate!Next]_(Gate!vars)
  <2>1. h'.op = h.op /\ h' # Idle
    BY <1>1, <1>4 DEF Goto, HandlerType, Idle
  <2> QED BY <1>1, <1>4, <2>1 DEF WorkInside, Gate!vars
<1> QED BY <1>1, <1>2, <1>3, <1>4 DEF GoesOn

\* A request or the shutdown goes in when nobody is inside.
LEMMA RequestGoesIn ==
  ASSUME IInv, Request \/ BeginClose PROVE [Gate!Next]_(Gate!vars)
<1>1. h = Idle /\ WorkInside = "none"
  BY DEF Request, BeginLookup, BeginAcquire, BeginRelease, BeginAttach, Recover, BeginClose,
     Accepts, GateFree, WorkInside
<1>2. CASE UNCHANGED <<h, closing>>
  BY <1>2 DEF WorkInside, Gate!vars
<1>3. CASE Stopped
  BY <1>3 DEF Stopped, WorkInside, Gate!Next, Gate!Stop
<1>4. CASE Request
  <2>1. UNCHANGED closing
    BY <1>4 DEF Request, BeginLookup, BeginAcquire, BeginRelease, BeginAttach, Recover
  <2>2. CASE h' # h
    <3>1. h'.at # "idle" /\ h'.op # "close" /\ (h'.op # "release" => ~closing)
      BY <1>1, <1>4, <2>2, SessionAssumption DEF Request, BeginLookup, BeginAcquire, BeginRelease,
         BeginAttach, Recover, Accepts, SessionAssumption, LookupOps, EnsureOps
    <3>2. h' # Idle
      BY <3>1 DEF Idle
    <3> QED BY <1>1, <2>1, <3>1, <3>2 DEF WorkInside, Gate!Next, Gate!Enter, Gate!Works
  <2> QED BY <1>2, <2>1, <2>2
<1>5. CASE BeginClose
  <2>1. CASE mem.reg
    <3>1. closing /\ UNCHANGED closing /\ h'.op = "close" /\ h'.at # "idle"
      BY <1>5, <2>1 DEF BeginClose, CloseStage
    <3>2. h' # Idle
      BY <3>1 DEF Idle
    <3> QED BY <1>1, <3>1, <3>2 DEF WorkInside, Gate!Next, Gate!Enter, Gate!Works
  <2> QED BY <1>3, <1>5, <2>1 DEF BeginClose
<1> QED BY <1>4, <1>5

(***************************************************************************)
(* The handlers of DaemonSession keep to the gate that DaemonGate provides *)
(* for each key: what DaemonSession takes for granted of its gate is what  *)
(* KeyGate says, and no more.                                              *)
(***************************************************************************)
THEOREM KeepsToTheGate == Spec => Gate!Spec
<1>1. ASSUME Init PROVE Gate!Init
  BY <1>1 DEF Init, WorkInside, Gate!Init
<1>2. ASSUME IInv, [Next]_vars PROVE [Gate!Next]_(Gate!vars)
  <2>1. CASE Signal
    BY <2>1 DEF Signal, WorkInside, Gate!Next, Gate!Close
  <2>2. CASE Start \/ Process \/ UNCHANGED vars
    <3>1. UNCHANGED <<h, closing>>
      BY <2>2 DEF Start, Process, OwnerDies, SpawnHelper, GroupEnds, Write, DirectWrite, vars,
         daemonVars
    <3> QED BY <3>1 DEF WorkInside, Gate!vars
  <2>3. CASE Crash
    BY <2>3 DEF Crash, Stopped, WorkInside, Gate!Next, Gate!Stop
  <2> QED BY <1>2, <2>1, <2>2, <2>3, HandlerStaysInside, RequestGoesIn DEF Next
<1> QED BY <1>1, <1>2, Invariance, PTL DEF Spec, Gate!Spec
=============================================================================
