------------------------- MODULE DaemonSessionSteps -------------------------
(***************************************************************************)
(* Every action of DaemonSession keeps the inductive invariant: one lemma  *)
(* per action, after the facts that several of them need.  The theorems    *)
(* that rest on these lemmas are in DaemonSessionProofs.                   *)
(***************************************************************************)
EXTENDS DaemonSessionInv, TLAPS

\* Moving to another stage keeps the handler's request.
LEMMA GotoSteps ==
  ASSUME TypeOK, NEW s \in Stages, Goto(s)
  PROVE  h' \in HandlerType /\ h'.at = s /\ h'.op = h.op /\ h'.lease = h.lease
  BY DEF TypeOK, HandlerType, Goto

\* A handler that returns leaves the gate free.
LEMMA ReturnSteps ==
  ASSUME Return
  PROVE  h' \in HandlerType /\ h' = Idle /\ h'.at = "idle" /\ h'.op = "none"
  BY DEF HandlerType, Return, Idle, Stages, Ops

\* What a session persists is well-formed metadata.
LEMMA SnapshotType == ASSUME TypeOK PROVE Snapshot(mem) \in MetaType
  BY DEF TypeOK, SessionType, MetaType, Snapshot

\* The empty registry entry is well-formed.
LEMMA NoSessionType == NoSession \in SessionType
  BY SessionAssumption DEF SessionAssumption, NoSession, SessionType

\* A daemon that stops keeps nothing in memory.
LEMMA StoppedSteps ==
  ASSUME Stopped
  PROVE  /\ ~up' /\ ~closing' /\ h' = Idle /\ mem' = NoSession
         /\ up' \in BOOLEAN /\ closing' \in BOOLEAN
         /\ h' \in HandlerType /\ mem' \in SessionType
<1>1. Idle \in HandlerType
  BY DEF Idle, HandlerType, Stages, Ops
<1> QED BY <1>1, NoSessionType DEF Stopped

\* The parts of the invariant about the handler and the session hold of a daemon
\* that stops.
LEMMA StoppedInv ==
  ASSUME Stopped
  PROVE  HandlerInv' /\ StageInv' /\ SessionInv'
  BY DEF Stopped, HandlerInv, StageInv, SessionInv, Idle, NoSession, At, Inside

\* A metadata write leaves the file as it was or replaces it by the session's
\* snapshot, and it replaces it when it succeeds; either way the file is valid.
LEMMA WriteMetaSteps ==
  ASSUME TypeOK, MetaInv, NEW out, WriteMeta(out)
  PROVE  /\ disk' \in MetaType /\ MetaInv'
         /\ disk' = disk \/ disk' = Snapshot(mem)
         /\ out = "ok" => disk' = Snapshot(mem)
  BY SnapshotType DEF TypeOK, WriteMeta, MetaInv, MetaValid

\* An export puts the whole view into the patch, or leaves the patch as it is;
\* when it reports success, it is the former.
LEMMA WritePatchSteps ==
  ASSUME NEW out, WritePatch(out)
  PROVE  /\ patch' \in {patch, upper[mem.root]}
         /\ out = "ok" => patch' = upper[mem.root]
  BY DEF WritePatch

\* A session that is not closed still has its root, and its upper layer holds
\* all promised work and all of the patch.
LEMMA LiveView ==
  ASSUME IInv, mem.reg, ~mem.closed, ~At("writePreserved")
  PROVE  /\ mem.todo = CleanupSteps
         /\ mem.root \in roots
         /\ written \cup patch \subseteq upper[mem.root]
  BY DEF IInv, SessionInv, DataInv, CleanupSteps

\* While the registered session is not busy, no client holds a lease on it and
\* no command runs in its view.
LEMMA FreeIsQuiet ==
  ASSUME IInv, mem.reg, ~mem.busy
  PROVE  \A u \in Leases : ~Holds(u) /\ ~Runs(u)
  BY DEF IInv, WriterInv

\* finishBusyLocked is reached only once the lease's holder can write no more.
LEMMA FinishIsQuiet ==
  ASSUME IInv, At("finish")
  PROVE  \A u \in Leases : ~Holds(u) /\ ~Runs(u)
<1> SUFFICES ASSUME NEW u \in Leases, Holds(u) \/ Runs(u) PROVE FALSE
  OBVIOUS
<1>1. mem.reg /\ mem.lease = u
  BY DEF IInv, HandlerInv, WriterInv, At, Inside, Stages
<1>2. ~Runs(u)
  BY <1>1, SessionAssumption DEF IInv, StageInv, WriterInv, Runs, GroupAlive
<1>3. ~Holds(u)
  BY <1>1 DEF IInv, StageInv, HandlerInv, WriterInv, At, Holds
<1> QED BY <1>2, <1>3

\* A step while no client holds a lease and no command runs keeps WriterInv, as
\* long as it grants no lease and takes nothing from the patch.
LEMMA QuietStep ==
  ASSUME WriterInv, \A u \in Leases : ~Holds(u) /\ ~Runs(u),
         UNCHANGED <<procVars, written>>, patch \subseteq patch',
         \A u \in Leases :
           /\ client[u] = "saved" => mem'.lease # u
           /\ mem'.reg /\ mem'.busy /\ mem'.lease = u =>
                \/ mem.reg /\ mem.busy /\ mem.lease = u /\ ViewOf(mem') = ViewOf(mem)
                \/ token[u].view = 0 \/ ~OwnerAlive(OwnerOf[u])
  PROVE  WriterInv'
<1>1. \A u \in Leases : ~Holds(u)' /\ ~Runs(u)'
  BY DEF Holds, Runs, OwnerAlive, procVars
<1>2. \A u \in Leases : /\ token'[u] = token[u] /\ client'[u] = client[u]
                        /\ OwnerAlive(OwnerOf[u])' = OwnerAlive(OwnerOf[u])
  BY DEF OwnerAlive, procVars
<1>3. \A u \in Leases : client[u] = "saved" /\ u \in written => u \in patch
  BY DEF WriterInv
<1> QED BY <1>1, <1>2, <1>3 DEF WriterInv

\* Building a view over a root, new or retained, adds that root, leaves every
\* other upper layer as it is, and shows the patch in a new one.
LEMMA BuildViewSteps ==
  ASSUME TypeOK, NEW root \in Views, root \in roots \cup {next}, next <= MaxViews,
         BuildView(root)
  PROVE  /\ upper' \in [Views -> SUBSET Writes]
         /\ roots' \in SUBSET Views /\ mounts' \in SUBSET roots'
         /\ exts' \in SUBSET Views /\ next' \in 1 .. MaxViews + 1
         /\ patch' = patch /\ next' = next + 1
         /\ roots' = roots \cup {root}
         /\ \A r \in roots : upper'[r] = upper[r]
         /\ root \notin roots => upper'[root] = patch
<1>1. next \in Views /\ next \in Nat /\ MaxViews \in Nat
  BY SessionAssumption DEF SessionAssumption, TypeOK, Views
<1>2. /\ roots' \in SUBSET Views /\ mounts' \in SUBSET roots' /\ exts' \in SUBSET Views
      /\ patch' = patch /\ next' = next + 1 /\ roots' = roots \cup {root}
  BY <1>1 DEF TypeOK, BuildView
<1>3. next' \in 1 .. MaxViews + 1
  BY <1>1, <1>2
<1>4. upper' = IF root \in roots THEN upper ELSE [upper EXCEPT ![root] = patch]
  BY DEF BuildView
<1>5. /\ upper' \in [Views -> SUBSET Writes]
      /\ \A r \in roots : upper'[r] = upper[r]
      /\ root \notin roots => upper'[root] = patch
  BY <1>4 DEF TypeOK
<1> QED BY <1>2, <1>3, <1>5

-----------------------------------------------------------------------------
\* A daemon that starts has an empty registry.
LEMMA StartKeeps == ASSUME IInv, Start PROVE IInv'
<1> USE DEF IInv, vars, fileVars, procVars, Start, At
<1>1. TypeOK'
  <2>1. up' \in BOOLEAN
    OBVIOUS
  <2> QED BY <2>1 DEF TypeOK
<1>2. NothingLost'
  BY DEF NothingLost, Retained
<1>3. HandlerInv'
  BY DEF HandlerInv, Inside, Stages
<1>4. StageInv'
  BY DEF StageInv, Holds, Runs, GroupAlive, OwnerAlive
<1>5. SessionInv'
  BY DEF SessionInv
<1>6. MetaInv'
  BY DEF MetaInv
<1>7. RecordInv'
  BY DEF RecordInv
<1>8. DataInv'
  BY DEF DataInv
<1>9. WriterInv'
  BY DEF WriterInv, Holds, Runs, OwnerAlive
<1> QED BY <1>1, <1>2, <1>3, <1>4, <1>5, <1>6, <1>7, <1>8, <1>9

\* SIGKILL at any moment leaves the files consistent.
LEMMA CrashKeeps == ASSUME IInv, Crash PROVE IInv'
<1> USE DEF IInv, vars, fileVars, procVars, Crash, At, Stopped, Idle,
   NoSession
<1>1. TypeOK'
  <2>1. up' \in BOOLEAN
    OBVIOUS
  <2>2. closing' \in BOOLEAN
    OBVIOUS
  <2>3. h' \in HandlerType
    BY DEF HandlerType, Stages, Ops, LookupOps, EnsureOps
  <2>4. mem' \in SessionType
    BY SessionAssumption DEF TypeOK, SessionType, MetaType, CleanupSteps,
       Views, SessionAssumption
  <2> QED BY <2>1, <2>2, <2>3, <2>4 DEF TypeOK
<1>2. NothingLost'
  BY DEF NothingLost, Retained
<1>3. HandlerInv'
  BY DEF HandlerInv, Inside, Stages
<1>4. StageInv'
  BY DEF StageInv
<1>5. SessionInv'
  BY DEF SessionInv
<1>6. MetaInv'
  BY DEF MetaInv
<1>7. RecordInv'
  BY DEF RecordInv
<1>8. DataInv'
  BY DEF DataInv
<1>9. WriterInv'
  BY SessionAssumption DEF WriterInv, Holds, Runs, OwnerAlive
<1> QED BY <1>1, <1>2, <1>3, <1>4, <1>5, <1>6, <1>7, <1>8, <1>9

\* The termination signal only raises the closing flag.
LEMMA SignalKeeps == ASSUME IInv, Signal PROVE IInv'
<1> USE DEF IInv, vars, fileVars, procVars, Signal, At
<1>1. TypeOK'
  <2>1. closing' \in BOOLEAN
    OBVIOUS
  <2> QED BY <2>1 DEF TypeOK
<1>2. NothingLost'
  BY DEF NothingLost, Retained
<1>3. HandlerInv'
  BY DEF HandlerInv, Inside, Stages
<1>4. StageInv'
  BY DEF StageInv, Holds, Runs, GroupAlive, OwnerAlive
<1>5. SessionInv'
  BY DEF SessionInv
<1>6. MetaInv'
  BY DEF MetaInv
<1>7. RecordInv'
  BY DEF RecordInv
<1>8. DataInv'
  BY DEF DataInv
<1>9. WriterInv'
  BY DEF WriterInv, Holds, Runs, OwnerAlive
<1> QED BY <1>1, <1>2, <1>3, <1>4, <1>5, <1>6, <1>7, <1>8, <1>9

\* A request that takes the gate has changed nothing yet.
LEMMA BeginLookupKeeps ==
  ASSUME IInv, NEW o \in Requests \ {"acquire"}, BeginLookup(o)
  PROVE  IInv'
<1> USE DEF IInv, vars, fileVars, procVars, BeginLookup, At, Accepts,
   GateFree, Idle
<1>1. TypeOK'
  <2>1. h' \in HandlerType
    BY SessionAssumption DEF TypeOK, HandlerType, Stages, Ops, LookupOps,
       EnsureOps, SessionAssumption
  <2> QED BY <2>1 DEF TypeOK
<1>2. NothingLost'
  BY DEF NothingLost, Retained
<1>3. HandlerInv'
  BY SessionAssumption
     DEF SessionAssumption, HandlerInv, Inside, Stages, LookupOps, EnsureOps,
         WorkOps, FlushOps
<1>4. StageInv'
  BY DEF StageInv
<1>5. SessionInv'
  BY DEF SessionInv
<1>6. MetaInv'
  BY DEF MetaInv
<1>7. RecordInv'
  BY DEF RecordInv
<1>8. DataInv'
  BY DEF DataInv
<1>9. WriterInv'
  BY DEF WriterInv, Holds, Runs, OwnerAlive
<1> QED BY <1>1, <1>2, <1>3, <1>4, <1>5, <1>6, <1>7, <1>8, <1>9

\* An acquire request that takes the gate has changed nothing yet.
LEMMA BeginAcquireKeeps == ASSUME IInv, NEW u \in Leases, BeginAcquire(u) PROVE IInv'
<1> USE DEF IInv, vars, fileVars, procVars, BeginAcquire, At, Accepts,
   GateFree, Idle
<1>1. TypeOK'
  <2>1. h' \in HandlerType
    BY DEF HandlerType, Stages, Ops, LookupOps, EnsureOps
  <2> QED BY <2>1 DEF TypeOK
<1>2. NothingLost'
  BY DEF NothingLost, Retained
<1>3. HandlerInv'
  BY DEF HandlerInv, Inside, Stages
<1>4. StageInv'
  BY DEF StageInv
<1>5. SessionInv'
  BY DEF SessionInv
<1>6. MetaInv'
  BY DEF MetaInv
<1>7. RecordInv'
  BY DEF RecordInv
<1>8. DataInv'
  BY DEF DataInv
<1>9. WriterInv'
  BY DEF WriterInv, Holds, Runs, OwnerAlive
<1> QED BY <1>1, <1>2, <1>3, <1>4, <1>5, <1>6, <1>7, <1>8, <1>9

\* release_exec goes on only if the lease and the view generation match and the
\* command's group is gone.
LEMMA BeginReleaseKeeps == ASSUME IInv, NEW u \in Leases, BeginRelease(u) PROVE IInv'
<1> USE DEF IInv, vars, fileVars, procVars, BeginRelease, At, GateFree, Idle,
   Releasable
<1>1. TypeOK'
  <2>1. h' \in HandlerType
    BY DEF HandlerType, Stages, Ops, LookupOps, EnsureOps
  <2>2. client' \in [Leases -> {"idle", "held", "releasing", "saved"}]
    BY DEF TypeOK
  <2> QED BY <2>1, <2>2 DEF TypeOK
<1>2. NothingLost'
  BY DEF NothingLost, Retained
<1>3. HandlerInv'
  BY DEF HandlerInv, Inside, Stages, EnsureOps, TypeOK, HandlerType
<1>4. StageInv'
  BY DEF StageInv, GroupAlive
<1>5. SessionInv'
  BY DEF SessionInv
<1>6. MetaInv'
  BY DEF MetaInv
<1>7. RecordInv'
  BY DEF RecordInv
<1>8. DataInv'
  BY DEF DataInv
<1>9. WriterInv'
  BY DEF WriterInv, Holds, Runs, OwnerAlive
<1> QED BY <1>1, <1>2, <1>3, <1>4, <1>5, <1>6, <1>7, <1>8, <1>9

\* attach_exec puts the group on record in memory only for the lease's holder.
LEMMA BeginAttachKeeps == ASSUME IInv, NEW u \in Leases, BeginAttach(u) PROVE IInv'
<1> USE DEF IInv, vars, fileVars, procVars, BeginAttach, At, Accepts,
   GateFree, Idle, Attachable
<1>1. TypeOK'
  <2>1. h' \in HandlerType
    BY DEF HandlerType, Stages, Ops, LookupOps, EnsureOps
  <2>2. mem' \in SessionType
    BY DEF TypeOK, SessionType
  <2>3. group' \in [Leases -> {"none", "helper", "run", "quit", "dead"}]
    BY DEF TypeOK
  <2> QED BY <2>1, <2>2, <2>3 DEF TypeOK
<1>2. NothingLost'
  BY DEF NothingLost, Retained
<1>3. HandlerInv'
  BY DEF HandlerInv, TypeOK, SessionType
<1>4. StageInv'
  <2>1. CASE h' = h /\ mem' = mem
    BY <2>1 DEF StageInv
  <2>2. CASE h'.at = "writeAttached"
    <3>1. /\ h'.lease = u /\ Attachable(u)
          /\ mem'.busy = mem.busy /\ mem'.lease = mem.lease /\ mem'.group = u
          /\ ViewOf(mem') = ViewOf(mem)
      BY <2>2 DEF TypeOK, SessionType, ViewOf
    <3>2. token[u] = ViewOf(mem)
      BY <3>1 DEF WriterInv, OwnerAlive
    <3> QED BY <2>2, <3>1, <3>2 DEF StageInv
  <2> QED BY <2>1, <2>2
<1>5. SessionInv'
  BY DEF SessionInv, HandlerInv, TypeOK, SessionType, HandlerType
<1>6. MetaInv'
  BY DEF MetaInv
<1>7. RecordInv'
  BY DEF RecordInv
<1>8. DataInv'
  BY DEF DataInv, HandlerInv, TypeOK, HandlerType, SessionType, SessionInv
<1>9. WriterInv'
  BY DEF WriterInv, Holds, Runs, ViewOf, OwnerAlive, TypeOK, SessionType
<1> QED BY <1>1, <1>2, <1>3, <1>4, <1>5, <1>6, <1>7, <1>8, <1>9

\* The helper runs its command only after its group is durably recorded.
LEMMA WriteAttachedKeeps == ASSUME IInv, WriteAttached PROVE IInv'
<1> USE DEF IInv, vars, fileVars, procVars, WriteAttached, At, WriteMeta,
   Snapshot, Return, Idle
<1>1. TypeOK'
  <2>1. h' \in HandlerType
    BY DEF HandlerType, Stages, Ops, LookupOps, EnsureOps
  <2>2. disk' \in MetaType
    BY DEF TypeOK, SessionType, MetaType
  <2>3. group' \in [Leases -> {"none", "helper", "run", "quit", "dead"}]
    BY DEF TypeOK
  <2> QED BY <2>1, <2>2, <2>3 DEF TypeOK
<1>2. NothingLost'
  BY DEF NothingLost, Retained, TypeOK, HandlerType, DataInv, HandlerInv, Inside
<1>3. HandlerInv'
  BY DEF HandlerInv, Inside, Stages, EnsureOps, NoSession
<1>4. StageInv'
  BY DEF StageInv
<1>5. SessionInv'
  BY DEF SessionInv
<1>6. MetaInv'
  BY DEF MetaInv
<1>7. RecordInv'
  BY DEF RecordInv
<1>8. DataInv'
  BY DEF DataInv, HandlerInv, StageInv, NoSession
<1>9. WriterInv'
  BY DEF WriterInv, Holds, Runs, ViewOf, OwnerAlive, HandlerInv, StageInv,
     SessionInv, DataInv, NoSession
<1> QED BY <1>1, <1>2, <1>3, <1>4, <1>5, <1>6, <1>7, <1>8, <1>9

\* A registered session is found as it is.
LEMMA FoundRegisteredKeeps == ASSUME IInv, FoundRegistered PROVE IInv'
<1> USE DEF IInv, vars, fileVars, procVars, FoundRegistered, At, Goto,
   Return, Idle
<1>1. TypeOK'
  <2>1. h' \in HandlerType
    BY DEF TypeOK, HandlerType, Stages, Ops, LookupOps, EnsureOps
  <2> QED BY <2>1 DEF TypeOK
<1>2. NothingLost'
  BY DEF NothingLost, Retained
<1>3. HandlerInv'
  BY DEF HandlerInv, Inside, Stages, EnsureOps, TypeOK, HandlerType
<1>4. StageInv'
  BY DEF StageInv, TypeOK, HandlerType
<1>5. SessionInv'
  BY DEF SessionInv, TypeOK, HandlerType
<1>6. MetaInv'
  BY DEF MetaInv
<1>7. RecordInv'
  BY DEF RecordInv, TypeOK, HandlerType, EnsureOps
<1>8. DataInv'
  BY DEF DataInv, TypeOK, HandlerType
<1>9. WriterInv'
  BY DEF WriterInv, Holds, Runs, OwnerAlive
<1> QED BY <1>1, <1>2, <1>3, <1>4, <1>5, <1>6, <1>7, <1>8, <1>9

\* The save of lastUsed records the session as it is.
LEMMA WriteUsedKeeps == ASSUME IInv, WriteUsed PROVE IInv'
<1> USE DEF IInv, vars, fileVars, procVars, WriteUsed, At, WriteMeta,
   Snapshot, Goto, Return, Idle
<1>1. TypeOK'
  <2>1. h' \in HandlerType
    BY DEF TypeOK, HandlerType, Stages, Ops, LookupOps, EnsureOps
  <2>2. disk' \in MetaType
    BY DEF TypeOK, SessionType, MetaType
  <2> QED BY <2>1, <2>2 DEF TypeOK
<1>2. NothingLost'
  BY DEF NothingLost, Retained, TypeOK, HandlerType, DataInv, HandlerInv, Inside
<1>3. HandlerInv'
  BY DEF HandlerInv, Inside, Stages, EnsureOps, TypeOK, HandlerType
<1>4. StageInv'
  BY DEF StageInv, TypeOK, HandlerType
<1>5. SessionInv'
  BY DEF SessionInv, TypeOK, HandlerType
<1>6. MetaInv'
  BY DEF MetaInv
<1>7. RecordInv'
  BY DEF RecordInv
<1>8. DataInv'
  BY DEF DataInv, HandlerInv, TypeOK, HandlerType, Inside
<1>9. WriterInv'
  BY DEF WriterInv, Holds, Runs, OwnerAlive, HandlerInv, SessionInv, DataInv,
     Inside, Stages
<1> QED BY <1>1, <1>2, <1>3, <1>4, <1>5, <1>6, <1>7, <1>8, <1>9

\* A request about a key with no session ends.
LEMMA NotFoundKeeps == ASSUME IInv, NotFound PROVE IInv'
<1> USE DEF IInv, vars, fileVars, procVars, NotFound, At, Return, Idle
<1>1. TypeOK'
  <2>1. h' \in HandlerType
    BY DEF HandlerType, Stages, Ops, LookupOps, EnsureOps
  <2> QED BY <2>1 DEF TypeOK
<1>2. NothingLost'
  BY DEF NothingLost, Retained
<1>3. HandlerInv'
  BY DEF HandlerInv, Inside, Stages, NoSession
<1>4. StageInv'
  BY DEF StageInv
<1>5. SessionInv'
  BY DEF SessionInv
<1>6. MetaInv'
  BY DEF MetaInv
<1>7. RecordInv'
  BY DEF RecordInv
<1>8. DataInv'
  BY DEF DataInv
<1>9. WriterInv'
  BY DEF WriterInv, Holds, Runs, OwnerAlive
<1> QED BY <1>1, <1>2, <1>3, <1>4, <1>5, <1>6, <1>7, <1>8, <1>9

\* A new session's view shows the patch.
LEMMA CreateNewKeeps == ASSUME IInv, CreateNew PROVE IInv'
<1> USE DEF IInv, At
<1>1. /\ h.at = "lookup" /\ h.op \in EnsureOps /\ ~mem.reg /\ ~disk.there
      /\ next <= MaxViews /\ BuildView(next)
      /\ UNCHANGED <<up, closing, disk, procVars, written>>
      /\ mem' = [NoSession EXCEPT !.root = next, !.ext = next, !.view = 1,
                                  !.todo = CleanupSteps, !.sum = patch]
  BY DEF CreateNew
<1>2. next \in Views /\ next \notin roots
  BY <1>1, SessionAssumption DEF SessionAssumption, TypeOK, Views, DataInv
<1>3. /\ h' \in HandlerType /\ h'.at = "writeNew" /\ h'.op = h.op /\ h'.lease = h.lease
  BY GotoSteps DEF CreateNew, Stages
<1>4. /\ upper' \in [Views -> SUBSET Writes]
      /\ roots' \in SUBSET Views /\ mounts' \in SUBSET roots'
      /\ exts' \in SUBSET Views /\ next' \in 1 .. MaxViews + 1
      /\ patch' = patch /\ next' = next + 1
      /\ roots' = roots \cup {next} /\ upper'[next] = patch
  BY <1>1, <1>2, BuildViewSteps
<1>5. mem' \in SessionType
  <2>1. next \in 0 .. MaxViews /\ patch \in SUBSET Writes /\ 1 \in Nat
    BY <1>2 DEF TypeOK, Views
  <2> QED BY <1>1, <2>1, NoSessionType DEF SessionType
<1>6. /\ ~mem'.reg /\ mem'.root = next /\ ~mem'.busy /\ ~mem'.dirty /\ ~mem'.closed
      /\ mem'.view = 1 /\ mem'.todo = CleanupSteps /\ mem'.gen = 0
      /\ mem'.durable = 0 /\ mem'.owner = NoOwner /\ mem'.lease = NoLease
      /\ mem'.group = NoLease
  BY <1>1 DEF NoSession
<1>7. TypeOK'
  BY <1>1, <1>3, <1>4, <1>5 DEF TypeOK, procVars
<1>8. NothingLost' /\ MetaInv'
  BY <1>1, <1>4 DEF NothingLost, Retained, MetaInv
<1>9. HandlerInv'
  BY <1>1, <1>3, <1>6 DEF HandlerInv, Idle, Inside, Stages, EnsureOps, procVars
<1>10. StageInv'
  BY <1>3, <1>6 DEF StageInv
<1>11. SessionInv'
  BY <1>3, <1>6 DEF SessionInv
<1>12. DataInv'
  <2>1. \A r \in roots' : r < next'
    BY <1>2, <1>4 DEF DataInv, TypeOK, Views
  <2> QED BY <1>1, <1>3, <1>4, <1>6, <2>1 DEF DataInv
<1>13. WriterInv'
  <2>1. \A u \in Leases : ~Holds(u) /\ ~Runs(u)
    BY <1>1 DEF WriterInv
  <2> QED BY <1>1, <1>4, <1>6, <2>1, QuietStep, SessionAssumption
             DEF SessionAssumption
<1>14. RecordInv'
  BY <1>3 DEF RecordInv
<1> QED BY <1>14, <1>7, <1>8, <1>9, <1>10, <1>11, <1>12, <1>13

\* A new session is registered once its metadata is written, and undone else.
LEMMA WriteNewKeeps == ASSUME IInv, WriteNew PROVE IInv'
<1> USE DEF IInv, At
<1>1. PICK out \in MetaResults, undone \in BOOLEAN :
        /\ WriteMeta(out)
        /\ IF out = "ok"
           THEN /\ mem' = [mem EXCEPT !.reg = TRUE] /\ Goto("have")
                /\ UNCHANGED <<roots, mounts, exts>>
           ELSE /\ mem' = NoSession /\ Return
                /\ roots'  = IF undone THEN roots \ {mem.root} ELSE roots
                /\ mounts' = IF undone THEN mounts \ {mem.root} ELSE mounts
                /\ exts'   = IF undone THEN exts \ {mem.ext} ELSE exts
  BY DEF WriteNew, Works
<1>2. /\ h.at = "writeNew"
      /\ UNCHANGED <<up, closing, patch, upper, next, procVars, written>>
  BY DEF WriteNew
<1>3. /\ ~mem.reg /\ ~disk.there /\ ~mem.dirty /\ ~mem.busy /\ mem.gen = 0
      /\ mem.todo = CleanupSteps /\ mem.lease = NoLease /\ up
      /\ mem.root \in roots /\ upper[mem.root] = patch
      /\ written \subseteq patch
  BY <1>2 DEF HandlerInv, SessionInv, DataInv, NothingLost, Retained, Idle
<1>4. /\ disk' \in MetaType /\ MetaInv'
      /\ disk' = disk \/ disk' = Snapshot(mem)
  BY <1>1, WriteMetaSteps
<1>5. ~(disk'.there /\ disk'.dirty)
  BY <1>3, <1>4 DEF Snapshot
<1>6. \A u \in Leases : ~Holds(u) /\ ~Runs(u)
  BY <1>3 DEF WriterInv
<1>7. NothingLost'
  BY <1>2, <1>3 DEF NothingLost
<1>8. CASE /\ mem' = [mem EXCEPT !.reg = TRUE] /\ Goto("have")
           /\ UNCHANGED <<roots, mounts, exts>>
  <2>1. /\ h' \in HandlerType /\ h'.at = "have" /\ h'.op = h.op /\ h'.lease = h.lease
    BY <1>8, GotoSteps DEF Stages
  <2>2. mem' \in SessionType
    BY <1>8 DEF TypeOK, SessionType
  <2>3. /\ mem'.reg /\ mem'.root = mem.root /\ mem'.gen = mem.gen
        /\ mem'.view = mem.view /\ mem'.closed = mem.closed /\ mem'.todo = mem.todo
        /\ ~mem'.busy /\ ~mem'.dirty /\ mem'.durable = mem.durable
        /\ mem'.owner = mem.owner /\ mem'.lease = NoLease
        /\ mem'.group = mem.group
    BY <1>3, <1>8 DEF TypeOK, SessionType
  <2>4. TypeOK'
    BY <1>2, <1>4, <1>8, <2>1, <2>2 DEF TypeOK, procVars
  <2>5. HandlerInv'
    BY <1>2, <1>3, <2>1, <2>3 DEF HandlerInv, Idle, Inside, EnsureOps, procVars
  <2>6. StageInv' /\ SessionInv'
    BY <1>3, <2>1, <2>3 DEF StageInv, SessionInv
  <2>7. DataInv'
    BY <1>2, <1>3, <1>5, <1>8, <2>1, <2>3 DEF DataInv, CleanupSteps
  <2>8. WriterInv'
    BY <1>2, <1>6, <2>3, QuietStep, SessionAssumption DEF SessionAssumption
  <2>9. RecordInv'
    <3>1. disk' = Snapshot(mem)
      BY <1>1, <1>3, <1>8, WriteMetaSteps, <2>3, NoSessionType DEF NoSession
    <3>2. Snapshot(mem)' = Snapshot(mem)
      BY <1>8 DEF TypeOK, SessionType, Snapshot
    <3> QED BY <3>1, <3>2 DEF RecordInv
  <2> QED BY <2>9, <1>4, <1>7, <2>4, <2>5, <2>6, <2>7, <2>8
<1>9. CASE /\ mem' = NoSession /\ Return
           /\ roots' \in SUBSET roots /\ mounts' \in SUBSET roots'
           /\ exts' \in SUBSET exts
  <2>1. h' \in HandlerType /\ h' = Idle /\ h'.at = "idle" /\ h'.op = "none"
    BY <1>9, ReturnSteps
  <2>3. TypeOK'
    BY <1>2, <1>4, <1>9, <2>1, NoSessionType DEF TypeOK, procVars
  <2>4. HandlerInv' /\ StageInv' /\ SessionInv'
    BY <1>2, <1>3, <1>9, <2>1
       DEF HandlerInv, StageInv, SessionInv, NoSession, Inside, EnsureOps, procVars
  <2>5. DataInv'
    BY <1>2, <1>5, <1>9, <2>1 DEF DataInv, NoSession
  <2>6. WriterInv'
    BY <1>2, <1>6, <1>9, QuietStep, SessionAssumption
       DEF SessionAssumption, NoSession
  <2>7. RecordInv'
    BY <2>1 DEF RecordInv
  <2> QED BY <2>7, <1>4, <1>7, <2>3, <2>4, <2>5, <2>6
<1>10. /\ out # "ok" => roots' \in SUBSET roots /\ mounts' \in SUBSET roots'
                        /\ exts' \in SUBSET exts
  BY <1>1 DEF TypeOK
<1> QED BY <1>1, <1>8, <1>9, <1>10

\* A restored session reopens the retained upper layer, or shows the patch, and
\* nobody may write to it.
LEMMA RestoreKeeps == ASSUME IInv, Restore PROVE IInv'
<1> USE DEF IInv, At
<1> DEFINE root == IF disk.dirty THEN disk.root ELSE next
           view == disk.view + 1
<1>1. /\ h.at \in {"lookup", "restore"} /\ ~mem.reg /\ disk.there /\ Restorable
      /\ next <= MaxViews /\ BuildView(root)
      /\ UNCHANGED <<up, closing, disk, procVars, written>>
      /\ mem' = [NoSession EXCEPT
                   !.reg = TRUE, !.root = root, !.ext = next,
                   !.dirty = disk.dirty, !.gen = disk.gen,
                   !.durable = disk.durable, !.view = view,
                   !.todo = CleanupSteps, !.sum = patch]
  BY DEF Restore
<1>2. view \in Nat
  BY DEF TypeOK, MetaType
<1>3. /\ root \in Views /\ next \in Views /\ next \notin roots
      /\ disk.dirty => root = disk.root /\ root \in roots
      /\ ~disk.dirty => root = next
  BY <1>1, SessionAssumption
     DEF SessionAssumption, Restorable, TypeOK, Views, DataInv
<1> HIDE DEF root, view
<1>4. /\ upper' \in [Views -> SUBSET Writes]
      /\ roots' \in SUBSET Views /\ mounts' \in SUBSET roots'
      /\ exts' \in SUBSET Views /\ next' \in 1 .. MaxViews + 1
      /\ patch' = patch /\ next' = next + 1
      /\ roots' = roots \cup {root}
      /\ \A r \in roots : upper'[r] = upper[r]
      /\ root \notin roots => upper'[root] = patch
  BY <1>1, <1>3, BuildViewSteps
<1>5. /\ h' \in HandlerType /\ h'.at = "writeRestored"
      /\ h'.op = h.op /\ h'.lease = h.lease
  BY GotoSteps DEF Restore, Stages
<1>6. mem' \in SessionType
  <2>1. /\ root \in 0 .. MaxViews /\ next \in 0 .. MaxViews
        /\ patch \in SUBSET Writes
    BY <1>3 DEF TypeOK, Views
  <2>2. disk.dirty \in BOOLEAN /\ disk.gen \in Nat /\ disk.durable \in Nat
    BY DEF TypeOK, MetaType
  <2> QED BY <1>1, <1>2, <2>1, <2>2, NoSessionType DEF SessionType
<1>7. /\ mem'.reg /\ mem'.root = root /\ ~mem'.busy /\ mem'.dirty = disk.dirty
      /\ ~mem'.closed /\ mem'.todo = CleanupSteps /\ mem'.gen = disk.gen
      /\ mem'.durable = disk.durable /\ mem'.owner = NoOwner
      /\ mem'.lease = NoLease /\ mem'.group = NoLease
  BY <1>1 DEF NoSession
<1>8. \A u \in Leases : ~Holds(u) /\ ~Runs(u)
  BY <1>1, SessionAssumption
     DEF SessionAssumption, Restorable, MutationOwnerAlive, GroupAlive, OwnerAlive,
         WriterInv, Holds, Runs
<1>9. TypeOK'
  BY <1>1, <1>4, <1>5, <1>6 DEF TypeOK, procVars
<1>10. NothingLost' /\ MetaInv'
  BY <1>1, <1>3, <1>4 DEF NothingLost, Retained, MetaInv
<1>11. HandlerInv'
  BY <1>1, <1>5, <1>7 DEF HandlerInv, Idle, EnsureOps, procVars
<1>12. StageInv'
  BY <1>5, <1>7 DEF StageInv
<1>13. SessionInv'
  BY <1>5, <1>7 DEF SessionInv, MetaInv, MetaValid, TypeOK, MetaType
<1>14. DataInv'
  <2>1. \A r \in roots' : r < next'
    BY <1>3, <1>4 DEF DataInv, TypeOK, Views
  <2>2. disk.dirty => written \cup patch \subseteq upper[disk.root]
    BY <1>1, <1>3 DEF DataInv
  <2>3. ~disk.dirty => written \subseteq patch
    BY DEF NothingLost, Retained
  <2>4. root \in roots' /\ written \cup patch' \subseteq upper'[root]
    BY <1>3, <1>4, <2>2, <2>3
  <2> QED BY <1>1, <1>3, <1>4, <1>5, <1>7, <2>1, <2>3, <2>4
          DEF DataInv, CleanupSteps
<1>15. WriterInv'
  BY <1>1, <1>4, <1>7, <1>8, QuietStep, SessionAssumption DEF SessionAssumption
<1>16. RecordInv'
  BY <1>5 DEF RecordInv
<1> QED BY <1>16, <1>9, <1>10, <1>11, <1>12, <1>13, <1>14, <1>15

\* The restored session is recorded, or stays registered as it is.
LEMMA WriteRestoredKeeps == ASSUME IInv, WriteRestored PROVE IInv'
<1> USE DEF IInv, vars, fileVars, procVars, WriteRestored, At, WriteMeta,
   Snapshot, Goto, Return, Idle
<1>1. TypeOK'
  <2>1. h' \in HandlerType
    BY DEF TypeOK, HandlerType, Stages, Ops, LookupOps, EnsureOps
  <2>2. disk' \in MetaType
    BY DEF TypeOK, SessionType, MetaType
  <2> QED BY <2>1, <2>2 DEF TypeOK
<1>2. NothingLost'
  BY DEF NothingLost, Retained, TypeOK, HandlerType, DataInv, HandlerInv, Inside
<1>3. HandlerInv'
  BY DEF HandlerInv, Inside, Stages, EnsureOps, TypeOK, HandlerType
<1>4. StageInv'
  BY DEF StageInv, TypeOK, HandlerType
<1>5. SessionInv'
  BY DEF SessionInv, TypeOK, HandlerType
<1>6. MetaInv'
  BY DEF MetaInv
<1>7. RecordInv'
  BY DEF RecordInv
<1>8. DataInv'
  BY DEF DataInv, HandlerInv, TypeOK, HandlerType, Inside
<1>9. WriterInv'
  BY DEF WriterInv, Holds, Runs, OwnerAlive, HandlerInv, SessionInv, DataInv,
     Inside, Stages
<1> QED BY <1>1, <1>2, <1>3, <1>4, <1>5, <1>6, <1>7, <1>8, <1>9

\* A refused restore changes nothing.
LEMMA RestoreRefusedKeeps == ASSUME IInv, RestoreRefused PROVE IInv'
<1> USE DEF IInv, vars, fileVars, procVars, RestoreRefused, At, Return, Idle
<1>1. TypeOK'
  <2>1. h' \in HandlerType
    BY DEF HandlerType, Stages, Ops, LookupOps, EnsureOps
  <2> QED BY <2>1 DEF TypeOK
<1>2. NothingLost'
  BY DEF NothingLost, Retained
<1>3. HandlerInv'
  BY DEF HandlerInv, Inside, Stages, NoSession
<1>4. StageInv'
  BY DEF StageInv
<1>5. SessionInv'
  BY DEF SessionInv
<1>6. MetaInv'
  BY DEF MetaInv
<1>7. RecordInv'
  BY DEF RecordInv
<1>8. DataInv'
  BY DEF DataInv
<1>9. WriterInv'
  BY DEF WriterInv, Holds, Runs, OwnerAlive
<1> QED BY <1>1, <1>2, <1>3, <1>4, <1>5, <1>6, <1>7, <1>8, <1>9

\* A failed restore may leave a mount on the retained root, and nothing else.
LEMMA CreateFailedKeeps == ASSUME IInv, CreateFailed PROVE IInv'
<1> USE DEF IInv, vars, fileVars, procVars, CreateFailed, At, Return, Idle,
   Restorable
<1>1. TypeOK'
  <2>1. h' \in HandlerType
    BY DEF HandlerType, Stages, Ops, LookupOps, EnsureOps
  <2>2. mounts' \in SUBSET roots'
    BY DEF TypeOK
  <2> QED BY <2>1, <2>2 DEF TypeOK
<1>2. NothingLost'
  BY DEF NothingLost, Retained
<1>3. HandlerInv'
  BY DEF HandlerInv, Inside, Stages, NoSession
<1>4. StageInv'
  BY DEF StageInv
<1>5. SessionInv'
  BY DEF SessionInv
<1>6. MetaInv'
  BY DEF MetaInv
<1>7. RecordInv'
  BY DEF RecordInv
<1>8. DataInv'
  BY DEF DataInv
<1>9. WriterInv'
  BY DEF WriterInv, Holds, Runs, OwnerAlive
<1> QED BY <1>1, <1>2, <1>3, <1>4, <1>5, <1>6, <1>7, <1>8, <1>9

\* ensure ends with the session as it is.
LEMMA EnsureDoneKeeps == ASSUME IInv, EnsureDone PROVE IInv'
<1> USE DEF IInv, vars, fileVars, procVars, EnsureDone, At, Return, Idle
<1>1. TypeOK'
  <2>1. h' \in HandlerType
    BY DEF HandlerType, Stages, Ops, LookupOps, EnsureOps
  <2> QED BY <2>1 DEF TypeOK
<1>2. NothingLost'
  BY DEF NothingLost, Retained
<1>3. HandlerInv'
  BY DEF HandlerInv, Inside, Stages, EnsureOps, NoSession
<1>4. StageInv'
  BY DEF StageInv
<1>5. SessionInv'
  BY DEF SessionInv
<1>6. MetaInv'
  BY DEF MetaInv
<1>7. RecordInv'
  BY DEF RecordInv
<1>8. DataInv'
  BY DEF DataInv
<1>9. WriterInv'
  BY DEF WriterInv, Holds, Runs, OwnerAlive
<1> QED BY <1>1, <1>2, <1>3, <1>4, <1>5, <1>6, <1>7, <1>8, <1>9

\* mark_dirty takes a new generation of a session that is neither busy nor closed.
LEMMA MarkDirtyKeeps == ASSUME IInv, MarkDirty PROVE IInv'
<1> USE DEF IInv, At
<1>1. /\ h.at = "have" /\ h.op = "mark" /\ mem.reg
      /\ UNCHANGED <<up, closing, disk, fileVars, procVars, written>>
  BY DEF MarkDirty, HandlerInv, Inside, Stages
<1>2. CASE Return /\ UNCHANGED mem
  <2>1. h' \in HandlerType /\ h' = Idle /\ h'.at = "idle" /\ h'.op = "none"
    BY <1>2, ReturnSteps
  <2>2. TypeOK'
    BY <1>1, <1>2, <2>1 DEF TypeOK, fileVars, procVars
  <2>3. NothingLost' /\ MetaInv'
    BY <1>1, <1>2 DEF NothingLost, Retained, MetaInv, fileVars
  <2>4. HandlerInv' /\ StageInv' /\ SessionInv'
    BY <1>1, <1>2, <2>1
       DEF HandlerInv, StageInv, SessionInv, Inside, EnsureOps, procVars
  <2>5. DataInv' /\ WriterInv'
    BY <1>1, <1>2, <2>1
       DEF DataInv, WriterInv, Holds, Runs, OwnerAlive, fileVars, procVars
  <2>6. RecordInv'
    BY <2>1 DEF RecordInv
  <2> QED BY <2>6, <2>2, <2>3, <2>4, <2>5
<1>3. CASE /\ ~mem.closed /\ ~mem.busy
           /\ mem' = [mem EXCEPT !.dirty = TRUE, !.gen = @ + 1]
           /\ Goto("writeMarked")
  <2> DEFINE g == mem.gen + 1
  <2>1. ~mem.closed /\ ~mem.busy /\ mem' = [mem EXCEPT !.dirty = TRUE, !.gen = g]
    BY <1>3
  <2>2. g \in Nat /\ mem.durable \in Nat /\ mem.durable < g
    BY DEF TypeOK, SessionType, SessionInv
  <2> HIDE DEF g
  <2>3. /\ h' \in HandlerType /\ h'.at = "writeMarked"
        /\ h'.op = "mark" /\ h'.lease = h.lease
    BY <1>1, <1>3, GotoSteps DEF Stages
  <2>4. mem' \in SessionType
    BY <2>1, <2>2 DEF TypeOK, SessionType
  <2>5. /\ mem'.reg /\ mem'.root = mem.root /\ mem'.gen = g
        /\ mem'.view = mem.view /\ ~mem'.closed /\ mem'.todo = mem.todo
        /\ ~mem'.busy /\ mem'.dirty /\ mem'.durable = mem.durable
        /\ mem'.owner = mem.owner /\ mem'.lease = mem.lease
        /\ mem'.group = mem.group
    BY <1>1, <2>1 DEF TypeOK, SessionType
  <2>6. TypeOK'
    BY <1>1, <2>3, <2>4 DEF TypeOK, fileVars, procVars
  <2>7. NothingLost' /\ MetaInv'
    BY <1>1 DEF NothingLost, Retained, MetaInv, fileVars
  <2>8. HandlerInv'
    BY <1>1, <2>3, <2>5 DEF HandlerInv, Idle, EnsureOps, procVars
  <2>9. StageInv'
    BY <2>3, <2>5 DEF StageInv
  <2>10. SessionInv'
    BY <1>1, <2>1, <2>2, <2>3, <2>5 DEF SessionInv
  <2>11. DataInv'
    BY <1>1, <2>1, <2>3, <2>5, LiveView DEF DataInv, CleanupSteps, fileVars
  <2>12. WriterInv'
    <3>1. \A u \in Leases : ~Holds(u) /\ ~Runs(u)
      BY <1>1, <2>1, FreeIsQuiet
    <3>2. \A u \in Leases : client[u] = "saved" => mem.lease # u
      BY DEF WriterInv
    <3> QED BY <1>1, <2>5, <3>1, <3>2, QuietStep DEF fileVars
  <2>13. RecordInv'
    BY <2>3 DEF RecordInv
  <2> QED BY <2>13, <2>6, <2>7, <2>8, <2>9, <2>10, <2>11, <2>12
<1> QED BY <1>2, <1>3 DEF MarkDirty

\* An acknowledged mark_dirty names the upper layer that holds the change.
LEMMA WriteMarkedKeeps == ASSUME IInv, WriteMarked PROVE IInv'
<1> USE DEF IInv, vars, fileVars, procVars, WriteMarked, At, WriteMeta,
   Snapshot, Return, Idle
<1>1. TypeOK'
  <2>1. h' \in HandlerType
    BY DEF HandlerType, Stages, Ops, LookupOps, EnsureOps
  <2>2. disk' \in MetaType
    BY DEF TypeOK, SessionType, MetaType
  <2>3. written' \in SUBSET Writes
    BY DEF TypeOK, Views, Writes
  <2> QED BY <2>1, <2>2, <2>3 DEF TypeOK
<1>2. NothingLost'
  BY DEF NothingLost, Retained, TypeOK, HandlerType, DataInv, StageInv,
     HandlerInv, Inside
<1>3. HandlerInv'
  BY DEF HandlerInv, Inside, Stages, EnsureOps, NoSession
<1>4. StageInv'
  BY DEF StageInv
<1>5. SessionInv'
  BY DEF SessionInv
<1>6. MetaInv'
  BY DEF MetaInv
<1>7. RecordInv'
  BY DEF RecordInv
<1>8. DataInv'
  BY DEF DataInv, HandlerInv, StageInv, NoSession
<1>9. WriterInv'
  BY SessionAssumption
     DEF WriterInv, Holds, Runs, OwnerAlive, HandlerInv, StageInv, NoSession
<1> QED BY <1>1, <1>2, <1>3, <1>4, <1>5, <1>6, <1>7, <1>8, <1>9

\* A lease is taken back only when neither its owner nor its group lives.
LEMMA RecoverBusyKeeps == ASSUME IInv, RecoverBusy PROVE IInv'
<1> USE DEF IInv, vars, fileVars, procVars, RecoverBusy, At, Goto, Return,
   Idle
<1>1. TypeOK'
  <2>1. h' \in HandlerType
    BY DEF TypeOK, HandlerType, Stages, Ops, LookupOps, EnsureOps
  <2> QED BY <2>1 DEF TypeOK
<1>2. NothingLost'
  BY DEF NothingLost, Retained
<1>3. HandlerInv'
  BY DEF HandlerInv, Inside, EnsureOps, WorkOps, FlushOps, TypeOK, HandlerType
<1>4. StageInv'
  <2>1. /\ (h'.op = h.op /\ h'.lease = h.lease) \/ h' = Idle
        /\ h'.at \in {"idle", "cleanup", "finish", "ready"}
        /\ h'.at = "cleanup" => mem.closed
        /\ h'.at = "finish" => mem.busy /\ ~MutationOwnerAlive(mem.owner, mem.group)
    BY DEF TypeOK, HandlerType
  <2>2. mem.closed => ~mem.busy /\ ~mem.dirty
    BY DEF SessionInv
  <2> QED BY <2>1, <2>2
          DEF StageInv, MutationOwnerAlive, OwnerAlive, GroupAlive
<1>5. SessionInv'
  BY DEF SessionInv, TypeOK, HandlerType
<1>6. MetaInv'
  BY DEF MetaInv
<1>7. RecordInv'
  BY DEF RecordInv, Snapshot, TypeOK, HandlerType
<1>8. DataInv'
  BY DEF DataInv, TypeOK, HandlerType
<1>9. WriterInv'
  BY DEF WriterInv, Holds, Runs, OwnerAlive
<1> QED BY <1>1, <1>2, <1>3, <1>4, <1>5, <1>6, <1>7, <1>8, <1>9

\* Export and unmasking give up the lease of a holder that can write no more.
LEMMA FinishKeeps == ASSUME IInv, Finish PROVE IInv'
<1> USE DEF IInv, At
<1>1. PICK exported \in BOOLEAN, unmasked \in BOOLEAN :
        /\ patch' \in {patch, upper[mem.root]}
        /\ exported => patch' = upper[mem.root]
        /\ mem' = Finished(exported, unmasked)
        /\ Goto(FinishStage(exported, unmasked))
  <2>1. PICK out \in PatchResults, unmasked \in BOOLEAN :
          /\ WritePatch(out)
          /\ mem' = Finished(out = "ok", unmasked)
          /\ Goto(FinishStage(out = "ok", unmasked))
    BY DEF Finish, Works
  <2>2. /\ patch' \in {patch, upper[mem.root]}
        /\ out = "ok" => patch' = upper[mem.root]
    BY <2>1, WritePatchSteps
  <2> DEFINE exported == out = "ok"
  <2>3. exported \in BOOLEAN
    OBVIOUS
  <2> HIDE DEF exported
  <2>4. /\ patch' \in {patch, upper[mem.root]}
        /\ exported => patch' = upper[mem.root]
        /\ mem' = Finished(exported, unmasked)
        /\ Goto(FinishStage(exported, unmasked))
    BY <2>1, <2>2 DEF exported
  <2> QED BY <2>3, <2>4
<1>2. /\ h.at = "finish"
      /\ UNCHANGED <<up, closing, disk, upper, roots, mounts, exts, next,
                     procVars, written>>
  BY DEF Finish
<1>3. /\ h' \in HandlerType /\ h'.op = h.op /\ h'.lease = h.lease
      /\ h'.at = IF exported /\ unmasked THEN "writeFinished" ELSE "writeUnsaved"
  BY <1>1, GotoSteps DEF FinishStage, Stages
<1>4. mem.reg /\ mem.busy /\ mem.dirty /\ ~mem.closed
  BY <1>2 DEF HandlerInv, StageInv, SessionInv, Inside, Stages
<1>5. mem.root \in roots /\ written \cup patch \subseteq upper[mem.root]
  BY <1>2, <1>4, LiveView
<1>q. \A u \in Leases : ~Holds(u) /\ ~Runs(u)
  BY <1>2, FinishIsQuiet
<1>6. mem' \in SessionType
  <2>1. upper[mem.root] \in SUBSET Writes /\ mem \in SessionType
    BY <1>5 DEF TypeOK
  <2> DEFINE s == IF exported THEN upper[mem.root] ELSE mem.sum
             o == IF unmasked THEN NoOwner ELSE mem.owner
             l == IF unmasked THEN NoLease ELSE mem.lease
             g == IF unmasked THEN NoLease ELSE mem.group
             k == IF exported /\ unmasked THEN mem.gen ELSE mem.durable
  <2>2. /\ s \in SUBSET Writes /\ o \in Owners \cup {NoOwner}
        /\ l \in Leases \cup {NoLease} /\ g \in Leases \cup {NoLease} /\ k \in Nat
    BY <2>1 DEF SessionType
  <2>3. mem' = [mem EXCEPT !.sum = s, !.busy = ~unmasked, !.owner = o, !.lease = l,
                           !.group = g, !.dirty = ~(exported /\ unmasked), !.durable = k]
    BY <1>1 DEF Finished
  <2> HIDE DEF s, o, l, g, k, IInv
  <2>4. (~unmasked) \in BOOLEAN /\ (~(exported /\ unmasked)) \in BOOLEAN
    OBVIOUS
  <2>5. ASSUME NEW b \in BOOLEAN, NEW d \in BOOLEAN
        PROVE  [mem EXCEPT !.sum = s, !.busy = b, !.owner = o, !.lease = l,
                           !.group = g, !.dirty = d, !.durable = k] \in SessionType
    BY <2>1, <2>2, <2>5 DEF SessionType
  <2> QED BY <2>3, <2>4, <2>5
<1>7. /\ mem'.reg /\ mem'.root = mem.root /\ mem'.gen = mem.gen
      /\ mem'.view = mem.view /\ ~mem'.closed /\ mem'.todo = mem.todo
      /\ mem'.busy = ~unmasked /\ mem'.dirty = ~(exported /\ unmasked)
      /\ mem'.durable = IF exported /\ unmasked THEN mem.gen ELSE mem.durable
      /\ mem'.owner = IF unmasked THEN NoOwner ELSE mem.owner
      /\ mem'.lease = IF unmasked THEN NoLease ELSE mem.lease
      /\ mem'.group = IF unmasked THEN NoLease ELSE mem.group
  <2>1. mem \in SessionType /\ mem' = Finished(exported, unmasked)
    BY <1>1 DEF TypeOK
  <2>2. /\ mem'.reg = mem.reg /\ mem'.root = mem.root /\ mem'.gen = mem.gen
        /\ mem'.view = mem.view /\ mem'.closed = mem.closed /\ mem'.todo = mem.todo
    BY <2>1 DEF SessionType, Finished
  <2>3. /\ mem'.busy = ~unmasked /\ mem'.dirty = ~(exported /\ unmasked)
        /\ mem'.durable = IF exported /\ unmasked THEN mem.gen ELSE mem.durable
    BY <2>1 DEF SessionType, Finished
  <2>4. /\ mem'.owner = IF unmasked THEN NoOwner ELSE mem.owner
        /\ mem'.lease = IF unmasked THEN NoLease ELSE mem.lease
        /\ mem'.group = IF unmasked THEN NoLease ELSE mem.group
    BY <2>1 DEF SessionType, Finished
  <2> QED BY <1>4, <2>2, <2>3, <2>4
<1>8. patch' \in SUBSET Writes /\ patch \subseteq patch' /\ patch' \subseteq upper[mem.root]
  BY <1>1, <1>5 DEF TypeOK
<1>9. exported => written \subseteq patch'
  BY <1>1, <1>5
<1>10. TypeOK'
  BY <1>2, <1>3, <1>6, <1>8 DEF TypeOK, procVars
<1>11. NothingLost'
  BY <1>2, <1>8 DEF NothingLost, Retained
<1>12. HandlerInv'
  BY <1>2, <1>3, <1>4, <1>7 DEF HandlerInv, Idle, procVars
<1>13. StageInv'
  BY <1>3, <1>7 DEF StageInv
<1>14. SessionInv'
  BY <1>2, <1>3, <1>4, <1>7 DEF SessionInv, TypeOK, SessionType
<1>15. MetaInv'
  BY <1>2 DEF MetaInv
<1>16. DataInv'
  BY <1>2, <1>3, <1>4, <1>5, <1>7, <1>8, <1>9, LiveView
     DEF DataInv, CleanupSteps
<1>17. WriterInv'
  <2>1. \A u \in Leases : ~Holds(u)' /\ ~Runs(u)'
    BY <1>q, <1>2 DEF Holds, Runs, OwnerAlive, procVars
  <2>2. \A u \in Leases : mem'.busy /\ mem'.lease = u =>
          mem.busy /\ mem.lease = u /\ ViewOf(mem') = ViewOf(mem)
    BY <1>4, <1>7, SessionAssumption DEF SessionAssumption, ViewOf
  <2>3. \A u \in Leases : mem.lease # u => mem'.lease # u
    BY <1>7, SessionAssumption DEF SessionAssumption
  <2> QED BY <2>1, <2>2, <2>3, <1>2, <1>4, <1>8
          DEF WriterInv, Runs, OwnerAlive, procVars
<1>18. RecordInv'
  BY <1>3 DEF RecordInv
<1> QED BY <1>18, <1>10, <1>11, <1>12, <1>13, <1>14, <1>15, <1>16, <1>17

\* A release is answered only once the saved state is recorded.
LEMMA WriteFinishedKeeps == ASSUME IInv, WriteFinished PROVE IInv'
<1> USE DEF IInv, At
<1>1. PICK out \in MetaResults, delivered \in BOOLEAN :
        /\ WriteMeta(out)
        /\ mem' = [mem EXCEPT !.dirty = (out # "ok")]
        /\ client' = IF out = "ok" /\ h.op = "release" /\ delivered
                     THEN [client EXCEPT ![h.lease] = "saved"] ELSE client
        /\ AfterFinish(out)
  BY DEF WriteFinished
<1>2. /\ h.at = "writeFinished"
      /\ UNCHANGED <<up, closing, fileVars, alive, token, group, written>>
  BY DEF WriteFinished
<1>3. /\ mem.reg /\ ~mem.busy /\ ~mem.dirty /\ ~mem.closed
      /\ mem.lease = NoLease /\ written \subseteq patch
      /\ h.op \in WorkOps \cup {"release"}
      /\ h.op = "release" => h.lease \in Leases /\ client[h.lease] = "releasing"
  BY <1>2 DEF HandlerInv, StageInv, SessionInv, DataInv, Inside, Stages
<1>4. /\ h' \in HandlerType
      /\ \/ h' = Idle /\ h'.at = "idle" /\ h'.op = "none"
         \/ /\ h'.at \in {"cleanup", "ready", "writePreserved"}
            /\ h'.op = h.op /\ h'.lease = h.lease /\ h.op # "release"
            /\ h'.at = "cleanup" => h.op = "close" /\ out = "ok"
            /\ h'.at = "writePreserved" => h.op = "close"
  BY <1>1, <1>2, ReturnSteps, GotoSteps DEF AfterFinish, Fail, Stages
<1>5. /\ disk' \in MetaType /\ MetaInv'
      /\ disk' = disk \/ disk' = Snapshot(mem)
  BY <1>1, WriteMetaSteps
<1>6. /\ mem' \in SessionType
      /\ mem'.reg /\ mem'.root = mem.root /\ mem'.gen = mem.gen
      /\ mem'.view = mem.view /\ ~mem'.closed /\ mem'.todo = mem.todo
      /\ ~mem'.busy /\ mem'.dirty = (out # "ok") /\ mem'.durable = mem.durable
      /\ mem'.owner = mem.owner /\ mem'.lease = mem.lease
      /\ mem'.group = mem.group
  BY <1>1, <1>3 DEF TypeOK, SessionType
<1>7. TypeOK'
  BY <1>1, <1>2, <1>3, <1>4, <1>5, <1>6 DEF TypeOK, fileVars
<1>8. NothingLost'
  BY <1>2, <1>3 DEF NothingLost, fileVars
<1>9. HandlerInv'
  <2>1. h.op # "release" => client' = client
    BY <1>1
  <2> QED BY <1>2, <1>3, <1>4, <1>6, <2>1
          DEF HandlerInv, Idle, Inside, EnsureOps, WorkOps, FlushOps
<1>10. StageInv'
  BY <1>3, <1>4, <1>6 DEF StageInv
<1>11. SessionInv'
  BY <1>2, <1>3, <1>4, <1>6 DEF SessionInv
<1>12. DataInv'
  <2>1. disk'.there /\ disk'.dirty => disk' = disk
    BY <1>3, <1>5 DEF Snapshot
  <2>2. /\ mem.root \in roots /\ written \cup patch \subseteq upper[mem.root]
        /\ mem.todo = CleanupSteps
    BY <1>2, <1>3, LiveView
  <2> QED BY <1>2, <1>3, <1>4, <1>6, <2>1, <2>2
             DEF DataInv, CleanupSteps, fileVars
<1>13. WriterInv'
  <2>1. \A u \in Leases : ~Holds(u) /\ ~Runs(u)
    BY <1>3, FreeIsQuiet
  <2>2. \A u \in Leases : \/ client'[u] = client[u]
                          \/ client'[u] = "saved" /\ client[u] = "releasing"
    <3>1. CASE client' = client
      BY <3>1
    <3>2. CASE /\ h.op = "release"
               /\ client' = [client EXCEPT ![h.lease] = "saved"]
      BY <1>3, <3>2 DEF TypeOK
    <3> QED BY <1>1, <3>1, <3>2
  <2>3. \A u \in Leases : ~Holds(u)' /\ ~Runs(u)'
    BY <1>2, <2>1, <2>2 DEF Holds, Runs, OwnerAlive
  <2>4. \A u \in Leases : mem'.lease # u
    BY <1>3, <1>6, SessionAssumption DEF SessionAssumption
  <2> QED BY <1>2, <1>3, <1>6, <2>2, <2>3, <2>4 DEF WriterInv, fileVars
<1>14. RecordInv'
  <2>1. h'.at = "ready" => out = "ok"
    BY <1>1, <1>2, ReturnSteps, GotoSteps DEF AfterFinish, Fail, Stages
  <2>2. out = "ok" => disk' = Snapshot(mem) /\ mem' = mem
    BY <1>1, <1>3, WriteMetaSteps DEF TypeOK, SessionType
  <2> QED BY <1>4, <2>1, <2>2 DEF RecordInv, Snapshot
<1> QED BY <1>14, <1>5, <1>7, <1>8, <1>9, <1>10, <1>11, <1>12, <1>13

\* Recording an unsaved session keeps its upper layer named.
LEMMA WriteUnsavedKeeps == ASSUME IInv, WriteUnsaved PROVE IInv'
<1> USE DEF IInv, vars, fileVars, procVars, WriteUnsaved, At, WriteMeta,
   Snapshot, Fail, Goto, Return, Idle
<1>1. TypeOK'
  <2>1. h' \in HandlerType
    BY DEF TypeOK, HandlerType, Stages, Ops, LookupOps, EnsureOps
  <2>2. disk' \in MetaType
    BY DEF TypeOK, SessionType, MetaType
  <2> QED BY <2>1, <2>2 DEF TypeOK
<1>2. NothingLost'
  BY DEF NothingLost, Retained, TypeOK, HandlerType, DataInv, HandlerInv, Inside
<1>3. HandlerInv'
  BY DEF HandlerInv, Inside, Stages, EnsureOps, TypeOK, HandlerType
<1>4. StageInv'
  BY DEF StageInv, TypeOK, HandlerType
<1>5. SessionInv'
  BY DEF SessionInv, TypeOK, HandlerType
<1>6. MetaInv'
  BY DEF MetaInv
<1>7. RecordInv'
  BY DEF RecordInv, Snapshot, TypeOK, HandlerType
<1>8. DataInv'
  BY DEF DataInv, HandlerInv, TypeOK, HandlerType, Inside
<1>9. WriterInv'
  BY DEF WriterInv, Holds, Runs, OwnerAlive, HandlerInv, SessionInv, DataInv,
     Inside, Stages
<1> QED BY <1>1, <1>2, <1>3, <1>4, <1>5, <1>6, <1>7, <1>8, <1>9

\* A repeated acquire is answered with the lease it already has.
LEMMA AcquireBusyKeeps == ASSUME IInv, AcquireBusy PROVE IInv'
<1> USE DEF IInv, vars, fileVars, procVars, AcquireBusy, At, Answer,
   SameHolder, Return, Idle
<1>1. TypeOK'
  <2>1. h' \in HandlerType
    BY DEF HandlerType, Stages, Ops, LookupOps, EnsureOps
  <2>2. client' \in [Leases -> {"idle", "held", "releasing", "saved"}]
    BY DEF TypeOK
  <2>3. token' \in [Leases -> TokenType]
    BY DEF TypeOK, TokenType, SessionType
  <2> QED BY <2>1, <2>2, <2>3 DEF TypeOK
<1>2. NothingLost'
  BY DEF NothingLost, Retained
<1>3. HandlerInv'
  BY DEF HandlerInv, Inside, Stages
<1>4. StageInv'
  BY DEF StageInv
<1>5. SessionInv'
  BY DEF SessionInv
<1>6. MetaInv'
  BY DEF MetaInv
<1>7. RecordInv'
  BY DEF RecordInv
<1>8. DataInv'
  BY DEF DataInv
<1>9. WriterInv'
  <2>1. CASE UNCHANGED <<client, token>>
    BY <2>1 DEF WriterInv, Holds, Runs, OwnerAlive
  <2>2. CASE /\ mem.lease = h.lease /\ mem.owner = OwnerOf[h.lease]
             /\ client' = [client EXCEPT ![h.lease] = "held"]
             /\ token' = [token EXCEPT ![h.lease] = ViewOf(mem)]
    <3>1. /\ h.lease \in Leases /\ mem.reg /\ mem.dirty /\ mem.root \in roots
          /\ disk = Snapshot(mem)
      BY LiveView
         DEF HandlerInv, SessionInv, RecordInv, Inside, Stages, EnsureOps
    <3>2. /\ disk.there /\ disk.dirty /\ disk.root = mem.root
          /\ disk.owner = mem.owner
      BY <3>1 DEF Snapshot
    <3>3. /\ client'[h.lease] = "held" /\ token'[h.lease] = ViewOf(mem)
          /\ \A u \in Leases \ {h.lease} : client'[u] = client[u] /\ token'[u] = token[u]
      BY <2>2, <3>1 DEF TypeOK
    <3>4. \A u \in Leases \ {h.lease} : ~Holds(u) /\ ~Runs(u)
      BY <2>2, <3>1 DEF WriterInv
    <3>5. client[h.lease] # "saved"
      BY DEF HandlerInv
    <3> QED BY <2>2, <3>1, <3>2, <3>3, <3>4, <3>5
            DEF WriterInv, Holds, Runs, OwnerAlive, ViewOf
  <2> QED BY <2>1, <2>2 DEF ViewOf
<1> QED BY <1>1, <1>2, <1>3, <1>4, <1>5, <1>6, <1>7, <1>8, <1>9

\* An aborted acquire leaves the session free, or busy with no owner.
LEMMA AcquireAbortedKeeps == ASSUME IInv, AcquireAborted PROVE IInv'
<1> USE DEF IInv, At
<1>1. /\ h.at = "ready" /\ h.op = "acquire" /\ mem.reg /\ ~mem.busy /\ ~mem.closed
      /\ UNCHANGED <<up, closing, disk, fileVars, procVars, written>>
  BY DEF AcquireAborted, HandlerInv, Inside, Stages, EnsureOps
<1>2. CASE Return /\ UNCHANGED mem
  <2>1. h' \in HandlerType /\ h' = Idle /\ h'.at = "idle" /\ h'.op = "none"
    BY <1>2, ReturnSteps
  <2>2. TypeOK'
    BY <1>1, <1>2, <2>1 DEF TypeOK, fileVars, procVars
  <2>3. NothingLost' /\ MetaInv'
    BY <1>1, <1>2 DEF NothingLost, Retained, MetaInv, fileVars
  <2>4. HandlerInv' /\ StageInv' /\ SessionInv'
    BY <1>1, <1>2, <2>1
       DEF HandlerInv, StageInv, SessionInv, Inside, EnsureOps, procVars
  <2>5. DataInv' /\ WriterInv'
    BY <1>1, <1>2, <2>1
       DEF DataInv, WriterInv, Holds, Runs, OwnerAlive, fileVars, procVars
  <2>6. RecordInv'
    BY <2>1 DEF RecordInv
  <2> QED BY <2>6, <2>2, <2>3, <2>4, <2>5
<1>3. CASE /\ mem' = [mem EXCEPT !.busy = TRUE, !.owner = NoOwner, !.dirty = TRUE]
           /\ Goto("writeUnsaved")
  <2>1. /\ h' \in HandlerType /\ h'.at = "writeUnsaved"
        /\ h'.op = "acquire" /\ h'.lease = h.lease
    BY <1>1, <1>3, GotoSteps DEF Stages
  <2>2. mem' \in SessionType
    BY <1>3 DEF TypeOK, SessionType
  <2>3. /\ mem'.reg /\ mem'.root = mem.root /\ mem'.gen = mem.gen
        /\ mem'.view = mem.view /\ ~mem'.closed /\ mem'.todo = mem.todo
        /\ mem'.busy /\ mem'.dirty /\ mem'.durable = mem.durable
        /\ mem'.owner = NoOwner /\ mem'.lease = mem.lease
        /\ mem'.group = mem.group
    BY <1>1, <1>3 DEF TypeOK, SessionType
  <2>4. mem.lease = NoLease
    BY <1>1 DEF SessionInv
  <2>5. TypeOK'
    BY <1>1, <2>1, <2>2 DEF TypeOK, fileVars, procVars
  <2>6. NothingLost' /\ MetaInv'
    BY <1>1 DEF NothingLost, Retained, MetaInv, fileVars
  <2>7. HandlerInv'
    BY <1>1, <2>1, <2>3 DEF HandlerInv, Idle, EnsureOps, procVars
  <2>8. StageInv'
    BY <2>1, <2>3 DEF StageInv
  <2>9. SessionInv'
    BY <1>1, <2>1, <2>3 DEF SessionInv, TypeOK, SessionType
  <2>10. DataInv'
    BY <1>1, <2>1, <2>3, LiveView DEF DataInv, CleanupSteps, fileVars
  <2>11. WriterInv'
    <3>1. \A u \in Leases : ~Holds(u) /\ ~Runs(u)
      BY <1>1, FreeIsQuiet
    <3>2. \A u \in Leases : mem'.lease # u
      BY <2>3, <2>4, SessionAssumption DEF SessionAssumption
    <3> QED BY <1>1, <3>1, <3>2, QuietStep DEF fileVars
  <2>12. RecordInv'
    BY <2>1 DEF RecordInv
  <2> QED BY <2>12, <2>5, <2>6, <2>7, <2>8, <2>9, <2>10, <2>11
<1> QED BY <1>2, <1>3 DEF AcquireAborted

\* A lease is granted, in memory, only on a session that is not busy.
LEMMA GrantKeeps == ASSUME IInv, Grant PROVE IInv'
<1> USE DEF IInv, At
<1> DEFINE g == mem.gen + 1
<1>1. /\ mem' = [mem EXCEPT !.busy = TRUE, !.owner = OwnerOf[h.lease],
                            !.lease = h.lease, !.gen = g,
                            !.was = mem.dirty, !.dirty = TRUE]
      /\ h.at = "ready" /\ h.op = "acquire" /\ ~mem.busy
      /\ UNCHANGED <<up, closing, disk, fileVars, procVars, written>>
  BY DEF Grant
<1>2. /\ g \in Nat /\ mem.durable \in Nat /\ mem.durable < g
      /\ ~mem.dirty => g = mem.durable + 1
  BY DEF TypeOK, SessionType, SessionInv
<1> HIDE DEF g
<1>3. /\ h' \in HandlerType /\ h'.at = "writeAcquired"
      /\ h'.op = "acquire" /\ h'.lease = h.lease
  BY <1>1, GotoSteps DEF Grant, Stages
<1>4. /\ h.lease \in Leases /\ OwnerOf[h.lease] \in Owners
      /\ mem.reg /\ ~mem.closed /\ mem.group = NoLease
  BY <1>1, SessionAssumption
     DEF SessionAssumption, HandlerInv, SessionInv, Inside, Stages, EnsureOps
<1>5. \A u \in Leases : ~Holds(u) /\ ~Runs(u)
  BY <1>1, <1>4 DEF WriterInv
<1>6. mem' \in SessionType
  BY <1>1, <1>2, <1>4 DEF TypeOK, SessionType
<1>14. /\ mem'.reg /\ mem'.root = mem.root /\ mem'.busy /\ mem'.dirty
      /\ mem'.owner = OwnerOf[h.lease] /\ mem'.lease = h.lease
      /\ mem'.group = NoLease /\ mem'.gen = g /\ mem'.durable = mem.durable
      /\ mem'.view = mem.view /\ ~mem'.closed /\ mem'.todo = mem.todo
      /\ mem'.was = mem.dirty
  BY <1>1, <1>4 DEF TypeOK, SessionType
<1>7. TypeOK'
  BY <1>1, <1>3, <1>6 DEF TypeOK, fileVars, procVars
<1>8. NothingLost' /\ MetaInv'
  BY <1>1 DEF NothingLost, Retained, MetaInv, fileVars
<1>9. HandlerInv'
  BY <1>1, <1>3, <1>4, <1>14 DEF HandlerInv, EnsureOps, Idle, procVars
<1>10. StageInv'
  BY <1>1, <1>2, <1>3, <1>4, <1>5, <1>14
     DEF StageInv, DataInv, Holds, Runs, OwnerAlive, fileVars, procVars
<1>11. SessionInv'
  BY <1>1, <1>2, <1>3, <1>4, <1>14 DEF SessionInv
<1>12. DataInv'
  BY <1>1, <1>3, <1>4, <1>14 DEF DataInv, SessionInv, CleanupSteps, fileVars
<1>13. WriterInv'
  <2>1. client[h.lease] # "saved"
    BY <1>1 DEF HandlerInv
  <2>2. token[h.lease].view = 0 \/ ~OwnerAlive(OwnerOf[h.lease])
    BY <1>1, <1>4, <1>5 DEF HandlerInv, WriterInv, Holds
  <2>3. \A u \in Leases : mem'.lease = u => u = h.lease
    BY <1>14
  <2> QED BY <1>1, <1>5, <2>1, <2>2, <2>3, QuietStep DEF fileVars
<1>15. RecordInv'
  BY <1>3 DEF RecordInv
<1> QED BY <1>15, <1>7, <1>8, <1>9, <1>10, <1>11, <1>12, <1>13

\* A lease is handed out only once it is recorded; else the grant is rolled
\* back, or the session stays busy because its masks could not be removed.
LEMMA WriteAcquiredKeeps == ASSUME IInv, WriteAcquired PROVE IInv'
<1> USE DEF IInv, At
<1>1. PICK out \in MetaResults, unmasked \in BOOLEAN :
        /\ WriteMeta(out)
        /\ mem' = IF out = "ok" \/ ~unmasked THEN [mem EXCEPT !.was = FALSE]
                  ELSE RolledBack
        /\ IF out = "ok" THEN Answer(h.lease) ELSE UNCHANGED <<client, token>>
  BY DEF WriteAcquired, Works
<1>2. /\ h.at = "writeAcquired"
      /\ UNCHANGED <<up, closing, fileVars, alive, group, written>>
  BY DEF WriteAcquired
<1>3. /\ mem.reg /\ ~mem.closed /\ mem.busy /\ mem.dirty /\ mem.group = NoLease
      /\ mem.lease = h.lease /\ mem.owner = OwnerOf[h.lease]
      /\ ~mem.was => mem.gen = mem.durable + 1 /\ written \subseteq patch
      /\ \A u \in Leases : ~Holds(u) /\ ~Runs(u)
  BY <1>2 DEF HandlerInv, StageInv, SessionInv, Inside, Stages, EnsureOps
<1>4. h.lease \in Leases /\ client[h.lease] \in {"idle", "held"}
  BY <1>2 DEF HandlerInv, StageInv
<1>5. /\ mem.root \in roots /\ written \cup patch \subseteq upper[mem.root]
      /\ mem.todo = CleanupSteps
  BY <1>2, <1>3, LiveView
<1>6. /\ disk' \in MetaType /\ MetaInv'
      /\ disk' = disk \/ disk' = Snapshot(mem)
      /\ out = "ok" => disk' = Snapshot(mem)
  BY <1>1, WriteMetaSteps
<1>7. /\ Snapshot(mem).there /\ Snapshot(mem).dirty
      /\ Snapshot(mem).root = mem.root /\ Snapshot(mem).owner = mem.owner
  BY <1>3 DEF Snapshot
<1>8. h' \in HandlerType /\ h' = Idle /\ h'.at = "idle" /\ h'.op = "none"
  BY ReturnSteps DEF WriteAcquired
<1> DEFINE g == mem.gen - 1
<1>9. g \in Nat /\ mem.durable <= g /\ (~mem.was => g = mem.durable)
  BY <1>2, <1>3 DEF TypeOK, SessionType, StageInv
<1>10. \/ mem' = [mem EXCEPT !.was = FALSE]
       \/ /\ out # "ok"
          /\ mem' = [mem EXCEPT !.busy = FALSE, !.owner = NoOwner,
                                !.lease = NoLease, !.gen = g,
                                !.dirty = mem.was, !.was = FALSE]
  BY <1>1 DEF RolledBack
<1> HIDE DEF g
<1>11. mem' \in SessionType
  <2>1. mem \in SessionType
    BY DEF TypeOK
  <2>2. CASE mem' = [mem EXCEPT !.was = FALSE]
    BY <2>1, <2>2 DEF SessionType
  <2>3. CASE mem' = [mem EXCEPT !.busy = FALSE, !.owner = NoOwner,
                                !.lease = NoLease, !.gen = g,
                                !.dirty = mem.was, !.was = FALSE]
    BY <1>9, <2>1, <2>3 DEF SessionType
  <2> QED BY <1>10, <2>2, <2>3
<1>12. /\ mem'.reg /\ mem'.root = mem.root /\ mem'.view = mem.view
       /\ ~mem'.closed /\ mem'.todo = mem.todo /\ mem'.durable = mem.durable
       /\ mem'.group = NoLease
       /\ \/ /\ mem'.busy /\ mem'.dirty /\ mem'.gen = mem.gen
             /\ mem'.lease = mem.lease /\ mem'.owner = mem.owner
          \/ /\ ~mem'.busy /\ mem'.dirty = mem.was /\ mem'.gen = g
             /\ mem'.lease = NoLease /\ mem'.owner = NoOwner /\ out # "ok"
  <2>1. mem \in SessionType
    BY DEF TypeOK
  <2>2. CASE mem' = [mem EXCEPT !.was = FALSE]
    <3>1. /\ mem'.reg = mem.reg /\ mem'.root = mem.root /\ mem'.view = mem.view
          /\ mem'.closed = mem.closed /\ mem'.todo = mem.todo
          /\ mem'.durable = mem.durable /\ mem'.group = mem.group
          /\ mem'.busy = mem.busy /\ mem'.dirty = mem.dirty /\ mem'.gen = mem.gen
          /\ mem'.lease = mem.lease /\ mem'.owner = mem.owner
      BY <2>1, <2>2 DEF SessionType
    <3> QED BY <1>3, <3>1
  <2>3. CASE /\ out # "ok"
             /\ mem' = [mem EXCEPT !.busy = FALSE, !.owner = NoOwner,
                                   !.lease = NoLease, !.gen = g,
                                   !.dirty = mem.was, !.was = FALSE]
    <3>1. /\ mem'.reg = mem.reg /\ mem'.root = mem.root /\ mem'.view = mem.view
          /\ mem'.closed = mem.closed /\ mem'.todo = mem.todo
          /\ mem'.durable = mem.durable /\ mem'.group = mem.group
          /\ ~mem'.busy /\ mem'.dirty = mem.was /\ mem'.gen = g
          /\ mem'.lease = NoLease /\ mem'.owner = NoOwner
      BY <2>1, <2>3 DEF SessionType
    <3> QED BY <1>3, <2>3, <3>1
  <2> QED BY <1>10, <2>2, <2>3
<1>13. \/ UNCHANGED <<client, token>>
       \/ /\ out = "ok" /\ OwnerAlive(OwnerOf[h.lease])
          /\ client' = [client EXCEPT ![h.lease] = "held"]
          /\ token' = [token EXCEPT ![h.lease] = ViewOf(mem)]
  BY <1>1 DEF Answer, ViewOf
<1>14. TypeOK'
  <2>1. ViewOf(mem) \in TokenType
    BY DEF TypeOK, SessionType, TokenType, ViewOf
  <2>2. /\ client' \in [Leases -> {"idle", "held", "releasing", "saved"}]
        /\ token' \in [Leases -> TokenType]
    BY <1>4, <1>13, <2>1 DEF TypeOK
  <2> QED BY <1>2, <1>6, <1>8, <1>11, <2>2 DEF TypeOK, fileVars
<1>15. NothingLost'
  BY <1>2, <1>5, <1>6, <1>7 DEF NothingLost, Retained, fileVars
<1>16. HandlerInv'
  BY <1>2, <1>8, <1>12 DEF HandlerInv, Inside, EnsureOps
<1>17. StageInv'
  BY <1>8 DEF StageInv
<1>18. SessionInv'
  <2>1. mem'.durable <= mem'.gen /\ (~mem'.dirty => mem'.gen = mem'.durable)
    BY <1>3, <1>9, <1>12 DEF SessionInv
  <2> QED BY <1>3, <1>5, <1>8, <1>12, <2>1 DEF SessionInv
<1>19. DataInv'
  <2>1. mem'.dirty \/ written \subseteq patch
    BY <1>3, <1>12
  <2> QED BY <1>2, <1>3, <1>5, <1>6, <1>7, <1>8, <1>12, <2>1
          DEF DataInv, CleanupSteps, fileVars
<1>20. WriterInv'
  <2>1. CASE UNCHANGED <<client, token>>
    <3>1. \A u \in Leases :
            /\ client[u] = "saved" => mem.lease # u
            /\ mem.lease = u =>
                 token[u].view = 0 \/ ~OwnerAlive(OwnerOf[u])
      BY <1>3, <1>4 DEF WriterInv, Holds
    <3>2. \A u \in Leases : mem'.lease = u => mem.lease = u
      BY <1>12, SessionAssumption DEF SessionAssumption
    <3> QED BY <1>2, <1>3, <2>1, <3>1, <3>2, QuietStep DEF fileVars, procVars
  <2>2. CASE /\ out = "ok" /\ OwnerAlive(OwnerOf[h.lease])
             /\ client' = [client EXCEPT ![h.lease] = "held"]
             /\ token' = [token EXCEPT ![h.lease] = ViewOf(mem)]
    <3>1. /\ disk'.there /\ disk'.dirty /\ disk'.root = mem.root
          /\ disk'.owner = OwnerOf[h.lease]
      BY <1>3, <1>6, <1>7, <2>2
    <3>2. /\ mem'.busy /\ mem'.lease = h.lease /\ mem'.owner = OwnerOf[h.lease]
          /\ ViewOf(mem') = ViewOf(mem)
      BY <1>3, <1>12, <2>2 DEF ViewOf
    <3>3. /\ client'[h.lease] = "held" /\ token'[h.lease] = ViewOf(mem)
          /\ \A u \in Leases \ {h.lease} : client'[u] = client[u] /\ token'[u] = token[u]
      BY <1>4, <2>2 DEF TypeOK
    <3>4. /\ \A u \in Leases : ~Runs(u)'
          /\ \A u \in Leases \ {h.lease} : ~Holds(u)'
      BY <1>2, <1>3, <3>3 DEF Holds, Runs, OwnerAlive
    <3>5. /\ token'[h.lease].root = mem.root /\ mem.root \in roots'
      BY <1>2, <1>5, <3>3 DEF ViewOf, fileVars
    <3>6. \A u \in Leases : client'[u] = "saved" /\ u \in written' => u \in patch'
      BY <1>2, <3>3 DEF WriterInv, fileVars
    <3>7. \A u \in Leases : client'[u] = "idle" => token'[u].view = 0
      BY <3>3 DEF WriterInv
    <3> QED BY <3>1, <3>2, <3>3, <3>4, <3>5, <3>6, <3>7 DEF WriterInv
  <2> QED BY <1>13, <2>1, <2>2
<1>21. RecordInv'
  BY <1>8 DEF RecordInv
<1> QED BY <1>21, <1>6, <1>14, <1>15, <1>16, <1>17, <1>18, <1>19, <1>20

\* list, and flush, end and prune of a busy session, change nothing.
LEMMA LeftAloneKeeps == ASSUME IInv, LeftAlone PROVE IInv'
<1> USE DEF IInv, vars, fileVars, procVars, LeftAlone, At, Return, Idle
<1>1. TypeOK'
  <2>1. h' \in HandlerType
    BY DEF HandlerType, Stages, Ops, LookupOps, EnsureOps
  <2> QED BY <2>1 DEF TypeOK
<1>2. NothingLost'
  BY DEF NothingLost, Retained
<1>3. HandlerInv'
  BY DEF HandlerInv, Inside, Stages, EnsureOps, NoSession
<1>4. StageInv'
  BY DEF StageInv
<1>5. SessionInv'
  BY DEF SessionInv
<1>6. MetaInv'
  BY DEF MetaInv
<1>7. RecordInv'
  BY DEF RecordInv
<1>8. DataInv'
  BY DEF DataInv
<1>9. WriterInv'
  BY DEF WriterInv, Holds, Runs, OwnerAlive
<1> QED BY <1>1, <1>2, <1>3, <1>4, <1>5, <1>6, <1>7, <1>8, <1>9

\* A flush may be skipped before it changed anything.
LEMMA SkipFlushKeeps == ASSUME IInv, SkipFlush PROVE IInv'
<1> USE DEF IInv, vars, fileVars, procVars, SkipFlush, At, Goto
<1>1. TypeOK'
  <2>1. h' \in HandlerType
    BY DEF TypeOK, HandlerType, Stages, Ops, LookupOps, EnsureOps
  <2> QED BY <2>1 DEF TypeOK
<1>2. NothingLost'
  BY DEF NothingLost, Retained
<1>3. HandlerInv'
  BY DEF HandlerInv, Inside, Stages, NoSession
<1>4. StageInv'
  BY DEF StageInv
<1>5. SessionInv'
  BY DEF SessionInv
<1>6. MetaInv'
  BY DEF MetaInv
<1>7. RecordInv'
  BY DEF RecordInv
<1>8. DataInv'
  BY DEF DataInv
<1>9. WriterInv'
  BY DEF WriterInv, Holds, Runs, OwnerAlive
<1> QED BY <1>1, <1>2, <1>3, <1>4, <1>5, <1>6, <1>7, <1>8, <1>9

\* The skip is recorded with the session as it is.
LEMMA WriteSkippedKeeps == ASSUME IInv, WriteSkipped PROVE IInv'
<1> USE DEF IInv, vars, fileVars, procVars, WriteSkipped, At, WriteMeta,
   Snapshot, Return, Idle
<1>1. TypeOK'
  <2>1. h' \in HandlerType
    BY DEF HandlerType, Stages, Ops, LookupOps, EnsureOps
  <2>2. disk' \in MetaType
    BY DEF TypeOK, SessionType, MetaType
  <2> QED BY <2>1, <2>2 DEF TypeOK
<1>2. NothingLost'
  BY DEF NothingLost, Retained, TypeOK, HandlerType, DataInv, HandlerInv, Inside
<1>3. HandlerInv'
  BY DEF HandlerInv, Inside, Stages, EnsureOps, NoSession
<1>4. StageInv'
  BY DEF StageInv
<1>5. SessionInv'
  BY DEF SessionInv
<1>6. MetaInv'
  BY DEF MetaInv
<1>7. RecordInv'
  BY DEF RecordInv
<1>8. DataInv'
  BY DEF DataInv, HandlerInv, StageInv, NoSession
<1>9. WriterInv'
  BY DEF WriterInv, Holds, Runs, OwnerAlive, HandlerInv, SessionInv, DataInv,
     Inside, Stages
<1> QED BY <1>1, <1>2, <1>3, <1>4, <1>5, <1>6, <1>7, <1>8, <1>9

\* A save first marks the session dirty, in memory.
LEMMA BeginFlushKeeps == ASSUME IInv, BeginFlush PROVE IInv'
<1> USE DEF IInv, vars, fileVars, procVars, BeginFlush, At, Goto
<1>1. TypeOK'
  <2>1. h' \in HandlerType
    BY DEF TypeOK, HandlerType, Stages, Ops, LookupOps, EnsureOps
  <2>2. mem' \in SessionType
    <3>1. mem \in SessionType
      BY DEF TypeOK
    <3>2. mem' = mem \/ mem' = [mem EXCEPT !.dirty = TRUE]
      OBVIOUS
    <3> HIDE DEF IInv, BeginFlush
    <3> QED BY <3>1, <3>2 DEF SessionType
  <2> QED BY <2>1, <2>2 DEF TypeOK
<1>2. NothingLost'
  BY DEF NothingLost, Retained
<1>3. HandlerInv'
  <2>1. /\ h'.at \in {"cleanup", "writeCheckpoint"}
        /\ h'.op = h.op /\ h.op \in FlushOps
    BY DEF TypeOK, HandlerType, FlushOps
  <2>2. mem'.reg = mem.reg /\ mem.reg
    BY DEF TypeOK, SessionType, HandlerInv, Inside, Stages
  <2> QED BY <2>1, <2>2
          DEF HandlerInv, Idle, EnsureOps
<1>4. StageInv'
  BY DEF StageInv, HandlerInv, SessionInv, TypeOK, SessionType, HandlerType
<1>5. SessionInv'
  BY DEF SessionInv, HandlerInv, TypeOK, SessionType, HandlerType
<1>6. MetaInv'
  BY DEF MetaInv
<1>7. RecordInv'
  BY DEF RecordInv, Snapshot, TypeOK, HandlerType
<1>8. DataInv'
  BY DEF DataInv, SessionInv, TypeOK, SessionType, HandlerType, CleanupSteps
<1>9. WriterInv'
  BY DEF WriterInv, Holds, Runs, OwnerAlive, TypeOK, SessionType
<1> QED BY <1>1, <1>2, <1>3, <1>4, <1>5, <1>6, <1>7, <1>8, <1>9

\* The save in progress is recorded before the patch is touched.
LEMMA WriteCheckpointKeeps == ASSUME IInv, WriteCheckpoint PROVE IInv'
<1> USE DEF IInv, vars, fileVars, procVars, WriteCheckpoint, At, WriteMeta,
   Snapshot, Fail, Goto, Return, Idle
<1>1. TypeOK'
  <2>1. h' \in HandlerType
    BY DEF TypeOK, HandlerType, Stages, Ops, LookupOps, EnsureOps
  <2>2. disk' \in MetaType
    BY DEF TypeOK, SessionType, MetaType
  <2> QED BY <2>1, <2>2 DEF TypeOK
<1>2. NothingLost'
  BY DEF NothingLost, Retained, TypeOK, HandlerType, DataInv, HandlerInv, Inside
<1>3. HandlerInv'
  BY DEF HandlerInv, Inside, Stages, EnsureOps, TypeOK, HandlerType
<1>4. StageInv'
  BY DEF StageInv, TypeOK, HandlerType
<1>5. SessionInv'
  BY DEF SessionInv, TypeOK, HandlerType
<1>6. MetaInv'
  BY DEF MetaInv
<1>7. RecordInv'
  BY DEF RecordInv, Snapshot, TypeOK, HandlerType
<1>8. DataInv'
  BY DEF DataInv, HandlerInv, TypeOK, HandlerType, Inside
<1>9. WriterInv'
  BY DEF WriterInv, Holds, Runs, OwnerAlive, HandlerInv, StageInv, NoSession
<1> QED BY <1>1, <1>2, <1>3, <1>4, <1>5, <1>6, <1>7, <1>8, <1>9

\* An export puts all the view holds into the patch.
LEMMA ExportKeeps == ASSUME IInv, Export PROVE IInv'
<1> USE DEF IInv, At
<1>1. /\ h.at = "export"
      /\ UNCHANGED <<up, closing, disk, upper, roots, mounts, exts, next,
                     procVars, written>>
  BY DEF Export
<1>2. mem.reg /\ ~mem.busy /\ mem.dirty /\ ~mem.closed
  BY <1>1 DEF HandlerInv, StageInv, Inside, Stages
<1>3. mem.root \in roots /\ written \cup patch \subseteq upper[mem.root]
  BY <1>1, <1>2, LiveView
<1>4. CASE /\ patch' = upper[mem.root]
           /\ mem' = [mem EXCEPT !.sum = upper[mem.root], !.dirty = FALSE,
                                 !.durable = mem.gen]
           /\ Goto("writeFlushed")
  <2>1. /\ h' \in HandlerType /\ h'.op = h.op /\ h'.lease = h.lease
        /\ h'.at = "writeFlushed"
    BY <1>4, GotoSteps DEF Stages
  <2>2. mem' \in SessionType
    BY <1>3, <1>4 DEF TypeOK, SessionType
  <2>3. /\ mem'.reg /\ mem'.root = mem.root /\ mem'.gen = mem.gen
        /\ mem'.view = mem.view /\ ~mem'.closed /\ mem'.todo = mem.todo
        /\ ~mem'.busy /\ ~mem'.dirty /\ mem'.durable = mem.gen
        /\ mem'.owner = mem.owner /\ mem'.lease = mem.lease
        /\ mem'.group = mem.group
    BY <1>2, <1>4 DEF TypeOK, SessionType
  <2>4. TypeOK'
    BY <1>1, <1>3, <1>4, <2>1, <2>2 DEF TypeOK, procVars
  <2>5. NothingLost'
    BY <1>1, <1>3, <1>4 DEF NothingLost
  <2>6. HandlerInv'
    BY <1>1, <2>1, <2>3 DEF HandlerInv, Idle, procVars
  <2>7. StageInv'
    BY <2>1, <2>3 DEF StageInv
  <2>8. SessionInv'
    BY <1>1, <1>2, <2>1, <2>3 DEF SessionInv, TypeOK, SessionType
  <2>9. MetaInv'
    BY <1>1 DEF MetaInv
  <2>10. DataInv'
    BY <1>1, <1>2, <1>3, <1>4, <2>1, <2>3 DEF DataInv
  <2>11. WriterInv'
    BY <1>1, <1>2, <1>3, <1>4, <2>3, FreeIsQuiet
       DEF WriterInv, Holds, Runs, OwnerAlive, ViewOf, procVars
  <2>12. RecordInv'
    BY <2>1 DEF RecordInv
  <2> QED BY <2>12, <2>4, <2>5, <2>6, <2>7, <2>8, <2>9, <2>10, <2>11
<1>5. CASE /\ Goto("writeUnsaved") /\ UNCHANGED mem
           /\ patch' \in {patch, upper[mem.root]}
  <2>1. /\ h' \in HandlerType /\ h'.op = h.op /\ h'.lease = h.lease
        /\ h'.at = "writeUnsaved"
    BY <1>5, GotoSteps DEF Stages
  <2>2. TypeOK'
    BY <1>1, <1>3, <1>5, <2>1 DEF TypeOK, procVars
  <2>3. NothingLost' /\ MetaInv'
    BY <1>1, <1>3, <1>5 DEF NothingLost, Retained, MetaInv
  <2>4. HandlerInv' /\ StageInv' /\ SessionInv'
    BY <1>1, <1>2, <1>5, <2>1
       DEF HandlerInv, StageInv, SessionInv, Idle, procVars
  <2>5. DataInv'
    BY <1>1, <1>2, <1>3, <1>5, <2>1 DEF DataInv
  <2>6. WriterInv'
    BY <1>1, <1>2, <1>3, <1>5, FreeIsQuiet
       DEF WriterInv, Holds, Runs, OwnerAlive, procVars
  <2>7. RecordInv'
    BY <2>1 DEF RecordInv
  <2> QED BY <2>2, <2>3, <2>4, <2>5, <2>6, <2>7
<1> QED BY <1>4, <1>5, WritePatchSteps DEF Export

\* A saved session is recorded clean, or marked dirty again when that fails.
LEMMA WriteFlushedKeeps == ASSUME IInv, WriteFlushed PROVE IInv'
<1> USE DEF IInv, At
<1>1. PICK out \in MetaResults :
        /\ WriteMeta(out)
        /\ IF out # "ok" THEN mem' = [mem EXCEPT !.dirty = TRUE] /\ Fail
           ELSE CASE h.op = "flush" -> Return /\ UNCHANGED mem
                  [] h.op = "close" -> Goto("cleanup") /\ UNCHANGED mem
                  [] OTHER -> mem' = [mem EXCEPT !.closed = TRUE] /\ Goto("cleanup")
  BY DEF WriteFlushed
<1>2. /\ h.at = "writeFlushed"
      /\ UNCHANGED <<up, closing, fileVars, procVars, written>>
  BY DEF WriteFlushed
<1>3. /\ mem.reg /\ ~mem.busy /\ ~mem.dirty /\ ~mem.closed
      /\ mem.lease = NoLease /\ written \subseteq patch /\ h.op \in FlushOps
  BY <1>2 DEF HandlerInv, StageInv, SessionInv, DataInv, Inside, Stages
<1>4. /\ h' \in HandlerType
      /\ \/ h' = Idle /\ h'.at = "idle" /\ h'.op = "none"
         \/ /\ h'.at \in {"cleanup", "writePreserved"}
            /\ h'.op = h.op /\ h'.lease = h.lease
            /\ h'.at = "writePreserved" => h.op = "close"
  BY <1>1, <1>2, <1>3, ReturnSteps, GotoSteps DEF Fail, Stages
<1>5. /\ disk' \in MetaType /\ MetaInv'
      /\ disk' = disk \/ disk' = Snapshot(mem)
  BY <1>1, WriteMetaSteps
<1>6. /\ mem' \in SessionType
      /\ mem'.reg /\ mem'.root = mem.root /\ mem'.gen = mem.gen
      /\ mem'.view = mem.view /\ mem'.todo = mem.todo
      /\ ~mem'.busy /\ mem'.durable = mem.durable
      /\ mem'.owner = mem.owner /\ mem'.lease = mem.lease
      /\ mem'.group = mem.group
      /\ mem'.closed => ~mem'.dirty
      /\ h'.at = "cleanup" => ~mem'.dirty /\ (mem'.closed \/ h.op = "close")
  <2>1. CASE out # "ok"
    <3>1. mem' = [mem EXCEPT !.dirty = TRUE] /\ h'.at # "cleanup"
      BY <1>1, <2>1, ReturnSteps, GotoSteps DEF Fail, Stages
    <3> QED BY <1>3, <3>1 DEF TypeOK, SessionType
  <2>2. CASE out = "ok" /\ h.op \in {"flush", "close"}
    <3>1. mem' = mem /\ (h'.at = "cleanup" => h.op = "close")
      BY <1>1, <2>2, ReturnSteps
    <3> QED BY <1>3, <2>2, <3>1 DEF TypeOK
  <2>3. CASE out = "ok" /\ h.op \notin {"flush", "close"}
    <3>1. mem' = [mem EXCEPT !.closed = TRUE]
      BY <1>1, <2>3
    <3> QED BY <1>3, <3>1 DEF TypeOK, SessionType
  <2> QED BY <2>1, <2>2, <2>3
<1>7. TypeOK'
  BY <1>2, <1>4, <1>5, <1>6 DEF TypeOK, fileVars, procVars
<1>8. NothingLost'
  BY <1>2, <1>3 DEF NothingLost, fileVars
<1>9. HandlerInv'
  BY <1>2, <1>3, <1>4, <1>6
     DEF HandlerInv, Idle, Inside, EnsureOps, FlushOps, procVars
<1>10. StageInv'
  BY <1>3, <1>4, <1>6 DEF StageInv
<1>11. SessionInv'
  BY <1>2, <1>3, <1>4, <1>6 DEF SessionInv
<1>12. DataInv'
  <2>1. disk'.there /\ disk'.dirty => disk' = disk
    BY <1>3, <1>5 DEF Snapshot
  <2>2. /\ mem.root \in roots /\ written \cup patch \subseteq upper[mem.root]
        /\ mem.todo = CleanupSteps
    BY <1>2, <1>3, LiveView
  <2> QED BY <1>2, <1>3, <1>4, <1>6, <2>1, <2>2
             DEF DataInv, CleanupSteps, fileVars
<1>13. WriterInv'
  <2>1. \A u \in Leases : ~Holds(u) /\ ~Runs(u)
    BY <1>3, FreeIsQuiet
  <2>2. \A u \in Leases : mem'.lease # u
    BY <1>3, <1>6, SessionAssumption DEF SessionAssumption
  <2> QED BY <1>2, <2>1, <2>2, QuietStep DEF fileVars
<1>14. RecordInv'
  BY <1>4 DEF RecordInv
<1> QED BY <1>14, <1>5, <1>7, <1>8, <1>9, <1>10, <1>11, <1>12, <1>13

\* Cleanup runs on a saved session with no holder; a failed step is kept for a
\* retry.
LEMMA RunCleanupKeeps == ASSUME IInv, RunCleanup PROVE IInv'
<1> USE DEF IInv, At
<1>1. PICK done \in SUBSET mem.todo :
        /\ mounts' = IF "mounts" \in done THEN mounts \ {mem.root} ELSE mounts
        /\ "root" \in done => Removable(mounts')
        /\ roots' = IF "root" \in done THEN roots \ {mem.root} ELSE roots
        /\ exts' = IF "ext" \in done THEN exts \ {mem.ext} ELSE exts
        /\ IF done # mem.todo
           THEN /\ mem' = [mem EXCEPT !.todo = @ \ done]
                /\ IF h.op = "close" THEN Fail ELSE Goto("writeUnsaved")
                /\ UNCHANGED <<up, closing>>
           ELSE IF h.op = "close" THEN Stopped
           ELSE /\ mem' = [mem EXCEPT !.todo = {}]
                /\ Goto("remove")
                /\ UNCHANGED <<up, closing>>
  BY DEF RunCleanup
<1>2. /\ h.at = "cleanup"
      /\ UNCHANGED <<disk, patch, upper, next, procVars, written>>
  BY DEF RunCleanup
<1>3. /\ mem.reg /\ ~mem.busy /\ ~mem.dirty /\ (mem.closed \/ h.op = "close")
      /\ written \subseteq patch /\ mem.lease = NoLease /\ up
  BY <1>2
     DEF HandlerInv, StageInv, SessionInv, DataInv, Inside, Stages, NoSession
<1>4. /\ roots' \in SUBSET Views /\ mounts' \in SUBSET roots' /\ exts' \in SUBSET Views
      /\ roots' \subseteq roots
      /\ mem.root \in roots /\ "root" \notin done => mem.root \in roots'
  BY <1>1 DEF TypeOK, Removable
<1>5. \A u \in Leases : ~Holds(u) /\ ~Runs(u)
  BY <1>3, FreeIsQuiet
<1>6. NothingLost' /\ MetaInv'
  BY <1>2, <1>3 DEF NothingLost, MetaInv
<1>7. CASE Stopped
  <2>1. TypeOK'
    BY <1>2, <1>4, <1>7, StoppedSteps DEF TypeOK, procVars
  <2>2. DataInv'
    BY <1>2, <1>4, <1>7, StoppedSteps DEF DataInv, Idle, NoSession
  <2>3. WriterInv'
    BY <1>2, <1>5, <1>7, StoppedSteps, QuietStep, SessionAssumption
       DEF SessionAssumption, NoSession
  <2>4. RecordInv'
    BY <1>7, StoppedSteps DEF RecordInv, Idle
  <2> QED BY <2>4, <1>6, <1>7, <2>1, <2>2, <2>3, StoppedInv
<1>8. CASE ~(done = mem.todo /\ h.op = "close")
  <2>1. PICK todo \in SUBSET mem.todo :
          /\ mem' = [mem EXCEPT !.todo = todo]
          /\ "root" \in todo => mem.root \in roots'
          /\ "root" \notin todo => "root" \notin mem.todo \/ "root" \in done
    <3>1. CASE done # mem.todo
      <4>1. "root" \in mem.todo \ done => mem.root \in roots'
        BY <1>3, <1>4 DEF DataInv
      <4>2. mem' = [mem EXCEPT !.todo = mem.todo \ done]
        BY <1>1, <3>1
      <4> QED BY <4>1, <4>2
    <3>2. CASE done = mem.todo
      BY <1>1, <1>8, <3>2
    <3> QED BY <3>1, <3>2
  <2>2. /\ h' \in HandlerType /\ UNCHANGED <<up, closing>>
        /\ h'.op = h.op /\ h'.lease = h.lease
        /\ \/ h'.at \in {"remove", "writeUnsaved"} /\ h.op # "close"
           \/ h'.at = "writePreserved" /\ h.op = "close"
    BY <1>1, <1>8, GotoSteps DEF Fail, Stages
  <2>3. mem' \in SessionType
    BY <2>1 DEF TypeOK, SessionType
  <2>4. /\ mem'.reg /\ ~mem'.busy /\ ~mem'.dirty /\ mem'.closed = mem.closed
        /\ mem'.root = mem.root /\ mem'.view = mem.view /\ mem'.todo = todo
        /\ mem'.gen = mem.gen /\ mem'.durable = mem.durable
        /\ mem'.owner = mem.owner /\ mem'.lease = mem.lease
        /\ mem'.group = mem.group
    BY <1>3, <2>1 DEF TypeOK, SessionType
  <2>5. TypeOK'
    BY <1>2, <1>4, <2>2, <2>3 DEF TypeOK, procVars
  <2>6. HandlerInv'
    BY <1>2, <1>3, <2>2, <2>4 DEF HandlerInv, Idle, EnsureOps, procVars
  <2>7. StageInv'
    BY <1>3, <2>2, <2>4 DEF StageInv
  <2>8. SessionInv'
    BY <1>2, <1>3, <2>2, <2>4 DEF SessionInv
  <2>9. DataInv'
    BY <1>2, <1>3, <1>4, <2>1, <2>2, <2>4 DEF DataInv
  <2>10. WriterInv'
    BY <1>2, <1>3, <1>5, <2>4, QuietStep, SessionAssumption
       DEF SessionAssumption
  <2>11. RecordInv'
    BY <2>2 DEF RecordInv
  <2> QED BY <2>11, <1>6, <2>5, <2>6, <2>7, <2>8, <2>9, <2>10
<1> QED BY <1>1, <1>7, <1>8

\* The metadata goes only after the session's root is gone and its work saved.
LEMMA RemoveMetaKeeps == ASSUME IInv, RemoveMeta PROVE IInv'
<1> USE DEF IInv, At
<1>1. /\ h.at = "remove" /\ disk' \in {disk, NoMeta}
      /\ mem' = mem \/ (mem' = NoSession /\ disk' = NoMeta)
      /\ UNCHANGED <<up, closing, fileVars, procVars, written>>
  BY DEF RemoveMeta
<1>2. /\ mem.reg /\ mem.closed /\ ~mem.dirty /\ ~mem.busy /\ mem.lease = NoLease
      /\ written \subseteq patch
  BY <1>1 DEF HandlerInv, StageInv, SessionInv, DataInv, Inside, Stages
<1>3. h' \in HandlerType /\ h' = Idle /\ h'.at = "idle" /\ h'.op = "none"
  BY ReturnSteps DEF RemoveMeta
<1>4. NoMeta \in MetaType /\ MetaValid(NoMeta)
  BY SessionAssumption DEF SessionAssumption, NoMeta, MetaType, MetaValid
<1>5. TypeOK'
  BY <1>1, <1>3, <1>4, NoSessionType DEF TypeOK, fileVars, procVars
<1>6. NothingLost' /\ MetaInv'
  BY <1>1, <1>2, <1>4 DEF NothingLost, MetaInv, MetaValid, fileVars
<1>7. HandlerInv' /\ StageInv' /\ SessionInv'
  BY <1>1, <1>2, <1>3
     DEF HandlerInv, StageInv, SessionInv, NoSession, Inside, EnsureOps, procVars
<1>8. DataInv'
  BY <1>1, <1>2, <1>3 DEF DataInv, NoSession, NoMeta, fileVars
<1>9. WriterInv'
  <2>1. \A u \in Leases : ~Holds(u) /\ ~Runs(u)
    BY <1>2, FreeIsQuiet
  <2>2. \A u \in Leases : mem'.lease # u
    BY <1>1, <1>2, SessionAssumption DEF SessionAssumption, NoSession
  <2> QED BY <1>1, <2>1, <2>2, QuietStep DEF fileVars
<1>10. RecordInv'
  BY <1>3 DEF RecordInv
<1> QED BY <1>10, <1>5, <1>6, <1>7, <1>8, <1>9

\* The shutdown of a session saves, preserves or cleans it up as its lease and
\* its dirty flag tell.
LEMMA BeginCloseKeeps == ASSUME IInv, BeginClose PROVE IInv'
<1> USE DEF IInv, At
<1>1. /\ up /\ h = Idle
      /\ UNCHANGED <<disk, fileVars, procVars, written>>
  BY DEF BeginClose, GateFree
<1>2. h.at = "idle"
  BY <1>1 DEF Idle
<1>3. NothingLost' /\ MetaInv'
  BY <1>1 DEF NothingLost, Retained, MetaInv, fileVars
<1>4. CASE Stopped /\ ~mem.reg
  <2>1. mem = NoSession
    BY <1>2, <1>4 DEF HandlerInv
  <2>2. TypeOK'
    BY <1>1, <1>4, StoppedSteps DEF TypeOK, fileVars, procVars
  <2>3. DataInv'
    BY <1>1, <1>4, StoppedSteps DEF DataInv, Idle, NoSession, fileVars
  <2>4. WriterInv'
    BY <1>1, <1>4, <2>1, StoppedSteps
       DEF WriterInv, Holds, Runs, OwnerAlive, NoSession, fileVars, procVars
  <2>5. RecordInv'
    BY <1>4, StoppedSteps DEF RecordInv, Idle
  <2> QED BY <2>5, <1>3, <1>4, <2>2, <2>3, <2>4, StoppedInv
<1>5. CASE /\ h' = [at |-> CloseStage, op |-> "close", lease |-> NoLease]
           /\ UNCHANGED <<up, closing, mem>> /\ mem.reg
  <2>1. /\ h'.at = CloseStage /\ h'.op = "close"
        /\ h'.at \in {"cleanup", "writePreserved", "finish", "ready"}
        /\ h' \in HandlerType
    BY <1>5 DEF CloseStage, HandlerType, Stages, Ops
  <2>2. /\ h'.at = "cleanup" => ~mem.busy /\ ~mem.dirty
        /\ h'.at = "ready" => ~mem.closed
        /\ h'.at = "finish" => mem.busy /\ ~MutationOwnerAlive(mem.owner, mem.group)
    BY <2>1 DEF CloseStage, SessionInv, TypeOK, SessionType
  <2>3. TypeOK'
    BY <1>1, <1>5, <2>1 DEF TypeOK, fileVars, procVars
  <2>4. HandlerInv'
    BY <1>1, <1>5, <2>1, <2>2
       DEF HandlerInv, Inside, EnsureOps, WorkOps, FlushOps, procVars
  <2>5. StageInv'
    BY <1>1, <1>5, <2>1, <2>2
       DEF StageInv, MutationOwnerAlive, GroupAlive, OwnerAlive, procVars
  <2>6. SessionInv'
    BY <1>2, <1>5, <2>1 DEF SessionInv
  <2>7. DataInv'
    BY <1>1, <1>5, <2>1 DEF DataInv, fileVars
  <2>8. WriterInv'
    BY <1>1, <1>5 DEF WriterInv, Holds, Runs, OwnerAlive, fileVars, procVars
  <2>9. RecordInv'
    BY <2>1 DEF RecordInv
  <2> QED BY <2>9, <1>3, <2>3, <2>4, <2>5, <2>6, <2>7, <2>8
<1> QED BY <1>4, <1>5 DEF BeginClose

\* A preserved session is recorded, if that succeeds, and the daemon stops.
LEMMA WritePreservedKeeps == ASSUME IInv, WritePreserved PROVE IInv'
<1> USE DEF IInv, vars, fileVars, procVars, WritePreserved, At, WriteMeta,
   Snapshot, Stopped, Idle, NoSession
<1>1. TypeOK'
  <2>1. up' \in BOOLEAN
    OBVIOUS
  <2>2. closing' \in BOOLEAN
    OBVIOUS
  <2>3. h' \in HandlerType
    BY DEF HandlerType, Stages, Ops, LookupOps, EnsureOps
  <2>4. mem' \in SessionType
    BY SessionAssumption DEF TypeOK, SessionType, MetaType, CleanupSteps,
       Views, SessionAssumption
  <2>5. disk' \in MetaType
    BY DEF TypeOK, SessionType, MetaType
  <2> QED BY <2>1, <2>2, <2>3, <2>4, <2>5 DEF TypeOK
<1>2. NothingLost'
  BY DEF NothingLost, Retained, TypeOK, HandlerType, DataInv, HandlerInv, Inside
<1>3. HandlerInv'
  BY DEF HandlerInv, Inside, Stages
<1>4. StageInv'
  BY DEF StageInv
<1>5. SessionInv'
  BY DEF SessionInv
<1>6. MetaInv'
  BY DEF MetaInv
<1>7. RecordInv'
  BY DEF RecordInv
<1>8. DataInv'
  BY DEF DataInv, HandlerInv, TypeOK, HandlerType
<1>9. WriterInv'
  <2>1. UNCHANGED <<roots, token, client, group, alive, patch, written>>
    OBVIOUS
  <2>2. ~mem'.reg /\ \A u \in Leases : mem'.lease # u
    BY SessionAssumption
  <2>3. /\ mem.reg
        /\ \/ disk' = disk
           \/ /\ disk'.there /\ disk'.dirty = mem.dirty /\ disk'.root = mem.root
              /\ disk'.owner = mem.owner /\ disk'.group = mem.group
    BY DEF HandlerInv, SessionInv, Inside, Stages
  <2>4. WriterInv /\ (mem.busy => mem.dirty)
    BY DEF SessionInv
  <2> HIDE DEF IInv, WritePreserved
  <2>5. ASSUME NEW u \in Leases, (Holds(u) \/ Runs(u))'
        PROVE  /\ disk'.there /\ disk'.dirty
               /\ disk'.root = token[u].root /\ disk'.root \in roots
    BY <2>1, <2>3, <2>4, <2>5 DEF WriterInv, ViewOf, Holds, Runs, OwnerAlive
  <2>6. ASSUME NEW u \in Leases
        PROVE  /\ Holds(u)' => disk'.owner = OwnerOf[u]
               /\ Runs(u)' => disk'.group = u
    BY <2>1, <2>3, <2>4 DEF WriterInv, Holds, Runs, OwnerAlive
  <2>7. /\ \A u \in Leases : client'[u] = "idle" => token'[u].view = 0
        /\ \A u \in Leases : client'[u] = "saved" =>
             ~Runs(u)' /\ (u \in written' => u \in patch')
        /\ \A u, v \in Leases : (Holds(u) \/ Runs(u))' /\ (Holds(v) \/ Runs(v))' => u = v
    BY <2>1, <2>4 DEF WriterInv, Holds, Runs, OwnerAlive
  <2> QED BY <2>1, <2>2, <2>5, <2>6, <2>7 DEF WriterInv, Holds, Runs, OwnerAlive
<1> QED BY <1>1, <1>2, <1>3, <1>4, <1>5, <1>6, <1>7, <1>8, <1>9

\* Recovery of a session of another daemon discards its root only when clean.
LEMMA RecoverKeeps == ASSUME IInv, Recover PROVE IInv'
<1> USE DEF IInv, vars, fileVars, procVars, Recover, At, Accepts, GateFree,
   Idle, DiscardsRoot
<1>1. TypeOK'
  <2>1. h' \in HandlerType
    BY DEF HandlerType, Stages, Ops, LookupOps, EnsureOps
  <2>2. roots' \in SUBSET Views
    BY DEF TypeOK
  <2>3. mounts' \in SUBSET roots'
    BY DEF TypeOK
  <2>4. exts' \in SUBSET Views
    BY DEF TypeOK
  <2> QED BY <2>1, <2>2, <2>3, <2>4 DEF TypeOK
<1>2. NothingLost'
  BY DEF NothingLost, Retained
<1>3. HandlerInv'
  BY DEF HandlerInv, Inside, Stages, NoSession
<1>4. StageInv'
  BY DEF StageInv
<1>5. SessionInv'
  BY DEF SessionInv
<1>6. MetaInv'
  BY DEF MetaInv
<1>7. RecordInv'
  BY DEF RecordInv
<1>8. DataInv'
  BY DEF DataInv
<1>9. WriterInv'
  BY DEF WriterInv, Holds, Runs, OwnerAlive
<1> QED BY <1>1, <1>2, <1>3, <1>4, <1>5, <1>6, <1>7, <1>8, <1>9

\* An owner that dies holds no lease any more.
LEMMA OwnerDiesKeeps == ASSUME IInv, NEW o \in Owners, OwnerDies(o) PROVE IInv'
<1> USE DEF IInv, vars, fileVars, procVars, OwnerDies, At, daemonVars
<1>1. TypeOK'
  <2>1. alive' \in SUBSET Owners
    BY DEF TypeOK
  <2> QED BY <2>1 DEF TypeOK
<1>2. NothingLost'
  BY DEF NothingLost, Retained
<1>3. HandlerInv'
  BY DEF HandlerInv, Inside, Stages
<1>4. StageInv'
  BY DEF StageInv, Holds, Runs, GroupAlive, OwnerAlive
<1>5. SessionInv'
  BY DEF SessionInv
<1>6. MetaInv'
  BY DEF MetaInv
<1>7. RecordInv'
  BY DEF RecordInv
<1>8. DataInv'
  BY DEF DataInv
<1>9. WriterInv'
  BY DEF WriterInv, Holds, Runs, OwnerAlive
<1> QED BY <1>1, <1>2, <1>3, <1>4, <1>5, <1>6, <1>7, <1>8, <1>9

\* A helper that is started runs no command yet.
LEMMA SpawnHelperKeeps == ASSUME IInv, NEW u \in Leases, SpawnHelper(u) PROVE IInv'
<1> USE DEF IInv, vars, fileVars, procVars, SpawnHelper, At, daemonVars
<1>1. TypeOK'
  <2>1. group' \in [Leases -> {"none", "helper", "run", "quit", "dead"}]
    BY DEF TypeOK
  <2> QED BY <2>1 DEF TypeOK
<1>2. NothingLost'
  BY DEF NothingLost, Retained
<1>3. HandlerInv'
  BY DEF HandlerInv, Inside, Stages
<1>4. StageInv'
  BY DEF StageInv, HandlerInv, Inside, Stages, WriterInv, Holds
<1>5. SessionInv'
  BY DEF SessionInv
<1>6. MetaInv'
  BY DEF MetaInv
<1>7. RecordInv'
  BY DEF RecordInv
<1>8. DataInv'
  BY DEF DataInv
<1>9. WriterInv'
  BY DEF WriterInv, Holds, Runs, OwnerAlive
<1> QED BY <1>1, <1>2, <1>3, <1>4, <1>5, <1>6, <1>7, <1>8, <1>9

\* A group that ends writes no more.
LEMMA GroupEndsKeeps == ASSUME IInv, NEW u \in Leases, GroupEnds(u) PROVE IInv'
<1> USE DEF IInv, vars, fileVars, procVars, GroupEnds, At, daemonVars
<1>1. TypeOK'
  <2>1. group' \in [Leases -> {"none", "helper", "run", "quit", "dead"}]
    BY DEF TypeOK
  <2> QED BY <2>1 DEF TypeOK
<1>2. NothingLost'
  BY DEF NothingLost, Retained
<1>3. HandlerInv'
  BY DEF HandlerInv, Inside, Stages
<1>4. StageInv'
  BY DEF StageInv, Holds, Runs, GroupAlive, OwnerAlive
<1>5. SessionInv'
  BY DEF SessionInv
<1>6. MetaInv'
  BY DEF MetaInv
<1>7. RecordInv'
  BY DEF RecordInv
<1>8. DataInv'
  BY DEF DataInv
<1>9. WriterInv'
  BY DEF WriterInv, Holds, Runs, OwnerAlive
<1> QED BY <1>1, <1>2, <1>3, <1>4, <1>5, <1>6, <1>7, <1>8, <1>9

\* The holder's write lands in the upper layer that the metadata names.
LEMMA WriteKeeps == ASSUME IInv, NEW u \in Leases, Write(u) PROVE IInv'
<1> USE DEF IInv, vars, fileVars, procVars, Write, At, daemonVars, Active
<1>1. TypeOK'
  <2>1. upper' \in [Views -> SUBSET Writes]
    BY DEF TypeOK, Views, Writes
  <2>2. written' \in SUBSET Writes
    BY DEF TypeOK, Views, Writes
  <2> QED BY <2>1, <2>2 DEF TypeOK
<1>2. NothingLost'
  BY DEF NothingLost, Retained, TypeOK, WriterInv, Holds, Runs
<1>3. HandlerInv'
  BY DEF HandlerInv, Inside, Stages
<1>4. StageInv'
  BY SessionAssumption
     DEF StageInv, HandlerInv, Inside, Stages, WriterInv, Holds, Runs,
     GroupAlive
<1>5. SessionInv'
  BY DEF SessionInv
<1>6. MetaInv'
  BY DEF MetaInv
<1>7. RecordInv'
  BY DEF RecordInv
<1>8. DataInv'
  <2>1. /\ disk.there /\ disk.root = token[u].root /\ disk.root \in roots
        /\ mem.reg => mem.busy /\ mem.dirty /\ mem.root = token[u].root
    BY DEF WriterInv, SessionInv, Holds, Runs, ViewOf
  <2>2. \A r \in roots : /\ upper[r] \subseteq upper'[r]
                         /\ r = token[u].root => u \in upper'[r]
    BY DEF TypeOK
  <2> QED BY <2>1, <2>2 DEF DataInv, HandlerInv
<1>9. WriterInv'
  BY DEF WriterInv, Holds, Runs, OwnerAlive
<1> QED BY <1>1, <1>2, <1>3, <1>4, <1>5, <1>6, <1>7, <1>8, <1>9

\* An editor's write lands in the mounted view.
LEMMA DirectWriteKeeps == ASSUME IInv, DirectWrite PROVE IInv'
<1> USE DEF IInv, vars, fileVars, procVars, DirectWrite, At, daemonVars
<1>1. TypeOK'
  <2>1. upper' \in [Views -> SUBSET Writes]
    BY DEF TypeOK, Views, Writes
  <2> QED BY <2>1 DEF TypeOK
<1>2. NothingLost'
  BY DEF NothingLost, Retained
<1>3. HandlerInv'
  BY DEF HandlerInv, Inside, Stages
<1>4. StageInv'
  BY DEF StageInv, Holds, Runs, GroupAlive, OwnerAlive
<1>5. SessionInv'
  BY DEF SessionInv
<1>6. MetaInv'
  BY DEF MetaInv
<1>7. RecordInv'
  BY DEF RecordInv
<1>8. DataInv'
  BY DEF DataInv, HandlerInv, TypeOK, HandlerType
<1>9. WriterInv'
  BY DEF WriterInv, Holds, Runs, OwnerAlive
<1> QED BY <1>1, <1>2, <1>3, <1>4, <1>5, <1>6, <1>7, <1>8, <1>9
=============================================================================
