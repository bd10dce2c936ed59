-------------------------- MODULE DaemonSessionInv --------------------------
(***************************************************************************)
(* The inductive invariant of DaemonSession, in named parts, and the       *)
(* refinement of SavedWork.                                                *)
(***************************************************************************)
EXTENDS DaemonSession

\* The promise, read off the files: what is promised and in the patch is
\* saved, what is promised and in the retained upper layer is kept.
Work == INSTANCE SavedWork WITH saved <- patch \cap written,
                                kept  <- Retained \cap written

(***************************************************************************)
(* DaemonSession implements SavedWork: through every crash, failed write   *)
(* and recovery, promised work is saved or kept.                           *)
(***************************************************************************)
ImplementsSavedWork == Work!Spec

\* The kind of work behind the key's gate: a handler is inside from its first
\* step to its last.
WorkInside == IF h = Idle THEN "none"
              ELSE IF h.op = "close" THEN "shutdown"
              ELSE IF h.op = "release" THEN "release" ELSE "request"

Gate == INSTANCE KeyGate WITH inside <- WorkInside
-----------------------------------------------------------------------------
\* The client holds the lease as far as it knows, and its owner lives.
Holds(u) == client[u] = "held" /\ OwnerAlive(OwnerOf[u])
Runs(u)  == group[u] = "run"

ViewOf(m) == [view |-> m.view, root |-> m.root]

\* The stages in which a handler works on a registered session.
Inside == Stages \ {"idle", "lookup", "restore", "writeNew"}

\* The operations that flush a session, and those that may work on it.
FlushOps == {"flush", "end", "prune", "close"}
WorkOps  == FlushOps \cup {"acquire", "list"}

\* The handler's stage, its operation and the session it works on agree.
HandlerInv ==
  /\ ~up => h = Idle /\ mem = NoSession /\ ~closing
  /\ At("idle") => h = Idle
  /\ h.at \in Inside => mem.reg
  /\ At("writeNew") => ~mem.reg /\ ~disk.there /\ mem.view = 1
  /\ ~mem.reg => mem = NoSession \/ At("writeNew")
  /\ h.op = "acquire" => /\ h.lease \in Leases
                         /\ client[h.lease] \in {"idle", "held"}
  /\ h.op = "release" => /\ h.lease \in Leases
                         /\ client[h.lease] = "releasing"
  /\ h.op \in EnsureOps /\ ~At("lookup") => ~mem.closed
  /\ At("writePreserved") => h.op = "close"
  /\ At("ready") => /\ h.op \in WorkOps
                    /\ mem.closed => h.op \in {"list", "prune"}
  /\ h.at \in {"finish", "writeFinished"} => h.op \in WorkOps \cup {"release"}
  /\ h.at \in {"writeCheckpoint", "export", "writeFlushed"} => h.op \in FlushOps

\* What each stage has established about the session.
StageInv ==
  /\ At("finish") =>
       /\ mem.busy /\ ~GroupAlive(mem.group)
       /\ \/ ~OwnerAlive(mem.owner)
          \/ h.op = "release" /\ mem.lease = h.lease
  /\ h.at \in {"writeFinished", "writeFlushed", "cleanup"} => ~mem.busy /\ ~mem.dirty
  /\ h.at \in {"writeCheckpoint", "export", "writeMarked"} =>
       ~mem.busy /\ mem.dirty /\ ~mem.closed
  /\ At("cleanup") => mem.closed \/ h.op = "close"
  /\ At("remove") => mem.closed
  /\ h.at \in {"writeFinished", "writeFlushed"} => ~mem.closed
  /\ At("writeAttached") =>
       /\ h.lease \in Leases
       /\ mem.busy /\ mem.lease = h.lease /\ mem.group = h.lease
       /\ token[h.lease] = ViewOf(mem)
  /\ At("writeAcquired") =>
       /\ h.op = "acquire" /\ mem.busy /\ mem.lease = h.lease
       /\ mem.owner = OwnerOf[h.lease] /\ mem.group = NoLease
       /\ mem.durable < mem.gen
       /\ ~mem.was => mem.gen = mem.durable + 1 /\ written \subseteq patch
       /\ \A u \in Leases : ~Holds(u) /\ ~Runs(u)

\* The fields of the session agree with each other.
SessionInv ==
  /\ mem.durable <= mem.gen
  /\ ~mem.dirty => mem.gen = mem.durable
  /\ mem.busy => mem.dirty
  /\ mem.closed => ~mem.dirty
  /\ ~mem.busy => mem.owner = NoOwner /\ mem.lease = NoLease
  /\ mem.group \in {NoLease, mem.lease}
  /\ mem.reg /\ ~mem.closed /\ ~At("writePreserved") => mem.todo = CleanupSteps
  /\ At("writeNew") => mem.todo = CleanupSteps /\ mem.gen = 0 /\ ~mem.dirty

\* The metadata file is one that readDaemonSessionMeta accepts.
MetaInv == MetaValid(disk)

\* acquire_exec works on a session that the metadata file records as it is.
RecordInv ==
  h.at \in {"have", "ready"} /\ h.op = "acquire" => disk = Snapshot(mem)

\* Where the work is: in the live view, in the retained upper, in the patch.
DataInv ==
  /\ \A r \in roots : r < next
  /\ mem.reg /\ "root" \in mem.todo =>
       /\ mem.root \in roots
       /\ written \cup patch \subseteq upper[mem.root]
  /\ At("writeNew") => mem.root \in roots /\ upper[mem.root] = patch
  /\ mem.reg /\ "root" \notin mem.todo => ~mem.dirty
  /\ mem.reg /\ ~mem.dirty => written \subseteq patch
  /\ disk.there /\ disk.dirty /\ disk.root \in roots =>
       written \cup patch \subseteq upper[disk.root]
  /\ disk.there /\ disk.dirty /\ mem.reg => disk.root = mem.root

\* A holder or a running command is the session's, in memory and on disk.
WriterInv ==
  /\ \A u \in Leases : client[u] = "idle" => token[u].view = 0
  /\ \A u \in Leases : Holds(u) \/ Runs(u) =>
       /\ disk.there /\ disk.dirty
       /\ disk.root = token[u].root /\ disk.root \in roots
       /\ mem.reg => mem.busy /\ mem.lease = u /\ token[u] = ViewOf(mem)
  /\ \A u \in Leases : Holds(u) => /\ disk.owner = OwnerOf[u]
                                   /\ mem.reg => mem.owner = OwnerOf[u]
  /\ \A u \in Leases : Runs(u)  => /\ disk.group = u
                                   /\ mem.reg => mem.group = u
  /\ \A u, v \in Leases : (Holds(u) \/ Runs(u)) /\ (Holds(v) \/ Runs(v)) => u = v
  /\ \A u \in Leases :
       /\ token[u].view # 0 /\ OwnerAlive(OwnerOf[u])
       /\ mem.reg /\ mem.busy /\ mem.lease = u
       => token[u] = ViewOf(mem)
  /\ \A u \in Leases : client[u] = "saved" =>
       /\ ~Runs(u) /\ mem.lease # u
       /\ u \in written => u \in patch

(***************************************************************************)
(* The inductive invariant: NothingLost and the rest of the safety         *)
(* properties follow from it.                                              *)
(***************************************************************************)
IInv == /\ TypeOK /\ NothingLost /\ HandlerInv /\ StageInv /\ SessionInv
        /\ MetaInv /\ RecordInv /\ DataInv /\ WriterInv
-----------------------------------------------------------------------------
(***************************************************************************)
(* What the metadata file says can be acted on, unless certain failures    *)
(* happen; these hold of the states that satisfy IInv.                     *)
(***************************************************************************)
\* Metadata that says clean carries the checksum of the patch, and whoever is
\* about to replace the patch has the file say dirty: a session with a lease
\* does from the grant on, a save records that it is in progress.  A busy
\* session may be recorded as clean when masks could not be removed.
CleanInv ==
  /\ CleanHasPatch
  /\ (mem.reg \/ At("writeNew")) /\ ~mem.dirty => mem.sum = patch
  /\ At("writeAcquired") /\ ~mem.was => mem.sum = patch
  /\ mem.busy /\ ~At("writeAcquired") => disk.there /\ disk.dirty
  /\ At("export") => disk.there /\ disk.dirty

\* Metadata that says dirty names a root that exists, and does not outlive the
\* save that made the session clean; it may when a write that took effect is
\* reported as failed.
DirtyInv ==
  /\ DirtyHasUpper
  /\ mem.reg /\ ~mem.dirty /\ h.at \notin {"writeFinished", "writeFlushed"} => ~disk.dirty
  /\ At("writeAcquired") /\ ~mem.was => ~disk.dirty
=============================================================================
