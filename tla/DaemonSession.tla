--------------------------- MODULE DaemonSession ---------------------------
(***************************************************************************)
(* One session key of the persona daemon: the session the registry holds   *)
(* in memory, its metadata file, its patch file, its overlay upper layer,  *)
(* and the processes that acquire its mutation lease and write to its      *)
(* view (cmd/persona/daemon.go and its neighbours).                        *)
(*                                                                         *)
(* A request handler owns the key's gate from its first to its last step,  *)
(* so h, the handler at work, is at most one.  A handler is cut into one   *)
(* action per durable effect: between two of them the daemon may be killed *)
(* and the processes it serves may write, exit or be killed.               *)
(*                                                                         *)
(* Data is abstract.  A write is a member of Writes (what one lease, or    *)
(* one unleased editor, changed); the content of an upper layer, of the    *)
(* patch, and the checksum of the patch are the set of writes they hold.   *)
(***************************************************************************)
EXTENDS Naturals, FiniteSets

CONSTANTS
  Leases,      \* lease tokens, each used by one tool call or one daemon exec
  Owners,      \* processes that own leases
  OwnerOf,     \* the owner process of each lease
  NoLease,     \* the empty lease, and the empty process group
  NoOwner,     \* owner pid 0
  Direct,      \* the change of an editor that holds no lease (mark-dirty)
  BaseMode,    \* "worktree" or "repo"
  Requests,    \* the session requests clients send
  Faults,      \* the I/O failures that may happen
  MaxViews,    \* bound: views (session and external roots) ever created
  MaxGen       \* bound: mutation generation at which mark-dirty is issued

FaultKinds == {"early", "late", "patch", "sync", "mask", "unmask", "mount", "cleanup"}

\* Operations that first look the session up, and those that may create it.
EnsureOps == {"ensure", "acquire"}
LookupOps == EnsureOps \cup {"list", "flush", "end", "prune", "mark"}

ASSUME SessionAssumption ==
  /\ OwnerOf \in [Leases -> Owners]
  /\ NoLease \notin Leases
  /\ NoOwner \notin Owners
  /\ Direct \notin Leases
  /\ BaseMode \in {"worktree", "repo"}
  /\ Requests \subseteq LookupOps
  /\ Faults \subseteq FaultKinds
  /\ MaxViews \in Nat
  /\ MaxGen \in Nat

VARIABLES
  up,       \* the daemon process runs
  closing,  \* daemonState.closing: a termination signal has arrived
  h,        \* the handler that holds the key's gate
  mem,      \* the key's entry in daemonState.sessions
  disk,     \* the session metadata file
  patch,    \* content of the patch file
  upper,    \* content of the view over each session root
  roots,    \* session roots that exist
  mounts,   \* session roots with an overlay mounted on them
  exts,     \* external roots (mask backing, git-dir mount) that exist
  next,     \* number the next view takes
  alive,    \* owner processes alive
  client,   \* what each lease's client knows of its lease
  token,    \* the view the client was given with the lease
  group,    \* the process group of each lease's command
  written   \* history: writes whose loss would break a promise

daemonVars == <<up, closing, h, mem>>
fileVars   == <<patch, upper, roots, mounts, exts, next>>
procVars   == <<alive, client, token, group>>
vars == <<up, closing, h, mem, disk, patch, upper, roots, mounts, exts, next,
          alive, client, token, group, written>>

Writes == Leases \cup {Direct}
Views  == 1 .. MaxViews

Ops       == LookupOps \cup {"release", "attach", "recover", "close", "none"}

\* Where a handler stands; a stage "write..." is about to write the metadata.
Stages == {"idle", "lookup", "have", "ready", "finish", "export", "cleanup",
           "remove", "restore", "writeUsed", "writeNew", "writeRestored",
           "writeAcquired", "writeAttached", "writeMarked", "writeSkipped",
           "writeCheckpoint", "writeFlushed", "writeFinished", "writeUnsaved",
           "writePreserved"}

CleanupSteps == {"mounts", "ext", "root"}

Idle      == [at |-> "idle", op |-> "none", lease |-> NoLease]
At(s)     == h.at = s
Goto(s)   == h' = [h EXCEPT !.at = s]
Return    == h' = Idle
\* As if closeSessions, on an error, left the session for another round.
FailAgain == Return
\* An error ends a request; closeSessions goes on to preserve the session.
Fail      == IF h.op = "close" THEN Goto("writePreserved") ELSE Return

NoSession == [reg |-> FALSE, root |-> 0, ext |-> 0, busy |-> FALSE,
              owner |-> NoOwner, lease |-> NoLease, group |-> NoLease,
              dirty |-> FALSE, gen |-> 0, durable |-> 0, view |-> 0,
              closed |-> FALSE, todo |-> {}, sum |-> {}, was |-> FALSE]
NoMeta    == [there |-> FALSE, root |-> 0, ext |-> 0, dirty |-> FALSE,
              gen |-> 0, durable |-> 0, view |-> 0, owner |-> NoOwner,
              group |-> NoLease, sum |-> {}]

\* daemonSessionMetaSnapshot: the lease and the closed flag are not persisted.
Snapshot(m) == [there |-> TRUE, root |-> m.root, ext |-> m.ext,
                dirty |-> m.dirty, gen |-> m.gen, durable |-> m.durable,
                view |-> m.view, owner |-> m.owner, group |-> m.group,
                sum |-> m.sum]

\* validateDaemonSessionMeta, the conditions that relate fields.
MetaValid(d) == /\ d.durable <= d.gen
                /\ ~d.dirty => d.gen = d.durable
                /\ d.group # NoLease => d.dirty

OwnerAlive(o)  == o \in alive
GroupAlive(g)  == g # NoLease /\ group[g] \in {"helper", "run", "quit"}
\* As if a command could not outlive the process that acquired the lease.
OnlyOwnerAlive(o, g)     == OwnerAlive(o)
MutationOwnerAlive(o, g) == OwnerAlive(o) \/ GroupAlive(g)

\* writeDaemonSessionMeta: refused when invalid; an I/O error may come before
\* the rename ("early") or after it, from the directory sync ("late").
WriteMeta(out) ==
  /\ out \in IF MetaValid(Snapshot(mem))
             THEN {"ok"} \cup (Faults \cap {"early", "late"})
             ELSE {"early"}
  /\ disk' = IF out = "early" THEN disk ELSE Snapshot(mem)
MetaResults == {"ok", "early", "late"}

\* TRUE unless the fault f is one that happens.
Works(f) == IF f \in Faults THEN BOOLEAN ELSE {TRUE}
-----------------------------------------------------------------------------
Init ==
  /\ up = FALSE /\ closing = FALSE /\ h = Idle /\ mem = NoSession
  /\ disk = NoMeta /\ patch = {}
  /\ upper = [v \in Views |-> {}]
  /\ roots = {} /\ mounts = {} /\ exts = {} /\ next = 1
  /\ alive = Owners
  /\ client = [u \in Leases |-> "idle"]
  /\ token = [u \in Leases |-> [view |-> 0, root |-> 0]]
  /\ group = [u \in Leases |-> "none"]
  /\ written = {}

(***************************************************************************)
(* The daemon process: start, SIGKILL, and the signal that begins a drain. *)
(* Mounts live in the host's mount namespace and survive the process.      *)
(***************************************************************************)
Start ==
  /\ ~up
  /\ up' = TRUE
  /\ UNCHANGED <<closing, h, mem, disk, fileVars, procVars, written>>

Stopped == up' = FALSE /\ closing' = FALSE /\ h' = Idle /\ mem' = NoSession

Crash ==
  /\ up
  /\ Stopped
  /\ UNCHANGED <<disk, fileVars, procVars, written>>

Signal ==
  /\ up /\ ~closing
  /\ closing' = TRUE
  /\ UNCHANGED <<up, h, mem, disk, fileVars, procVars, written>>
-----------------------------------------------------------------------------
(***************************************************************************)
(* Requests.  lockSession refuses everything but a release while closing.  *)
(***************************************************************************)
GateFree == up /\ h = Idle
Accepts  == GateFree /\ ~closing

BeginLookup(o) ==
  /\ Accepts
  /\ o = "mark" => (IF mem.reg THEN mem.gen ELSE disk.gen) < MaxGen
  /\ h' = [at |-> "lookup", op |-> o, lease |-> NoLease]
  /\ UNCHANGED <<up, closing, mem, disk, fileVars, procVars, written>>

\* acquire_exec names a live owner; a client repeats it until it is answered.
BeginAcquire(u) ==
  /\ Accepts
  /\ OwnerAlive(OwnerOf[u])
  /\ client[u] \in {"idle", "held"} /\ group[u] = "none"
  /\ h' = [at |-> "lookup", op |-> "acquire", lease |-> u]
  /\ UNCHANGED <<up, closing, mem, disk, fileVars, procVars, written>>

\* As if release did not wait for the command's processes.
ReleasableEarly(u, vg) == /\ mem.reg /\ ~mem.closed
                          /\ vg = 0 \/ vg = mem.view
                          /\ mem.busy /\ mem.lease = u
Releasable(u, vg) == /\ mem.reg /\ ~mem.closed
                     /\ vg = 0 \/ vg = mem.view
                     /\ mem.busy /\ mem.lease = u
                     /\ ~GroupAlive(mem.group)

\* release_exec: generation 0 stands for a lost answer.  From here on the
\* client makes no further change under the lease.
BeginRelease(u) ==
  /\ GateFree
  /\ client[u] \in {"held", "releasing"} \/ (client[u] = "idle" /\ mem.lease = u)
  /\ client' = [client EXCEPT ![u] = "releasing"]
  /\ \E vg \in {0, token[u].view} :
       IF Releasable(u, vg)
       THEN h' = [at |-> "finish", op |-> "release", lease |-> u]
       ELSE UNCHANGED h
  /\ UNCHANGED <<up, closing, mem, disk, fileVars, alive, token, group, written>>

\* As if the owner alone identified the holder.
AttachableByOwner(u) == /\ mem.reg /\ ~mem.closed /\ mem.busy
                        /\ token[u].view # 0 /\ token[u].view = mem.view
                        /\ mem.owner = OwnerOf[u] /\ OwnerAlive(mem.owner)
                        /\ mem.group \in {NoLease, u}
Attachable(u) == /\ mem.reg /\ ~mem.closed /\ mem.busy /\ mem.lease = u
                 /\ token[u].view # 0 /\ token[u].view = mem.view
                 /\ mem.owner = OwnerOf[u] /\ OwnerAlive(mem.owner)
                 /\ mem.group \in {NoLease, u}

\* attach_exec, sent by the exec-view helper before it runs the command.
BeginAttach(u) ==
  /\ Accepts
  /\ group[u] = "helper"
  /\ IF Attachable(u)
     THEN /\ mem' = [mem EXCEPT !.group = u]
          /\ h' = [at |-> "writeAttached", op |-> "attach", lease |-> u]
          /\ UNCHANGED group
     ELSE /\ group' = [group EXCEPT ![u] = "quit"]
          /\ UNCHANGED <<mem, h>>
  /\ UNCHANGED <<up, closing, disk, fileVars, alive, client, token, written>>

\* An answer the helper does not get makes it exit without running anything.
WriteAttached ==
  /\ At("writeAttached")
  /\ \E out \in MetaResults, delivered \in BOOLEAN :
       /\ WriteMeta(out)
       /\ group' = [group EXCEPT ![h.lease] =
                      IF @ # "helper" THEN @
                      ELSE IF out = "ok" /\ delivered THEN "run" ELSE "quit"]
  /\ Return
  /\ UNCHANGED <<up, closing, mem, fileVars, alive, client, token, written>>
-----------------------------------------------------------------------------
(***************************************************************************)
(* Lookup, restore and creation.                                           *)
(***************************************************************************)
FoundRegistered ==
  /\ At("lookup") /\ mem.reg
  /\ IF h.op \notin EnsureOps THEN Goto("have")
     ELSE IF mem.closed THEN Return ELSE Goto("writeUsed")
  /\ UNCHANGED <<up, closing, mem, disk, fileVars, procVars, written>>

\* The existing session's lastUsed is saved before the request goes on.
WriteUsed ==
  /\ At("writeUsed")
  /\ \E out \in MetaResults :
       WriteMeta(out) /\ IF out = "ok" THEN Goto("have") ELSE Return
  /\ UNCHANGED <<up, closing, mem, fileVars, procVars, written>>

NotFound ==
  /\ At("lookup") /\ ~mem.reg /\ ~disk.there /\ h.op \notin EnsureOps
  /\ Return
  /\ UNCHANGED <<up, closing, mem, disk, fileVars, procVars, written>>

\* What restoreSessionWithCheckpoint, the checkpoint's validation and the
\* checks on a reused root require of the metadata before building a view.
Restorable ==
  /\ disk.dirty => ~MutationOwnerAlive(disk.owner, disk.group)
  /\ ~disk.dirty => disk.root \notin roots /\ disk.sum = patch
  /\ disk.ext \notin exts
  /\ disk.dirty => /\ disk.root \in roots \ mounts
                   /\ BaseMode = "worktree"

\* As if a reopened root were given a new upper layer.
BuildViewAfresh(root) ==
  /\ mounts' = mounts \cup {root}
  /\ exts' = exts \cup {next}
  /\ roots' = roots \cup {root}
  /\ upper' = [upper EXCEPT ![root] = patch]
  /\ next' = next + 1
  /\ UNCHANGED patch

\* As if a new view were handed out before the patch is applied to it.
BuildViewBare(root) ==
  /\ mounts' = mounts \cup {root}
  /\ exts' = exts \cup {next}
  /\ roots' = roots \cup {root}
  /\ UNCHANGED <<upper, patch>>
  /\ next' = next + 1

\* The overlay over root, with its external root; only a new root gets the
\* patch applied, a dirty one keeps the upper layer it has.
BuildView(root) ==
  /\ mounts' = mounts \cup {root}
  /\ exts' = exts \cup {next}
  /\ roots' = roots \cup {root}
  /\ upper' = IF root \in roots THEN upper ELSE [upper EXCEPT ![root] = patch]
  /\ next' = next + 1
  /\ UNCHANGED patch

CreateNew ==
  /\ At("lookup") /\ ~mem.reg /\ ~disk.there /\ h.op \in EnsureOps
  /\ next <= MaxViews
  /\ BuildView(next)
  /\ mem' = [NoSession EXCEPT !.root = next, !.ext = next, !.view = 1,
                              !.todo = CleanupSteps, !.sum = patch]
  /\ Goto("writeNew")
  /\ UNCHANGED <<up, closing, disk, procVars, written>>

\* Only a session whose first metadata write succeeds enters the registry;
\* otherwise the creation is undone, as far as the cleanup succeeds.
WriteNew ==
  /\ At("writeNew")
  /\ \E out \in MetaResults, undone \in Works("cleanup") :
       /\ WriteMeta(out)
       /\ IF out = "ok"
          THEN /\ mem' = [mem EXCEPT !.reg = TRUE] /\ Goto("have")
               /\ UNCHANGED <<roots, mounts, exts>>
          ELSE /\ mem' = NoSession /\ Return
               /\ roots'  = IF undone THEN roots \ {mem.root} ELSE roots
               /\ mounts' = IF undone THEN mounts \ {mem.root} ELSE mounts
               /\ exts'   = IF undone THEN exts \ {mem.ext} ELSE exts
  /\ UNCHANGED <<up, closing, patch, upper, next, procVars, written>>

Restore ==
  /\ At("lookup") \/ At("restore")
  /\ ~mem.reg /\ disk.there /\ Restorable /\ next <= MaxViews
  /\ LET root == IF disk.dirty THEN disk.root ELSE next IN
       /\ BuildView(root)
       /\ mem' = [NoSession EXCEPT
                    !.reg = TRUE, !.root = root, !.ext = next,
                    !.dirty = disk.dirty, !.gen = disk.gen,
                    !.durable = disk.durable, !.view = disk.view + 1,
                    !.todo = CleanupSteps, !.sum = patch]
  /\ Goto("writeRestored")
  /\ UNCHANGED <<up, closing, disk, procVars, written>>

\* A restored session stays registered even when its metadata write fails.
WriteRestored ==
  /\ At("writeRestored")
  /\ \E out \in MetaResults :
       WriteMeta(out) /\ IF out = "ok" /\ h.op # "recover" THEN Goto("have")
                         ELSE Return
  /\ UNCHANGED <<up, closing, mem, fileVars, procVars, written>>

RestoreRefused ==
  /\ At("lookup") \/ At("restore")
  /\ ~mem.reg /\ disk.there /\ ~Restorable
  /\ Return
  /\ UNCHANGED <<up, closing, mem, disk, fileVars, procVars, written>>

\* A mount, git or filesystem step fails.  The cleanup that follows keeps a
\* reused upper layer, but may leave its mounts behind.
CreateFailed ==
  /\ At("lookup") \/ At("restore")
  /\ ~mem.reg
  /\ disk.there \/ h.op \in EnsureOps
  /\ "mount" \in Faults \/ next > MaxViews
  /\ Return
  /\ \E undone \in Works("cleanup") :
       mounts' = IF undone \/ ~(disk.there /\ disk.dirty /\ Restorable)
                 THEN mounts ELSE mounts \cup {disk.root}
  /\ UNCHANGED <<up, closing, mem, disk, patch, upper, roots, exts, next,
                 procVars, written>>
-----------------------------------------------------------------------------
(***************************************************************************)
(* Operations on a session that is found.                                  *)
(***************************************************************************)
EnsureDone ==
  /\ At("have") /\ h.op = "ensure"
  /\ Return
  /\ UNCHANGED <<up, closing, mem, disk, fileVars, procVars, written>>

MarkDirty ==
  /\ At("have") /\ h.op = "mark"
  /\ IF mem.closed \/ mem.busy
     THEN Return /\ UNCHANGED mem
     ELSE /\ mem' = [mem EXCEPT !.dirty = TRUE, !.gen = @ + 1]
          /\ Goto("writeMarked")
  /\ UNCHANGED <<up, closing, disk, fileVars, procVars, written>>

\* Once mark-dirty succeeds, the editor's change in the view is a promise.
WriteMarked ==
  /\ At("writeMarked")
  /\ \E out \in MetaResults :
       /\ WriteMeta(out)
       /\ written' = IF out = "ok"
                     THEN written \cup (upper[mem.root] \cap {Direct})
                     ELSE written
  /\ Return
  /\ UNCHANGED <<up, closing, mem, fileVars, procVars>>

\* recoverBusyLocked: the lease of a dead owner whose command group is gone.
RecoverBusy ==
  /\ At("have") /\ h.op \in {"acquire", "list", "flush", "end", "prune"}
  /\ CASE mem.closed /\ h.op = "flush" -> Return
       [] mem.closed /\ h.op = "end"   -> Goto("cleanup")
       [] OTHER -> IF mem.busy /\ ~MutationOwnerAlive(mem.owner, mem.group)
                   THEN Goto("finish") ELSE Goto("ready")
  /\ UNCHANGED <<up, closing, mem, disk, fileVars, procVars, written>>

\* writeSessionPatch: an I/O error may come before the rename that replaces
\* the patch ("patch") or after it, from the directory sync ("sync").
WritePatch(out) ==
  /\ out \in {"ok"} \cup (Faults \cap {"patch", "sync"})
  /\ patch' = IF out = "patch" THEN patch ELSE upper[mem.root]
PatchResults == {"ok", "patch", "sync"}

\* As if the generation saved were not recorded.
FinishedUncounted(exported, unmasked) ==
  [mem EXCEPT !.sum = IF exported THEN upper[mem.root] ELSE @,
              !.busy = ~unmasked,
              !.owner = IF unmasked THEN NoOwner ELSE @,
              !.lease = IF unmasked THEN NoLease ELSE @,
              !.group = IF unmasked THEN NoLease ELSE @,
              !.dirty = ~(exported /\ unmasked)]

\* The session once its lease is given up, which needs the masks removed.
Finished(exported, unmasked) ==
  [mem EXCEPT !.sum = IF exported THEN upper[mem.root] ELSE @,
              !.busy = ~unmasked,
              !.owner = IF unmasked THEN NoOwner ELSE @,
              !.lease = IF unmasked THEN NoLease ELSE @,
              !.group = IF unmasked THEN NoLease ELSE @,
              !.dirty = ~(exported /\ unmasked),
              !.durable = IF exported /\ unmasked THEN mem.gen ELSE @]

\* As if the error of the export were not returned.
FinishStageLenient(exported, unmasked) ==
  IF unmasked THEN "writeFinished" ELSE "writeUnsaved"
FinishStage(exported, unmasked) ==
  IF exported /\ unmasked THEN "writeFinished" ELSE "writeUnsaved"

\* finishBusyLocked up to its metadata write: export the view, unmask, and
\* give the lease up.
Finish ==
  /\ At("finish")
  /\ \E out \in PatchResults, unmasked \in Works("unmask") :
       /\ WritePatch(out)
       /\ mem' = Finished(out = "ok", unmasked)
       /\ Goto(FinishStage(out = "ok", unmasked))
  /\ UNCHANGED <<up, closing, disk, upper, roots, mounts, exts, next,
                 procVars, written>>

\* As if the result of the metadata write were dropped.
AfterFinishUnchecked(out) ==
  CASE h.op = "release" -> Return
    [] h.op = "close"   -> Goto("cleanup")
    [] OTHER            -> Goto("ready")
AfterFinish(out) ==
  IF out # "ok" THEN Fail
  ELSE CASE h.op = "release" -> Return
         [] h.op = "close"   -> Goto("cleanup")
         [] OTHER            -> Goto("ready")

\* A release that gets here is answered with success: its changes are saved.
WriteFinished ==
  /\ At("writeFinished")
  /\ \E out \in MetaResults, delivered \in BOOLEAN :
       /\ WriteMeta(out)
       /\ mem' = [mem EXCEPT !.dirty = (out # "ok")]
       /\ client' = IF out = "ok" /\ h.op = "release" /\ delivered
                    THEN [client EXCEPT ![h.lease] = "saved"] ELSE client
       /\ AfterFinish(out)
  /\ UNCHANGED <<up, closing, fileVars, alive, token, group, written>>

\* The write that records an unsaved session; its result changes nothing.
WriteUnsaved ==
  /\ At("writeUnsaved")
  /\ \E out \in MetaResults : WriteMeta(out)
  /\ Fail
  /\ UNCHANGED <<up, closing, mem, fileVars, procVars, written>>
-----------------------------------------------------------------------------
(***************************************************************************)
(* acquire_exec, once the previous lease is out of the way.                *)
(***************************************************************************)
\* The client may be gone, or have given up waiting, when the answer comes.
Answer(u) ==
  \/ UNCHANGED <<client, token>>
  \/ /\ OwnerAlive(OwnerOf[u])
     /\ client' = [client EXCEPT ![u] = "held"]
     /\ token' = [token EXCEPT ![u] = [view |-> mem.view, root |-> mem.root]]

\* As if any lease of the same owner passed for the one granted.
SameOwner(u)  == mem.owner = OwnerOf[u]
SameHolder(u) == mem.lease = u /\ mem.owner = OwnerOf[u]

AcquireBusy ==
  /\ At("ready") /\ h.op = "acquire" /\ mem.busy
  /\ IF SameHolder(h.lease)
     THEN Answer(h.lease)
     ELSE UNCHANGED <<client, token>>
  /\ Return
  /\ UNCHANGED <<up, closing, mem, disk, fileVars, alive, group, written>>

\* abortAcquire: masks that cannot be removed leave the session busy.
AcquireAborted ==
  /\ At("ready") /\ h.op = "acquire" /\ ~mem.busy
  /\ "mask" \in Faults
  /\ \E unmasked \in Works("unmask") :
       IF unmasked THEN Return /\ UNCHANGED mem
       ELSE /\ mem' = [mem EXCEPT !.busy = TRUE, !.owner = NoOwner,
                                  !.dirty = TRUE]
            /\ Goto("writeUnsaved")
  /\ UNCHANGED <<up, closing, disk, fileVars, procVars, written>>

Grant ==
  /\ At("ready") /\ h.op = "acquire" /\ ~mem.busy
  /\ mem' = [mem EXCEPT !.busy = TRUE, !.owner = OwnerOf[h.lease],
                        !.lease = h.lease, !.gen = @ + 1,
                        !.was = mem.dirty, !.dirty = TRUE]
  /\ Goto("writeAcquired")
  /\ UNCHANGED <<up, closing, disk, fileVars, procVars, written>>

RolledBack == [mem EXCEPT !.busy = FALSE, !.owner = NoOwner,
                          !.lease = NoLease, !.gen = @ - 1,
                          !.dirty = mem.was, !.was = FALSE]

\* The lease is handed out only after it is recorded; if it cannot be, the
\* grant is rolled back unless the masks cannot be removed.
WriteAcquired ==
  /\ At("writeAcquired")
  /\ \E out \in MetaResults, unmasked \in Works("unmask") :
       /\ WriteMeta(out)
       /\ mem' = IF out = "ok" \/ ~unmasked THEN [mem EXCEPT !.was = FALSE]
                 ELSE RolledBack
       /\ IF out = "ok" THEN Answer(h.lease)
          ELSE UNCHANGED <<client, token>>
  /\ Return
  /\ UNCHANGED <<up, closing, fileVars, alive, group, written>>
-----------------------------------------------------------------------------
(***************************************************************************)
(* flush, end, prune and the shutdown of one session.                      *)
(***************************************************************************)
\* Busy sessions are left alone, as are those prune finds too recently used.
LeftAlone ==
  /\ At("ready")
  /\ \/ h.op = "list"
     \/ h.op \in {"flush", "end", "prune"} /\ mem.busy
     \/ h.op = "prune"
  /\ Return
  /\ UNCHANGED <<up, closing, mem, disk, fileVars, procVars, written>>

\* flush --min-age: the skip is counted in the metadata, nothing is saved.
SkipFlush ==
  /\ At("ready") /\ h.op = "flush" /\ ~mem.busy
  /\ Goto("writeSkipped")
  /\ UNCHANGED <<up, closing, mem, disk, fileVars, procVars, written>>

WriteSkipped ==
  /\ At("writeSkipped")
  /\ \E out \in MetaResults : WriteMeta(out)
  /\ Return
  /\ UNCHANGED <<up, closing, mem, fileVars, procVars, written>>

\* As if the save in progress were not recorded first.
BeginFlushUnmarked ==
  /\ At("ready") /\ h.op \in {"flush", "end", "prune", "close"} /\ ~mem.busy
  /\ IF mem.closed THEN Goto("cleanup") /\ UNCHANGED mem
     ELSE /\ mem' = [mem EXCEPT !.dirty = TRUE]
          /\ Goto("export")
  /\ UNCHANGED <<up, closing, disk, fileVars, procVars, written>>

BeginFlush ==
  /\ At("ready") /\ h.op \in {"flush", "end", "prune", "close"} /\ ~mem.busy
  /\ IF mem.closed THEN Goto("cleanup") /\ UNCHANGED mem
     ELSE /\ mem' = [mem EXCEPT !.dirty = TRUE]
          /\ Goto("writeCheckpoint")
  /\ UNCHANGED <<up, closing, disk, fileVars, procVars, written>>

\* The save in progress is recorded before the patch is replaced.
WriteCheckpoint ==
  /\ At("writeCheckpoint")
  /\ \E out \in MetaResults :
       WriteMeta(out) /\ IF out = "ok" THEN Goto("export") ELSE Fail
  /\ UNCHANGED <<up, closing, mem, fileVars, procVars, written>>

Export ==
  /\ At("export")
  /\ \E out \in PatchResults :
       /\ WritePatch(out)
       /\ IF out = "ok"
          THEN /\ mem' = [mem EXCEPT !.sum = upper[mem.root], !.dirty = FALSE,
                                     !.durable = mem.gen]
               /\ Goto("writeFlushed")
          ELSE Goto("writeUnsaved") /\ UNCHANGED mem
  /\ UNCHANGED <<up, closing, disk, upper, roots, mounts, exts, next,
                 procVars, written>>

WriteFlushed ==
  /\ At("writeFlushed")
  /\ \E out \in MetaResults :
       /\ WriteMeta(out)
       /\ IF out # "ok" THEN mem' = [mem EXCEPT !.dirty = TRUE] /\ Fail
          ELSE CASE h.op = "flush" -> Return /\ UNCHANGED mem
                 [] h.op = "close" -> Goto("cleanup") /\ UNCHANGED mem
                 [] OTHER -> mem' = [mem EXCEPT !.closed = TRUE] /\ Goto("cleanup")
  /\ UNCHANGED <<up, closing, fileVars, procVars, written>>

\* As if the root were removed without looking for mounts under it.
RemovableBlindly(mounted) == TRUE
\* RemoveAll refuses a root that has mounts.
Removable(mounted) == mem.root \notin mounted

\* cleanupStack.Run: every remaining step is tried, a failed one is kept for
\* a retry.
RunCleanup ==
  /\ At("cleanup")
  /\ \E done \in SUBSET mem.todo :
       /\ done = mem.todo \/ "cleanup" \in Faults
       /\ mounts' = IF "mounts" \in done THEN mounts \ {mem.root} ELSE mounts
       /\ "root" \in done => Removable(mounts')
       /\ roots' = IF "root" \in done THEN roots \ {mem.root} ELSE roots
       /\ exts' = IF "ext" \in done THEN exts \ {mem.ext} ELSE exts
       /\ IF done # mem.todo
          THEN /\ mem' = [mem EXCEPT !.todo = @ \ done]
               /\ IF h.op = "close" THEN Fail ELSE Goto("writeUnsaved")
               /\ UNCHANGED <<up, closing>>
          ELSE IF h.op = "close" THEN Stopped
          ELSE /\ mem' = [mem EXCEPT !.todo = {}]
               /\ Goto("remove")
               /\ UNCHANGED <<up, closing>>
  /\ UNCHANGED <<disk, patch, upper, next, procVars, written>>

\* The session leaves the registry only after its metadata is durably gone.
RemoveMeta ==
  /\ At("remove")
  /\ \/ disk' = NoMeta /\ mem' = NoSession
     \/ /\ "cleanup" \in Faults
        /\ disk' \in {disk, NoMeta}
        /\ UNCHANGED mem
  /\ Return
  /\ UNCHANGED <<up, closing, fileVars, procVars, written>>

\* As if only a lease made a session worth saving.
CloseStageForgetful ==
  IF ~mem.closed /\ mem.busy
  THEN IF MutationOwnerAlive(mem.owner, mem.group)
       THEN "writePreserved" ELSE "finish"
  ELSE "cleanup"
\* Where the shutdown of a registered session begins.
CloseStage ==
  IF ~mem.closed /\ mem.busy
  THEN IF MutationOwnerAlive(mem.owner, mem.group)
       THEN "writePreserved" ELSE "finish"
  ELSE IF ~mem.closed /\ mem.dirty THEN "ready" ELSE "cleanup"

\* closeSessions, once the drain ends or times out.
BeginClose ==
  /\ GateFree /\ closing
  /\ IF ~mem.reg THEN Stopped
     ELSE /\ h' = [at |-> CloseStage, op |-> "close", lease |-> NoLease]
          /\ UNCHANGED <<up, closing, mem>>
  /\ UNCHANGED <<disk, fileVars, procVars, written>>

\* A session that cannot be saved or cleaned up is left for recovery.
WritePreserved ==
  /\ At("writePreserved")
  /\ \E out \in MetaResults : WriteMeta(out)
  /\ Stopped
  /\ UNCHANGED <<fileVars, procVars, written>>

\* As if recovery removed the root of an unsaved session too.
DiscardsAnyRoot(steps) == "root" \in steps
DiscardsRoot(steps)    == "root" \in steps /\ ~disk.dirty

\* recoverSession: after the liveness and checksum checks, unmount the root,
\* remove it if clean, remove the external root, then restore.  An error
\* leaves the steps before it done.
Recover ==
  /\ Accepts /\ ~mem.reg /\ disk.there
  /\ ~MutationOwnerAlive(disk.owner, disk.group)
  /\ disk.dirty => disk.root \in roots
  /\ ~disk.dirty => disk.sum = patch
  /\ \E steps \in SUBSET CleanupSteps :
       /\ steps = CleanupSteps \/ "cleanup" \in Faults
       /\ "ext" \in steps => "root" \in steps
       /\ "root" \in steps => "mounts" \in steps
       /\ mounts' = IF "mounts" \in steps THEN mounts \ {disk.root} ELSE mounts
       /\ roots' = IF DiscardsRoot(steps) THEN roots \ {disk.root} ELSE roots
       /\ exts' = IF "ext" \in steps THEN exts \ {disk.ext} ELSE exts
       /\ h' = IF steps = CleanupSteps
               THEN [at |-> "restore", op |-> "recover", lease |-> NoLease]
               ELSE Idle
  /\ UNCHANGED <<up, closing, mem, disk, patch, upper, next, procVars, written>>
-----------------------------------------------------------------------------
(***************************************************************************)
(* The processes the daemon serves.                                        *)
(***************************************************************************)
OwnerDies(o) ==
  /\ o \in alive
  /\ alive' = alive \ {o}
  /\ UNCHANGED <<daemonVars, disk, fileVars, client, token, group, written>>

\* runDaemonExec starts the exec-view helper in a process group of its own.
SpawnHelper(u) ==
  /\ client[u] = "held" /\ OwnerAlive(OwnerOf[u]) /\ group[u] = "none"
  /\ group' = [group EXCEPT ![u] = "helper"]
  /\ UNCHANGED <<daemonVars, disk, fileVars, alive, client, token, written>>

\* The last process of the group exits or is killed.
GroupEnds(u) ==
  /\ group[u] \in {"helper", "run", "quit"}
  /\ group' = [group EXCEPT ![u] = "dead"]
  /\ UNCHANGED <<daemonVars, disk, fileVars, alive, client, token, written>>

\* u's holder may change the view: a file tool, or the attached command.
Active(u) == \/ client[u] = "held" /\ OwnerAlive(OwnerOf[u]) /\ group[u] = "none"
             \/ group[u] = "run"

Write(u) ==
  /\ Active(u)
  /\ u \notin written
  /\ upper' = [upper EXCEPT ![token[u].root] = @ \cup {u}]
  /\ written' = written \cup {u}
  /\ UNCHANGED <<daemonVars, disk, patch, roots, mounts, exts, next, procVars>>

\* An editor that holds no lease changes the mounted view.
DirectWrite ==
  /\ "mark" \in Requests
  /\ mem.reg /\ mem.root \in mounts
  /\ Direct \notin upper[mem.root]
  /\ upper' = [upper EXCEPT ![mem.root] = @ \cup {Direct}]
  /\ UNCHANGED <<daemonVars, disk, patch, roots, mounts, exts, next, procVars,
                 written>>
-----------------------------------------------------------------------------
HandlerStep ==
  \/ WriteAttached \/ FoundRegistered \/ WriteUsed \/ NotFound \/ CreateNew
  \/ WriteNew \/ Restore \/ WriteRestored \/ RestoreRefused \/ CreateFailed
  \/ EnsureDone \/ MarkDirty \/ WriteMarked \/ RecoverBusy \/ Finish
  \/ WriteFinished \/ WriteUnsaved \/ AcquireBusy \/ AcquireAborted \/ Grant
  \/ WriteAcquired \/ LeftAlone \/ SkipFlush \/ WriteSkipped \/ BeginFlush
  \/ WriteCheckpoint \/ Export \/ WriteFlushed \/ RunCleanup \/ RemoveMeta
  \/ WritePreserved

Request ==
  \/ \E o \in Requests \ {"acquire"} : BeginLookup(o)
  \/ \E u \in Leases : BeginAcquire(u) \/ BeginRelease(u) \/ BeginAttach(u)
  \/ Recover

Process ==
  \/ \E o \in Owners : OwnerDies(o)
  \/ \E u \in Leases : SpawnHelper(u) \/ GroupEnds(u) \/ Write(u)
  \/ DirectWrite

Next == Start \/ Crash \/ Signal \/ Request \/ BeginClose \/ HandlerStep \/ Process

Spec == Init /\ [][Next]_vars

\* A handler's steps are a goroutine's, bounded by the request timeout.  The
\* shutdown loop blocks on the gate, a channel whose senders are served in
\* turn, once the bounded drain is over: requests delay it, none bars it.
FairSpec == Spec /\ WF_vars(HandlerStep) /\ SF_vars(BeginClose)
-----------------------------------------------------------------------------
HandlerType == [at : Stages, op : Ops, lease : Leases \cup {NoLease}]

SessionType == [reg : BOOLEAN, root : 0 .. MaxViews, ext : 0 .. MaxViews,
                busy : BOOLEAN, owner : Owners \cup {NoOwner},
                lease : Leases \cup {NoLease}, group : Leases \cup {NoLease},
                dirty : BOOLEAN, gen : Nat, durable : Nat, view : Nat,
                closed : BOOLEAN, todo : SUBSET CleanupSteps,
                sum : SUBSET Writes, was : BOOLEAN]

MetaType == [there : BOOLEAN, root : 0 .. MaxViews, ext : 0 .. MaxViews,
             dirty : BOOLEAN, gen : Nat, durable : Nat, view : Nat,
             owner : Owners \cup {NoOwner}, group : Leases \cup {NoLease},
             sum : SUBSET Writes]

TokenType == [view : Nat, root : 0 .. MaxViews]

(***************************************************************************)
(* The type invariant.  It also says that only an existing root carries a  *)
(* mount: a session root is never removed under its overlay.               *)
(***************************************************************************)
TypeOK ==
  /\ up \in BOOLEAN /\ closing \in BOOLEAN
  /\ h \in HandlerType /\ mem \in SessionType /\ disk \in MetaType
  /\ patch \in SUBSET Writes /\ written \in SUBSET Writes
  /\ upper \in [Views -> SUBSET Writes]
  /\ roots \in SUBSET Views /\ mounts \in SUBSET roots /\ exts \in SUBSET Views
  /\ next \in 1 .. MaxViews + 1
  /\ alive \in SUBSET Owners
  /\ client \in [Leases -> {"idle", "held", "releasing", "saved"}]
  /\ token \in [Leases -> TokenType]
  /\ group \in [Leases -> {"none", "helper", "run", "quit", "dead"}]

\* The upper layer the metadata retains for recovery.
Retained == IF disk.there /\ disk.dirty /\ disk.root \in roots
            THEN upper[disk.root] ELSE {}

(***************************************************************************)
(* Nothing a lease holder wrote, and nothing mark-dirty acknowledged, is   *)
(* lost: at every moment, with the daemon up or killed, it is in the patch *)
(* or in an upper layer that the metadata file names as unsaved.           *)
(***************************************************************************)
NothingLost == written \subseteq patch \cup Retained

(***************************************************************************)
(* A process that may write is on record: the metadata file names its view *)
(* as dirty and names its owner, or its process group once it runs a       *)
(* command, so that no later daemon takes the view over from it.           *)
(***************************************************************************)
WriterRecorded ==
  \A u \in Leases : Active(u) =>
    /\ disk.there /\ disk.dirty
    /\ disk.root = token[u].root /\ disk.root \in roots
    /\ IF group[u] = "run" THEN disk.group = u ELSE disk.owner = OwnerOf[u]

(***************************************************************************)
(* The mutation lease is exclusive, across daemon restarts as well.        *)
(***************************************************************************)
OneWriter == \A u, v \in Leases : Active(u) /\ Active(v) => u = v

(***************************************************************************)
(* A successful release means saved: the changes made under the lease are  *)
(* in the patch from then on.                                              *)
(***************************************************************************)
ReleasedIsSaved ==
  \A u \in Leases : client[u] = "saved" /\ u \in written => u \in patch

(***************************************************************************)
(* A handler never composes metadata that its own validation would refuse  *)
(* (daemon_metadata.go), which would turn a save into a permanent error.   *)
(***************************************************************************)
WritesValidMeta ==
  h.at \notin {"idle", "lookup", "have", "ready", "finish", "export",
               "cleanup", "remove", "restore"} => MetaValid(Snapshot(mem))

(***************************************************************************)
(* An attached command runs in the view its lease was granted for, and the *)
(* session is still that lease's: no release, recovery or other client     *)
(* takes it while the command's group lives.                               *)
(***************************************************************************)
RunsInItsView ==
  \A u \in Leases : group[u] = "run" /\ mem.reg =>
    /\ mem.view = token[u].view /\ mem.root = token[u].root
    /\ mem.busy /\ mem.lease = u /\ mem.group = u

(***************************************************************************)
(* A save never drops what the patch already holds, whatever upper layer   *)
(* it exports.                                                             *)
(***************************************************************************)
PatchOnlyGrows == [][patch \subseteq patch']_vars

(***************************************************************************)
(* A session root is removed only when what was written to it is saved and *)
(* nobody may still write to it.                                           *)
(***************************************************************************)
RemovedOnlyWhenSaved ==
  [][\A r \in roots \ roots' :
       /\ upper[r] \cap written \subseteq patch
       /\ \A u \in Leases : Active(u) => token[u].root # r]_vars

(***************************************************************************)
(* The view is exported and unmounted only while nobody may write to it.   *)
(***************************************************************************)
SavesAQuietView ==
  [][patch' # patch \/ mounts \ mounts' # {} => \A u \in Leases : ~Active(u)]_vars

(***************************************************************************)
(* A session recorded as unsaved can be reopened: metadata that says dirty *)
(* names a root that still exists, whatever failed before.                 *)
(***************************************************************************)
DirtyHasUpper == disk.there /\ disk.dirty => disk.root \in roots

(***************************************************************************)
(* A session recorded as saved can be restored: metadata that says clean   *)
(* carries the checksum of the patch that is there, since a save is marked *)
(* in progress before it replaces the patch (flushSessionLocked).          *)
(***************************************************************************)
CleanHasPatch == disk.there /\ ~disk.dirty => disk.sum = patch

(***************************************************************************)
(* A daemon told to terminate does: neither a live lease holder, nor       *)
(* clients that go on releasing, nor a failed save keep closeSessions from *)
(* ending, with the session saved or preserved.                            *)
(***************************************************************************)
ShutdownEnds == closing ~> ~up
=============================================================================
