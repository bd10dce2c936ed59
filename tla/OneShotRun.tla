----------------------------- MODULE OneShotRun -----------------------------
(***************************************************************************)
(* "persona [run] -- command": runs that lock a patch, build a view in a   *)
(* private mount namespace, apply the patch, run a command, export the     *)
(* view, save the patch and undo what they made (run_with_options.go,      *)
(* mount_env.go, command_exec.go, the cleanup stack of pathutil.go).       *)
(*                                                                         *)
(* The patch is the register that PatchFile implements.  A run's setup is  *)
(* a list of steps; each may fail, and what it has pushed on the cleanup   *)
(* stack by then is all that undoes it.  A run may be killed at any time.  *)
(***************************************************************************)
EXTENDS Integers, Sequences

CONSTANTS
  Runs,     \* runs of the command line that use the same patch
  NoRun,    \* the holder of the free patch lock
  OptionsOf \* the options that each run may have

\* keep: --keep-session.  base: --base-mode.  hides: the session root lies
\* under the repository, so that the overlay mounted there hides it.
OptionType == [keep : {"on-fail", "always", "never"}, base : {"repo", "worktree"},
               hides : BOOLEAN]

ASSUME RunAssumption ==
  /\ NoRun \notin Runs
  /\ OptionsOf \in [Runs -> (SUBSET OptionType) \ {{}}]

VARIABLES
  patch, \* the changes in the patch, named by the run that made them
  lock,  \* who holds the patch's lock
  run    \* the runs

vars == <<patch, lock, run>>

\* The order of runOnNamespaceThread, and what follows each step.
After == [lock |-> "create", create |-> "base", base |-> "ext", ext |-> "gitdir",
          gitdir |-> "lower", lower |-> "overlay", overlay |-> "apply",
          apply |-> "ignored", ignored |-> "hide", hide |-> "start"]
Setup == DOMAIN After
Late  == {"start", "command", "reap", "unmask", "export", "save"}

\* ignored and hide put masks on ignored files, on .git and on a patch inside
\* the repository.  No step asks whether they are there: they are not recorded.
Mounts == {"git", "lower", "overlay"}

\* Which mount a step makes, and which directory.
MountOf(s) == CASE s = "gitdir" -> {"git"}
                [] s \in Mounts -> {s}
                [] OTHER -> {}
DirOf(s, o) == CASE s = "create" -> {"root"} [] s = "ext" -> {"ext"}
                 [] s = "base" /\ o.base = "worktree" -> {"worktree"}
                 [] OTHER -> {}

\* What a step pushes.  The masks' entry comes with the overlay's, before
\* there is any mask, and unmounts those that are recorded by then.
\* As if the external directory were pushed together with its first mount.
PushedLate(s, o) == CASE s = "gitdir" -> <<"ext", "git">>
                      [] s = "ext" -> <<>>
                      [] s \in {"lock", "lower"} -> <<s>>
                      [] s = "create" -> <<"root">>
                      [] s = "base" /\ o.base = "worktree" -> <<"worktree">>
                      [] s = "overlay" -> <<"overlay", "masks">>
                      [] OTHER -> <<>>
Pushed(s, o) == CASE s \in {"lock", "ext", "lower"} -> <<s>>
                  [] s = "create" -> <<"root">>
                  [] s = "base" /\ o.base = "worktree" -> <<"worktree">>
                  [] s = "gitdir" -> <<"git">>
                  [] s = "overlay" -> <<"overlay", "masks">>
                  [] OTHER -> <<>>

\* A run of which nothing has been done yet.
New(o) == [at |-> "new", opts |-> o, stack |-> <<>>, mounts |-> {}, dirs |-> {},
           view |-> {}, wrote |-> FALSE, group |-> "none",
           res |-> "none", bad |-> FALSE]

Init == /\ patch = {} /\ lock = NoRun
        /\ \E opts \in [Runs -> UNION {OptionsOf[r] : r \in Runs}] :
             /\ \A r \in Runs : opts[r] \in OptionsOf[r]
             /\ run = [r \in Runs |-> New(opts[r])]

Become(r, x) == run' = [run EXCEPT ![r] = x]
At(r, s)     == run[r].at = s
-----------------------------------------------------------------------------
Begin(r) ==
  /\ At(r, "new")
  /\ Become(r, [run[r] EXCEPT !.at = "lock"])
  /\ UNCHANGED <<patch, lock>>

\* As if the lock file were only opened.
LockOpen == TRUE
LockFree == lock = NoRun

\* The patch lock is taken before anything is read and given back last.
Lock(r) ==
  /\ At(r, "lock") /\ LockFree
  /\ lock' = r
  /\ Become(r, [run[r] EXCEPT !.at = After["lock"], !.stack = Pushed("lock", run[r].opts)])
  /\ UNCHANGED patch

\* Every other step of the setup.  Applying the patch fills the view.
Advance(r) ==
  /\ run[r].at \in Setup \ {"lock"}
  /\ LET s == run[r].at
         o == run[r].opts IN
     Become(r, [run[r] EXCEPT !.at = After[s],
                  !.stack = @ \o Pushed(s, o),
                  !.mounts = @ \cup MountOf(s),
                  !.dirs = @ \cup DirOf(s, o),
                  !.view = IF s = "apply" THEN patch ELSE @])
  /\ UNCHANGED <<patch, lock>>

\* Nothing reads the view any more.
Return(r, x, res) == Become(r, [x EXCEPT !.at = "cleanup", !.view = {}, !.res = res])

\* A step of the setup fails, or finds its context cancelled by a signal.  A
\* session root may be left half made.
SetupFails(r) ==
  /\ run[r].at \in Setup
  /\ \/ Return(r, run[r], "error")
     \/ /\ At(r, "create")
        /\ Return(r, [run[r] EXCEPT !.dirs = {"unmarked"}], "error")
  /\ UNCHANGED <<patch, lock>>
-----------------------------------------------------------------------------
\* The command cannot be started: the run goes on with exit status 127.
NotStarted(r) ==
  /\ At(r, "start")
  /\ Become(r, [run[r] EXCEPT !.at = "unmask"])
  /\ UNCHANGED <<patch, lock>>

Start(r) ==
  /\ At(r, "start")
  /\ Become(r, [run[r] EXCEPT !.at = "command", !.group = "alive"])
  /\ UNCHANGED <<patch, lock>>

\* The command changes the view.
Write(r) ==
  /\ run[r].group = "alive" /\ ~run[r].wrote
  /\ Become(r, [run[r] EXCEPT !.wrote = TRUE, !.view = @ \cup {r}])
  /\ UNCHANGED <<patch, lock>>

\* cmd.Wait returns; others of its process group may still run.
LeaderExits(r) ==
  /\ At(r, "command")
  /\ \E g \in {"alive", "gone"} : Become(r, [run[r] EXCEPT !.at = "reap", !.group = g])
  /\ UNCHANGED <<patch, lock>>

\* Nobody makes it end.
GroupGone(r) ==
  /\ At(r, "reap") /\ run[r].group = "alive"
  /\ Become(r, [run[r] EXCEPT !.group = "gone"])
  /\ UNCHANGED <<patch, lock>>

\* As if the group were waited for.
GoneOnly == {"gone"}
Reaped   == {"gone", "alive"}

\* SIGTERM, 200 ms, SIGKILL, at most twenty probes: a group that no signal ends
\* is left to itself, and what it still writes may be in the patch or not: it
\* is not followed any further.
ProbesDone(r) ==
  /\ At(r, "reap") /\ run[r].group \in Reaped
  /\ Become(r, [run[r] EXCEPT !.at = "unmask", !.group = "none"])
  /\ UNCHANGED <<patch, lock>>

Unmask(r) ==
  /\ At(r, "unmask")
  /\ Become(r, [run[r] EXCEPT !.at = "export"])
  /\ UNCHANGED <<patch, lock>>

\* From the view, which nothing changes now, to a temporary file.
Export(r) ==
  /\ At(r, "export")
  /\ Become(r, [run[r] EXCEPT !.at = "save"])
  /\ UNCHANGED <<patch, lock>>

\* The export or the write fails, or unmounting the masks on .git or the patch.
LateFails(r) ==
  /\ run[r].at \in {"unmask", "export", "save"}
  /\ Return(r, run[r], "error")
  /\ UNCHANGED <<patch, lock>>

Save(r) ==
  /\ At(r, "save")
  /\ patch' = run[r].view
  /\ Return(r, run[r], "ok")
  /\ UNCHANGED lock

\* Replaced, but the directory could not be synced.
SaveUnsynced(r) ==
  /\ At(r, "save")
  /\ patch' = run[r].view
  /\ Return(r, run[r], "error")
  /\ UNCHANGED lock
-----------------------------------------------------------------------------
(***************************************************************************)
(* cleanupStack.Run: from the top, each step once, whatever fails.         *)
(***************************************************************************)
\* shouldRemoveSession, with the error that the run returns.
\* As if the error were looked at when the step is pushed.
RemovesEarly(r) == run[r].opts.keep # "always"
Removes(r) == \/ run[r].opts.keep = "never"
              \/ run[r].opts.keep = "on-fail" /\ run[r].res = "ok"

\* cleanupUnmounted and Session.RemoveAll read the mount table first, where
\* a mount shows even when another one hides it.
\* As if a directory whose unmount was tried could be removed.
TriedIsFree(r, d) == TRUE
Unmounted(r, d) == (IF d = "ext" THEN "git" ELSE "lower") \notin run[r].mounts

\* ns.Umount says nothing of a path that is no mount point: so it is with the
\* lower directory when the overlay that hides it is still there, except that
\* the .git of a worktree is a file.
Hidden(r) == run[r].opts.hides /\ "overlay" \in run[r].mounts

\* What each step may leave: the mounts and directories, and whether it failed.
Unmounts(r, ms) ==
  {[mounts |-> run[r].mounts \ ms, dirs |-> run[r].dirs, bad |-> FALSE],
   [mounts |-> run[r].mounts, dirs |-> run[r].dirs, bad |-> TRUE]}
Deletes(r, d) ==
  {[mounts |-> run[r].mounts, dirs |-> run[r].dirs, bad |-> TRUE]} \cup
  IF Unmounted(r, d)
  THEN {[mounts |-> run[r].mounts, bad |-> FALSE,
         dirs |-> run[r].dirs \ (IF d = "root" THEN {"root", "worktree"} ELSE {d})]}
  ELSE {}

Outcomes(r, c) ==
  LET same == [mounts |-> run[r].mounts, dirs |-> run[r].dirs, bad |-> FALSE] IN
  CASE c = "masks"   -> {[same EXCEPT !.bad = b] : b \in BOOLEAN}
    [] c = "overlay" -> Unmounts(r, {"overlay"})
    [] c = "lower"   -> IF Hidden(r)
                        THEN {[same EXCEPT !.bad = run[r].opts.base = "worktree"]}
                        ELSE Unmounts(r, {"lower"})
    [] c = "git"     -> Unmounts(r, {"git"})
    [] c = "ext"     -> Deletes(r, "ext")
    [] c \in {"root", "worktree"} -> IF Removes(r) THEN Deletes(r, c) ELSE {same}
    [] c = "lock"    -> {same}

Top(r) == run[r].stack[Len(run[r].stack)]

Cleanup(r) ==
  /\ At(r, "cleanup") /\ run[r].stack # <<>>
  /\ \E o \in Outcomes(r, Top(r)) :
       Become(r, [run[r] EXCEPT !.stack = SubSeq(@, 1, Len(@) - 1),
                    !.mounts = o.mounts, !.dirs = o.dirs, !.bad = @ \/ o.bad])
  /\ lock' = IF Top(r) = "lock" THEN NoRun ELSE lock
  /\ UNCHANGED patch

\* What is left of a run: its namespace, with all mounts, ends with it.
Gone(r, how, res, bad) ==
  Become(r, [New(run[r].opts) EXCEPT !.at = how, !.dirs = run[r].dirs,
               !.wrote = run[r].wrote, !.res = res, !.bad = bad])

\* A step of the cleanup that failed turns success into an error.
End(r) ==
  /\ At(r, "cleanup") /\ run[r].stack = <<>>
  /\ Gone(r, "done", IF run[r].bad THEN "error" ELSE run[r].res, run[r].bad)
  /\ UNCHANGED <<patch, lock>>

\* SIGKILL: the kernel takes the lock and the mounts, the directories stay.
Kill(r) ==
  /\ run[r].at \notin {"new", "done", "dead"}
  /\ Gone(r, "dead", "none", FALSE)
  /\ lock' = IF lock = r THEN NoRun ELSE lock
  /\ UNCHANGED patch
-----------------------------------------------------------------------------
Step(r) == \/ Advance(r) \/ Unmask(r) \/ Export(r) \/ Save(r) \/ Cleanup(r) \/ End(r)
           \/ ProbesDone(r)
Fails(r) == SetupFails(r) \/ LateFails(r) \/ SaveUnsynced(r)
Command(r) == NotStarted(r) \/ Start(r) \/ Write(r) \/ LeaderExits(r) \/ GroupGone(r)

Next == \E r \in Runs : Begin(r) \/ Lock(r) \/ Step(r) \/ Fails(r) \/ Command(r) \/ Kill(r)

\* A run takes its steps; what the command does is up to it.
Fairness == \A r \in Runs : WF_vars(Step(r))

Spec == Init /\ [][Next]_vars
FairSpec == Spec /\ Fairness
-----------------------------------------------------------------------------
Entries == {"lock", "root", "worktree", "ext", "git", "lower", "overlay", "masks"}

RunType == [at : {"new", "cleanup", "done", "dead"} \cup Setup \cup Late,
            opts : OptionType, stack : Seq(Entries), mounts : SUBSET Mounts,
            dirs : SUBSET {"root", "worktree", "ext", "unmarked"},
            view : SUBSET Runs, wrote : BOOLEAN,
            group : {"none", "alive", "gone"},
            res : {"none", "ok", "error"}, bad : BOOLEAN]

\* The type invariant.  The lock is held exactly by the run that has its
\* release on its stack.
TypeOK ==
  /\ patch \subseteq Runs
  /\ lock \in Runs \cup {NoRun}
  /\ run \in [Runs -> RunType]
  /\ \A r \in Runs : lock = r <=> run[r].stack # <<>>

\* "A prior unmount failure must never turn recursive cleanup into deletion
\* of a bind mount's source" (mount_env.go): the session root and the worktree
\* go only when the lower directory, which may be the repository itself, is
\* not mounted there, and the external directory when the git directory is not.
SourcesSafe ==
  [][\A r \in Runs : \A d \in run[r].dirs \ run'[r].dirs :
       run[r].mounts \cap (IF d = "ext" THEN {"git"} ELSE {"lower"}) = {}]_vars

\* Runs that share a patch never lose each other's changes.
PatchAccumulates == [][patch \subseteq patch']_vars

\* What the command of a run has changed is in the patch or still in the upper
\* layer of its session root, however the run ended, unless it was told to keep
\* nothing.
WorkKept ==
  \A r \in Runs : run[r].wrote =>
    \/ r \in patch
    \/ "root" \in run[r].dirs
    \/ run[r].opts.keep = "never"

\* A run that returns without an error has saved what its command wrote before
\* its process group was found gone, and has left nothing behind but what it was
\* told to keep; one that fails leaves no external directory or mount behind
\* either when no step of the cleanup fails.
CleanExit ==
  \A r \in Runs : At(r, "done") =>
    /\ run[r].res = "ok" /\ run[r].wrote => r \in patch
    /\ ~run[r].bad => "ext" \notin run[r].dirs
    /\ run[r].res = "ok" /\ run[r].opts.keep # "always" => run[r].dirs = {}

\* Once its command has ended a run ends and gives the patch's lock back, also
\* when processes of the command's group stay that no signal ends.
RunEnds == \A r \in Runs : run[r].at \in {"reap", "unmask", "export", "save", "cleanup"}
                             ~> run[r].at \in {"done", "dead"}
=============================================================================
