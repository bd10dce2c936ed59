----------------------------- MODULE PatchFile -----------------------------
(***************************************************************************)
(* The patch file of a session or run (internal/patchio): its lock, the    *)
(* bounded snapshot that is validated and applied, and its replacement by  *)
(* a temporary file, fsync, rename and fsync of the directory; with        *)
(* readers and writers that know nothing of the lock, killed processes and *)
(* a loss of power between any two steps.                                  *)
(*                                                                         *)
(* The directory entry and the data of a file reach the disk only when     *)
(* they are synced: after a loss of power the entry leads to any file it   *)
(* led to since it was synced last, and the data of a file that was not    *)
(* synced may be incomplete.                                               *)
(***************************************************************************)
EXTENDS Naturals, FiniteSets

CONSTANTS
  Procs,    \* processes of persona that use the patch
  Readers,  \* other readers: they open the patch without its lock
  Versions, \* contents of a patch
  TooLarge, \* those above MaxPatchBytes
  Partial,  \* the content of a file that is not completely written
  Nothing,  \* no value
  NoProc,   \* the holder of the free lock
  MaxFiles  \* bound: files ever made in the directory

ASSUME PatchFileAssumption ==
  /\ TooLarge \subseteq Versions
  /\ Partial \notin Versions /\ Nothing \notin Versions /\ Partial # Nothing
  /\ NoProc \notin Procs
  /\ MaxFiles \in Nat

VARIABLES
  data,   \* the content of every file
  synced, \* the files whose content is on disk
  made,   \* files made so far
  name,   \* the file that the patch's name leads to, 0 for none
  disk,   \* the files it may lead to after a loss of power
  temps,  \* temporary files that have a name in the directory
  litter, \* history: temporary files of processes that were killed
  lock,   \* who holds the lock file's flock
  proc,   \* the processes
  reader, \* the other readers
  acked   \* history: a save was answered with success since the last change

vars == <<data, synced, made, name, disk, temps, litter, lock, proc, reader, acked>>

Files == 1 .. MaxFiles

\* What an open of the file f finds.
Content(f) == IF f = 0 THEN Nothing ELSE data[f]

Off  == [at |-> "off", got |-> Nothing, valid |-> Nothing, used |-> Nothing,
         tmp |-> 0, new |-> Nothing]
Held == [Off EXCEPT !.at = "held"]
Idle == [at |-> "idle", fd |-> 0, got |-> Nothing]

Init ==
  /\ data = [f \in Files |-> Partial]
  /\ synced = {} /\ made = 0
  /\ name = 0 /\ disk = {0}
  /\ temps = {} /\ litter = {}
  /\ lock = NoProc
  /\ proc = [p \in Procs |-> Off]
  /\ reader = [r \in Readers |-> Idle]
  /\ acked = FALSE

At(p, s)     == proc[p].at = s
Become(p, x) == proc' = [proc EXCEPT ![p] = x]
GoTo(p, s)   == proc' = [proc EXCEPT ![p].at = s]
files   == <<data, synced, made, name, disk, temps, litter, acked>>
-----------------------------------------------------------------------------
\* LockContext polls an flock with LOCK_NB; nobody removes the lock file.
Lock(p) ==
  /\ At(p, "off") /\ lock = NoProc
  /\ lock' = p
  /\ Become(p, Held)
  /\ UNCHANGED <<files, reader>>

Unlock(p) ==
  /\ At(p, "held")
  /\ lock' = NoProc
  /\ Become(p, Off)
  /\ UNCHANGED <<files, reader>>

(***************************************************************************)
(* applyPatchStore: open, read at most MaxPatchBytes + 1 bytes, validate,  *)
(* apply; and apply a filtered copy when that fails on existing files.     *)
(***************************************************************************)
\* The data that is applied is the snapshot.
\* As if the patch were opened again.
Reopened(p) == Content(name)
Snapshot(p) == proc[p].got

ReadSnapshot(p) ==
  /\ At(p, "held") /\ name # 0
  /\ Become(p, [Held EXCEPT !.at = IF Content(name) \in TooLarge THEN "held" ELSE "read",
                            !.got = Content(name)])
  /\ UNCHANGED <<files, lock, reader>>

Validate(p) ==
  /\ At(p, "read")
  /\ \/ Become(p, [proc[p] EXCEPT !.at = "valid", !.valid = proc[p].got])
     \/ Become(p, Held)
  /\ UNCHANGED <<files, lock, reader>>

\* Once, or once more filtered.
Apply(p) ==
  /\ At(p, "valid")
  /\ \E again \in BOOLEAN :
       Become(p, [proc[p] EXCEPT !.at = IF again THEN "valid" ELSE "held",
                                 !.used = Snapshot(p)])
  /\ UNCHANGED <<files, lock, reader>>
-----------------------------------------------------------------------------
(***************************************************************************)
(* writeFileAt.                                                            *)
(***************************************************************************)
\* A file that was not there before, under a random name (O_EXCL).
Create(p, v) ==
  /\ At(p, "held") /\ made < MaxFiles
  /\ made' = made + 1
  /\ temps' = temps \cup {made + 1}
  /\ Become(p, [Held EXCEPT !.at = "copy", !.tmp = made + 1, !.new = v])
  /\ UNCHANGED <<data, synced, name, disk, litter, lock, reader, acked>>

\* As if the patch itself were truncated and written.
IntoPatch(p) == IF name = 0 THEN proc[p].tmp ELSE name
Into(p)      == proc[p].tmp

BeginCopy(p) ==
  /\ At(p, "copy")
  /\ data' = [data EXCEPT ![Into(p)] = Partial]
  /\ GoTo(p, "copying")
  /\ UNCHANGED <<synced, made, name, disk, temps, litter, lock, reader, acked>>

EndCopy(p) ==
  /\ At(p, "copying")
  /\ data' = [data EXCEPT ![Into(p)] = proc[p].new]
  /\ GoTo(p, "whole")
  /\ UNCHANGED <<synced, made, name, disk, temps, litter, lock, reader, acked>>

\* CheckPatchSize, then owner and mode as the file had them.
Accept(p) ==
  /\ At(p, "whole") /\ proc[p].new \notin TooLarge
  /\ GoTo(p, "accepted")
  /\ UNCHANGED <<files, lock, reader>>

\* As if the file were renamed without file.Sync.
SyncedNever(p) == synced
SyncedBy(p)    == synced \cup {proc[p].tmp}

Sync(p) ==
  /\ At(p, "accepted")
  /\ synced' = SyncedBy(p)
  /\ GoTo(p, "synced")
  /\ UNCHANGED <<data, made, name, disk, temps, litter, lock, reader, acked>>

Rename(p) ==
  /\ At(p, "synced")
  /\ name' = proc[p].tmp
  /\ disk' = disk \cup {proc[p].tmp}
  /\ temps' = temps \ {proc[p].tmp}
  /\ acked' = FALSE
  /\ GoTo(p, "renamed")
  /\ UNCHANGED <<data, synced, made, litter, lock, reader>>

\* The directory is synced, which decides the answer.  Without the lock
\* another writer may have put its own file there since.
SyncDir(p) ==
  /\ At(p, "renamed")
  /\ disk' = {name} /\ acked' = TRUE
  /\ Become(p, Held)
  /\ UNCHANGED <<data, synced, made, name, temps, litter, lock, reader>>

SyncDirFails(p) ==
  /\ At(p, "renamed")
  /\ Become(p, Held)
  /\ UNCHANGED <<files, lock, reader>>

\* As if an error left the temporary file.
TempLeft(p) == temps
TempsAfter(p) == temps \ {proc[p].tmp}

\* Any step up to the rename fails: the temporary file is unlinked.
Fail(p) ==
  /\ proc[p].at \in {"copy", "copying", "whole", "accepted", "synced"}
  /\ temps' = TempsAfter(p)
  /\ Become(p, Held)
  /\ UNCHANGED <<data, synced, made, name, disk, litter, lock, reader, acked>>

\* SIGKILL: the kernel releases the flock, the temporary file stays.
Kill(p) ==
  /\ proc[p].at # "off"
  /\ lock' = NoProc
  /\ litter' = litter \cup ({proc[p].tmp} \cap temps)
  /\ Become(p, Off)
  /\ UNCHANGED <<data, synced, made, name, disk, temps, reader, acked>>
-----------------------------------------------------------------------------
(***************************************************************************)
(* Those who do not take the lock, and the machine.                        *)
(***************************************************************************)
Open(r) ==
  /\ reader[r].at = "idle" /\ name # 0
  /\ reader' = [reader EXCEPT ![r] = [at |-> "open", fd |-> name, got |-> Nothing]]
  /\ UNCHANGED <<files, lock, proc>>

ReadAll(r) ==
  /\ reader[r].at = "open"
  /\ reader' = [reader EXCEPT ![r].at = "done", ![r].got = data[reader[r].fd]]
  /\ UNCHANGED <<files, lock, proc>>

Close(r) ==
  /\ reader[r].at = "done"
  /\ reader' = [reader EXCEPT ![r] = Idle]
  /\ UNCHANGED <<files, lock, proc>>

\* Another tool replaces the patch by a file of its own, which it has synced.
Replace(v) ==
  /\ made < MaxFiles
  /\ made' = made + 1
  /\ data' = [data EXCEPT ![made + 1] = v]
  /\ synced' = synced \cup {made + 1}
  /\ name' = made + 1 /\ disk' = disk \cup {made + 1}
  /\ acked' = FALSE
  /\ UNCHANGED <<temps, litter, lock, proc, reader>>

\* Or removes it.
Remove ==
  /\ name # 0
  /\ name' = 0 /\ disk' = disk \cup {0}
  /\ acked' = FALSE
  /\ UNCHANGED <<data, synced, made, temps, litter, lock, proc, reader>>

\* Everything that runs is gone; unsynced data may be.
PowerLoss ==
  /\ \E lost \in SUBSET ((1 .. made) \ synced) :
       data' = [f \in Files |-> IF f \in lost THEN Partial ELSE data[f]]
  /\ \E f \in disk : name' = f /\ disk' = {f} /\ temps' = temps \ {f}
  /\ litter' = temps'
  /\ lock' = NoProc
  /\ proc' = [p \in Procs |-> Off]
  /\ reader' = [r \in Readers |-> Idle]
  /\ UNCHANGED <<synced, made, acked>>
-----------------------------------------------------------------------------
Next == \/ \E p \in Procs : \/ Lock(p) \/ Unlock(p)
                            \/ ReadSnapshot(p) \/ Validate(p) \/ Apply(p)
                            \/ \E v \in Versions : Create(p, v)
                            \/ BeginCopy(p) \/ EndCopy(p) \/ Accept(p) \/ Sync(p)
                            \/ Rename(p) \/ SyncDir(p) \/ SyncDirFails(p)
                            \/ Fail(p) \/ Kill(p)
        \/ \E r \in Readers : Open(r) \/ ReadAll(r) \/ Close(r)
        \/ (\E v \in Versions : Replace(v)) \/ Remove \/ PowerLoss

Spec == Init /\ [][Next]_vars
-----------------------------------------------------------------------------
Contents == Versions \cup {Partial}
ProcType == [at : {"off", "held", "read", "valid", "copy", "copying", "whole",
                   "accepted", "synced", "renamed"},
             got : Contents \cup {Nothing}, valid : Contents \cup {Nothing},
             used : Contents \cup {Nothing}, tmp : Files \cup {0},
             new : Versions \cup {Nothing}]

\* The type invariant.  The lock is held exactly by the process at work, and
\* a temporary file outlives its save only when the process is killed.
TypeOK ==
  /\ data \in [Files -> Contents]
  /\ synced \subseteq Files
  /\ made \in 0 .. MaxFiles
  /\ name \in 0 .. made /\ disk \subseteq 0 .. made
  /\ temps \subseteq Files /\ litter \subseteq Files
  /\ lock \in Procs \cup {NoProc}
  /\ proc \in [Procs -> ProcType]
  /\ reader \in [Readers -> [at : {"idle", "open", "done"}, fd : Files \cup {0},
                            got : Contents \cup {Nothing}]]
  /\ acked \in BOOLEAN
  /\ \A p \in Procs : proc[p].at # "off" <=> lock = p
  /\ \A f \in temps : f \in litter \/ \E p \in Procs : proc[p].tmp = f

\* Whoever reads the patch, with the lock or without it and however slowly,
\* gets one whole version, and never a half-written one.
ReadsWhole ==
  /\ \A r \in Readers : reader[r].at = "done" => reader[r].got \in Versions
  /\ \A p \in Procs : proc[p].got # Partial

\* What is applied is what has been validated, also by the second attempt and
\* though others replace the file between: "a single bounded regular-file
\* snapshot used for both validation and apply" (README.md).
AppliedIsValidated ==
  \A p \in Procs : proc[p].used # Nothing => proc[p].used = proc[p].valid

Register == INSTANCE PatchRegister WITH
  Absent <- Nothing,
  value  <- Content(name),
  kept   <- {Content(f) : f \in disk},
  acked  <- acked

\* The file is an atomic register that keeps an acknowledged save through a
\* loss of power and otherwise falls back to a version it had, whole.
ImplementsRegister == Register!Spec
=============================================================================
