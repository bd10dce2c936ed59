--------------------------- MODULE PatchFileProofs ---------------------------
(***************************************************************************)
(* The theorems about PatchFile: its type invariant, that readers get      *)
(* whole versions, that what is applied has been validated, and that the   *)
(* file implements PatchRegister.                                          *)
(***************************************************************************)
EXTENDS PatchFile, TLAPS

\* What the name may lead to, now or after a loss of power, is on disk whole.
FileInv ==
  /\ name \in disk
  /\ \A f \in synced : f \in 1 .. made /\ data[f] \in Versions
  /\ disk \ {0} \subseteq synced

\* A process at work on a temporary file is the only one that knows it, and
\* what it has got from the patch is a whole version.
ProcOK(x) ==
  /\ x.at = "off" => x = Off
  /\ x.got # Partial
  /\ x.at \in {"held", "read", "valid"} => x.tmp = 0
  /\ x.at \in {"read", "valid"} => x.got \in Versions
  /\ x.at = "read" => x.used = Nothing
  /\ x.at = "valid" => x.valid = x.got
  /\ x.used # Nothing => x.used = x.valid
  /\ x.at \in {"copy", "copying", "whole", "accepted", "synced"} =>
       x.tmp \in 1 .. made /\ x.tmp \notin disk /\ x.new \in Versions
  /\ x.at \in {"copy", "copying", "whole", "accepted"} => x.tmp \notin synced
  /\ x.at \in {"whole", "accepted", "synced"} => data[x.tmp] = x.new
  /\ x.at = "synced" => x.tmp \in synced
  /\ x.at = "renamed" => x.tmp \notin temps
ProcInv == \A p \in Procs : ProcOK(proc[p])

\* An open file was the patch once, and stays as it is.
ReaderInv ==
  \A r \in Readers : /\ reader[r].at = "open" => reader[r].fd \in synced
                     /\ reader[r].at = "done" => reader[r].got \in Versions

IInv == TypeOK /\ FileInv /\ ProcInv /\ ReaderInv

LEMMA ConstantFacts ==
  /\ Off \in ProcType /\ Held \in ProcType
  /\ Off.at = "off" /\ Off.got = Nothing /\ Off.used = Nothing /\ Off.tmp = 0
  /\ Held.at = "held" /\ Held.got = Nothing /\ Held.used = Nothing /\ Held.tmp = 0
  /\ Held.valid = Nothing /\ Held.new = Nothing
  /\ Nothing # Partial /\ Partial \notin Versions /\ Nothing \notin Versions
  /\ NoProc \notin Procs /\ MaxFiles \in Nat
<1> QED BY PatchFileAssumption DEF PatchFileAssumption, Off, Held, ProcType, Contents, Files

LEMMA InitInv == ASSUME Init PROVE IInv
<1>1. TypeOK
  <2>1. data \in [Files -> Contents] /\ reader \in [Readers -> [at : {"idle", "open", "done"},
          fd : Files \cup {0}, got : Contents \cup {Nothing}]]
    BY DEF Init, Contents, Idle
  <2>2. proc \in [Procs -> ProcType] /\ \A p \in Procs : proc[p].at = "off" /\ lock # p
    BY ConstantFacts DEF Init
  <2>3. synced = {} /\ made \in 0 .. MaxFiles /\ name \in 0 .. made /\ disk \subseteq 0 .. made
    BY ConstantFacts DEF Init
  <2>4. temps = {} /\ litter = {} /\ lock = NoProc /\ acked = FALSE
    BY DEF Init
  <2> QED BY <2>1, <2>2, <2>3, <2>4 DEF TypeOK
<1>2. FileInv /\ ReaderInv
  BY DEF Init, FileInv, ReaderInv, Idle
<1>3. ProcInv
  BY ConstantFacts DEF Init, ProcInv, ProcOK
<1> QED BY <1>1, <1>2, <1>3 DEF IInv

\* Only the holder of the lock is at work.
LEMMA Others ==
  ASSUME IInv, NEW p \in Procs, proc[p].at # "off"
  PROVE  lock = p /\ \A q \in Procs \ {p} : proc[q] = Off
<1> QED BY DEF IInv, TypeOK, ProcInv, ProcOK

\* What an open of the patch finds.
LEMMA ContentOf ==
  ASSUME IInv, NEW f \in disk
  PROVE  Content(f) \in Versions \cup {Nothing} /\ (f # 0 => Content(f) = data[f] /\ data[f] \in Versions)
<1> QED BY DEF IInv, FileInv, Content

\* A process takes a step that leaves the directory alone.
LEMMA ProcStepKeeps ==
  ASSUME IInv, NEW p \in Procs, NEW x \in ProcType, Become(p, x),
         UNCHANGED <<files, reader>>,
         ProcOK(x), proc[p].tmp \in {0, x.tmp},
         x.at # "off" <=> lock' = p,
         lock' \in {NoProc, p}, proc[p].at # "off" \/ lock = NoProc
  PROVE  IInv'
<1> USE DEF IInv, files
<1>1. /\ proc' \in [Procs -> ProcType] /\ proc'[p] = x
      /\ \A q \in Procs \ {p} : proc'[q] = proc[q]
  BY DEF Become, TypeOK
<1>2. \A q \in Procs \ {p} : proc[q].at = "off" /\ lock' # q
  BY ConstantFacts, Others DEF TypeOK
<1>3. \A f \in temps : f \in litter \/ \E q \in Procs : proc'[q].tmp = f
  <2> SUFFICES ASSUME NEW f \in temps, f \notin litter
               PROVE  \E q \in Procs : proc'[q].tmp = f
    OBVIOUS
  <2>1. PICK q \in Procs : proc[q].tmp = f
    BY DEF TypeOK
  <2>2. f # 0
    BY DEF TypeOK, Files
  <2> QED BY <1>1, <2>1, <2>2
<1>4. TypeOK'
  BY <1>1, <1>2, <1>3, ConstantFacts DEF TypeOK
<1>5. FileInv' /\ ReaderInv'
  BY DEF FileInv, ReaderInv
<1>6. ProcInv'
  BY <1>1 DEF ProcInv, ProcOK
<1> QED BY <1>4, <1>5, <1>6

LEMMA LockKeeps == ASSUME IInv, NEW p \in Procs, Lock(p) \/ Unlock(p) PROVE IInv'
<1> USE DEF IInv
<1>1. ProcOK(Off) /\ ProcOK(Held)
  BY ConstantFacts DEF ProcOK
<1>2. CASE Lock(p)
  <2>1. proc[p] = Off
    BY <1>2 DEF Lock, At, ProcInv, ProcOK
  <2> QED BY <1>1, <1>2, <2>1, ConstantFacts, ProcStepKeeps DEF Lock, At
<1>3. CASE Unlock(p)
  <2>1. proc[p].tmp = 0
    BY <1>3 DEF Unlock, At, ProcInv, ProcOK
  <2> QED BY <1>1, <1>3, <2>1, ConstantFacts, ProcStepKeeps DEF Unlock, At
<1> QED BY <1>2, <1>3

LEMMA ReadSnapshotKeeps == ASSUME IInv, NEW p \in Procs, ReadSnapshot(p) PROVE IInv'
<1> USE DEF IInv
<1>1. /\ proc[p].at = "held" /\ name # 0 /\ UNCHANGED <<files, lock, reader>>
      /\ proc[p].tmp = 0
  BY DEF ReadSnapshot, At, ProcInv, ProcOK
<1>2. Content(name) \in Versions
  BY <1>1, ContentOf DEF FileInv
<1>3. PICK s \in {"held", "read"} : Become(p, [Held EXCEPT !.at = s, !.got = Content(name)])
  BY DEF ReadSnapshot
<1> DEFINE x == [Held EXCEPT !.at = s, !.got = Content(name)]
<1>4. /\ x \in ProcType /\ x.at = s /\ x.got = Content(name)
      /\ x.valid = Nothing /\ x.used = Nothing /\ x.tmp = 0
  BY <1>2 DEF Held, Off, ProcType, Contents
<1>5. ProcOK(x)
  BY <1>2, <1>4, ConstantFacts DEF ProcOK
<1> QED BY <1>1, <1>3, <1>4, <1>5, Others, ProcStepKeeps

LEMMA ValidateKeeps == ASSUME IInv, NEW p \in Procs, Validate(p) PROVE IInv'
<1> USE DEF IInv
<1>1. /\ proc[p].at = "read" /\ proc[p] \in ProcType /\ ProcOK(proc[p])
      /\ UNCHANGED <<files, lock, reader>> /\ proc[p].tmp = 0 /\ lock = p
  BY Others DEF Validate, At, TypeOK, ProcInv, ProcOK
<1>2. CASE Become(p, [proc[p] EXCEPT !.at = "valid", !.valid = proc[p].got])
  <2>1. PICK x \in ProcType : x = [proc[p] EXCEPT !.at = "valid", !.valid = proc[p].got]
    BY <1>1 DEF ProcType
  <2>2. /\ Become(p, x) /\ x.at = "valid" /\ x.got = proc[p].got /\ x.valid = proc[p].got
        /\ x.used = proc[p].used /\ x.tmp = 0
    BY <1>1, <1>2, <2>1 DEF ProcType
  <2>3. ProcOK(x)
    BY <1>1, <2>2 DEF ProcOK
  <2> QED BY <1>1, <2>2, <2>3, ProcStepKeeps
<1>3. CASE Become(p, Held)
  <2>1. ProcOK(Held)
    BY ConstantFacts DEF ProcOK
  <2> QED BY <1>1, <1>3, <2>1, ConstantFacts, ProcStepKeeps
<1> QED BY <1>2, <1>3 DEF Validate

LEMMA ApplyKeeps == ASSUME IInv, NEW p \in Procs, Apply(p) PROVE IInv'
<1> USE DEF IInv
<1>1. /\ proc[p].at = "valid" /\ proc[p] \in ProcType /\ ProcOK(proc[p])
      /\ UNCHANGED <<files, lock, reader>> /\ proc[p].tmp = 0 /\ lock = p
  BY Others DEF Apply, At, TypeOK, ProcInv, ProcOK
<1>2. PICK s \in {"valid", "held"} : Become(p, [proc[p] EXCEPT !.at = s, !.used = proc[p].got])
  BY DEF Apply, Snapshot
<1> DEFINE x == [proc[p] EXCEPT !.at = s, !.used = proc[p].got]
<1>3. /\ x \in ProcType /\ x.at = s /\ x.got = proc[p].got /\ x.valid = proc[p].valid
      /\ x.used = proc[p].got /\ x.tmp = 0
  BY <1>1 DEF ProcType
<1>4. ProcOK(x)
  BY <1>1, <1>3 DEF ProcOK
<1> QED BY <1>1, <1>2, <1>3, <1>4, ProcStepKeeps

\* The steps of a save, each of which changes the directory or a file of it.
LEMMA CreateKeeps ==
  ASSUME IInv, NEW p \in Procs, NEW v \in Versions, Create(p, v) PROVE IInv'
<1> USE DEF IInv
<1>1. /\ proc[p].at = "held" /\ proc[p].tmp = 0 /\ made + 1 \in Files
      /\ made' = made + 1 /\ made' \in 0 .. MaxFiles
      /\ temps' = temps \cup {made + 1}
      /\ Become(p, [Held EXCEPT !.at = "copy", !.tmp = made + 1, !.new = v])
      /\ UNCHANGED <<data, synced, name, disk, litter, lock, reader, acked>>
  BY ConstantFacts DEF Create, At, TypeOK, ProcInv, ProcOK, Files
<1> PICK x \in ProcType : x = [Held EXCEPT !.at = "copy", !.tmp = made + 1, !.new = v]
  BY <1>1 DEF Held, Off, ProcType
<1>2. /\ Become(p, x) /\ x.at = "copy" /\ x.tmp = made + 1 /\ x.new = v
      /\ x.got = Nothing /\ x.used = Nothing
  BY <1>1 DEF Held, Off, ProcType
<1>3. /\ proc' \in [Procs -> ProcType] /\ proc'[p] = x
      /\ \A q \in Procs \ {p} : proc'[q] = proc[q]
  BY <1>1, <1>2 DEF Become, TypeOK
<1>4. \A f \in temps' : f \in litter' \/ \E q \in Procs : proc'[q].tmp = f
  <2> SUFFICES ASSUME NEW f \in temps', f \notin litter, f # made + 1
               PROVE  \E q \in Procs : proc'[q].tmp = f
    BY <1>1, <1>2, <1>3
  <2>1. f \in temps /\ f # 0
    BY <1>1 DEF TypeOK, Files
  <2>2. PICK q \in Procs : proc[q].tmp = f
    BY <2>1 DEF TypeOK
  <2> QED BY <1>1, <1>3, <2>1, <2>2
<1>5. TypeOK'
  <2>1. name' \in 0 .. made' /\ disk' \subseteq 0 .. made'
    BY <1>1, ConstantFacts DEF TypeOK
  <2>2. temps' \subseteq Files
    BY <1>1 DEF TypeOK
  <2>3. \A q \in Procs : proc'[q].at # "off" <=> lock' = q
    BY <1>1, <1>2, <1>3 DEF TypeOK
  <2> QED BY <1>1, <1>3, <1>4, <2>1, <2>2, <2>3 DEF TypeOK
<1>6. FileInv' /\ ReaderInv'
  BY <1>1 DEF FileInv, ReaderInv, TypeOK
<1>7. ProcOK(x)'
  BY <1>1, <1>2, ConstantFacts DEF ProcOK, FileInv, TypeOK
<1>8. \A q \in Procs \ {p} : ProcOK(proc[q])'
  <2>1. \A q \in Procs \ {p} : proc'[q] = Off
    BY <1>1, <1>3, Others
  <2> QED BY <2>1, ConstantFacts DEF ProcOK
<1> QED BY <1>3, <1>5, <1>6, <1>7, <1>8 DEF ProcInv

\* What each later step of a save shares: the process stays on its file.
LEMMA SaveStepKeeps ==
  ASSUME IInv, NEW p \in Procs, NEW x \in ProcType, Become(p, x),
         proc[p].at # "off", x.at # "off", ProcOK(x)',
         UNCHANGED <<made, litter, lock, reader>>,
         data' \in [Files -> Contents], synced' \in SUBSET Files,
         name' \in 0 .. made, disk' \in SUBSET (0 .. made), acked' \in BOOLEAN,
         temps' \subseteq temps, proc[p].tmp \in temps' => x.tmp = proc[p].tmp,
         FileInv', synced \subseteq synced'
  PROVE  IInv'
<1> USE DEF IInv
<1>1. /\ proc' \in [Procs -> ProcType] /\ proc'[p] = x
      /\ \A q \in Procs \ {p} : proc'[q] = proc[q]
  BY DEF Become, TypeOK
<1>2. lock = p /\ \A q \in Procs \ {p} : proc[q] = Off
  BY Others
<1>3. \A f \in temps' : f \in litter' \/ \E q \in Procs : proc'[q].tmp = f
  <2> SUFFICES ASSUME NEW f \in temps', f \notin litter
               PROVE  \E q \in Procs : proc'[q].tmp = f
    OBVIOUS
  <2>1. PICK q \in Procs : proc[q].tmp = f
    BY DEF TypeOK
  <2> QED BY <1>1, <2>1
<1>4. TypeOK'
  BY <1>1, <1>2, <1>3, ConstantFacts DEF TypeOK
<1>5. ReaderInv'
  BY DEF ReaderInv
<1>6. \A q \in Procs \ {p} : ProcOK(proc[q])'
  BY <1>1, <1>2, ConstantFacts DEF ProcOK
<1> QED BY <1>1, <1>4, <1>5, <1>6 DEF ProcInv

LEMMA CopyKeeps == ASSUME IInv, NEW p \in Procs, BeginCopy(p) \/ EndCopy(p) PROVE IInv'
<1> USE DEF IInv
<1>1. PICK s \in {"copying", "whole"}, d \in Contents :
        /\ proc[p].at \in {"copy", "copying"} /\ GoTo(p, s)
        /\ data' = [data EXCEPT ![proc[p].tmp] = d]
        /\ s = "whole" => d = proc[p].new
        /\ UNCHANGED <<synced, made, name, disk, temps, litter, lock, reader, acked>>
  BY DEF BeginCopy, EndCopy, At, Into, Contents, ProcInv, ProcOK
<1>2. /\ proc[p] \in ProcType /\ ProcOK(proc[p])
      /\ Become(p, [proc[p] EXCEPT !.at = s])
  BY <1>1 DEF TypeOK, ProcInv, GoTo, Become
<1> PICK x \in ProcType : x = [proc[p] EXCEPT !.at = s]
  BY <1>2 DEF ProcType
<1>3. /\ Become(p, x) /\ x.at = s /\ x.got = proc[p].got /\ x.valid = proc[p].valid
      /\ x.used = proc[p].used /\ x.tmp = proc[p].tmp /\ x.new = proc[p].new
  BY <1>2 DEF ProcType
<1>4. /\ proc[p].tmp \in 1 .. made /\ proc[p].tmp \notin synced /\ proc[p].tmp \notin disk
      /\ proc[p].tmp \in Files
  BY <1>1, <1>2, ConstantFacts DEF ProcOK, TypeOK, Files
<1>5. /\ data' \in [Files -> Contents] /\ data'[proc[p].tmp] = d
      /\ \A f \in Files \ {proc[p].tmp} : data'[f] = data[f]
  BY <1>1, <1>4 DEF TypeOK
<1>6. FileInv'
  BY <1>1, <1>4, <1>5 DEF FileInv, TypeOK
<1>7. ProcOK(x)'
  BY <1>1, <1>2, <1>3, <1>5 DEF ProcOK
<1>8. name \in 0 .. made /\ disk \in SUBSET (0 .. made) /\ synced \in SUBSET Files
      /\ acked \in BOOLEAN
  BY DEF TypeOK
<1> QED BY <1>1, <1>2, <1>3, <1>5, <1>6, <1>7, <1>8, SaveStepKeeps

LEMMA AcceptKeeps == ASSUME IInv, NEW p \in Procs, Accept(p) PROVE IInv'
<1> USE DEF IInv
<1>1. /\ proc[p].at = "whole" /\ proc[p] \in ProcType /\ ProcOK(proc[p])
      /\ Become(p, [proc[p] EXCEPT !.at = "accepted"])
      /\ UNCHANGED <<files, lock, reader>> /\ lock = p
  BY Others DEF Accept, At, TypeOK, ProcInv, GoTo, Become
<1> PICK x \in ProcType : x = [proc[p] EXCEPT !.at = "accepted"]
  BY <1>1 DEF ProcType
<1>2. /\ Become(p, x) /\ x.at = "accepted" /\ x.got = proc[p].got /\ x.valid = proc[p].valid
      /\ x.used = proc[p].used /\ x.tmp = proc[p].tmp /\ x.new = proc[p].new
  BY <1>1 DEF ProcType
<1>3. ProcOK(x)
  BY <1>1, <1>2 DEF ProcOK
<1> QED BY <1>1, <1>2, <1>3, ProcStepKeeps

LEMMA SyncKeeps == ASSUME IInv, NEW p \in Procs, Sync(p) PROVE IInv'
<1> USE DEF IInv
<1>1. /\ proc[p].at = "accepted" /\ proc[p] \in ProcType /\ ProcOK(proc[p])
      /\ Become(p, [proc[p] EXCEPT !.at = "synced"])
      /\ synced' = synced \cup {proc[p].tmp}
      /\ UNCHANGED <<data, made, name, disk, temps, litter, lock, reader, acked>>
  BY DEF Sync, SyncedBy, At, TypeOK, ProcInv, GoTo, Become
<1> PICK x \in ProcType : x = [proc[p] EXCEPT !.at = "synced"]
  BY <1>1 DEF ProcType
<1>2. /\ Become(p, x) /\ x.at = "synced" /\ x.got = proc[p].got /\ x.valid = proc[p].valid
      /\ x.used = proc[p].used /\ x.tmp = proc[p].tmp /\ x.new = proc[p].new
  BY <1>1 DEF ProcType
<1>3. /\ proc[p].tmp \in 1 .. made /\ proc[p].tmp \in Files /\ data[proc[p].tmp] \in Versions
  BY <1>1, ConstantFacts DEF ProcOK, TypeOK, Files
<1>4. FileInv'
  BY <1>1, <1>3 DEF FileInv
<1>5. ProcOK(x)'
  BY <1>1, <1>2 DEF ProcOK
<1>6. /\ data \in [Files -> Contents] /\ name \in 0 .. made /\ disk \in SUBSET (0 .. made)
      /\ synced' \in SUBSET Files /\ acked \in BOOLEAN
  BY <1>1, <1>3 DEF TypeOK
<1> QED BY <1>1, <1>2, <1>4, <1>5, <1>6, SaveStepKeeps

LEMMA RenameKeeps == ASSUME IInv, NEW p \in Procs, Rename(p) PROVE IInv'
<1> USE DEF IInv
<1>1. /\ proc[p].at = "synced" /\ proc[p] \in ProcType /\ ProcOK(proc[p])
      /\ Become(p, [proc[p] EXCEPT !.at = "renamed"])
      /\ name' = proc[p].tmp /\ disk' = disk \cup {proc[p].tmp}
      /\ temps' = temps \ {proc[p].tmp} /\ acked' = FALSE
      /\ UNCHANGED <<data, synced, made, litter, lock, reader>>
  BY DEF Rename, At, TypeOK, ProcInv, GoTo, Become
<1> PICK x \in ProcType : x = [proc[p] EXCEPT !.at = "renamed"]
  BY <1>1 DEF ProcType
<1>2. /\ Become(p, x) /\ x.at = "renamed" /\ x.got = proc[p].got /\ x.valid = proc[p].valid
      /\ x.used = proc[p].used /\ x.tmp = proc[p].tmp /\ x.new = proc[p].new
  BY <1>1 DEF ProcType
<1>3. proc[p].tmp \in 1 .. made /\ proc[p].tmp \in synced
  BY <1>1 DEF ProcOK
<1>4. FileInv'
  BY <1>1, <1>3 DEF FileInv
<1>5. ProcOK(x)'
  BY <1>1, <1>2 DEF ProcOK
<1>6. /\ data \in [Files -> Contents] /\ name' \in 0 .. made /\ disk' \in SUBSET (0 .. made)
      /\ synced \in SUBSET Files /\ acked' \in BOOLEAN
  <2>1. /\ made \in Nat /\ disk \subseteq 0 .. made /\ data \in [Files -> Contents]
        /\ synced \in SUBSET Files
    BY ConstantFacts DEF TypeOK
  <2>2. proc[p].tmp \in 0 .. made
    BY <1>3, <2>1
  <2> HIDE DEF IInv
  <2> QED BY <1>1, <2>1, <2>2
<1> QED BY <1>1, <1>2, <1>4, <1>5, <1>6, SaveStepKeeps

LEMMA SyncDirKeeps ==
  ASSUME IInv, NEW p \in Procs, SyncDir(p) \/ SyncDirFails(p) PROVE IInv'
<1> USE DEF IInv
<1>1. /\ proc[p].at = "renamed" /\ Become(p, Held)
      /\ disk' \in {disk, {name}} /\ acked' \in BOOLEAN
      /\ UNCHANGED <<data, synced, made, name, temps, litter, lock, reader>>
  BY DEF SyncDir, SyncDirFails, At, files, TypeOK
<1>2. proc[p].tmp \notin temps
  BY <1>1 DEF ProcInv, ProcOK, TypeOK
<1>3. FileInv'
  BY <1>1 DEF FileInv
<1>4. ProcOK(Held)'
  BY ConstantFacts DEF ProcOK
<1>5. /\ data \in [Files -> Contents] /\ name \in 0 .. made /\ disk' \in SUBSET (0 .. made)
      /\ synced \in SUBSET Files
  BY <1>1 DEF TypeOK
<1> QED BY <1>1, <1>2, <1>3, <1>4, <1>5, ConstantFacts, SaveStepKeeps

LEMMA FailKeeps == ASSUME IInv, NEW p \in Procs, Fail(p) PROVE IInv'
<1> USE DEF IInv
<1>1. /\ proc[p].at # "off" /\ Become(p, Held)
      /\ temps' = temps \ {proc[p].tmp}
      /\ UNCHANGED <<data, synced, made, name, disk, litter, lock, reader, acked>>
  BY DEF Fail, TempsAfter
<1>2. FileInv'
  BY <1>1 DEF FileInv
<1>3. ProcOK(Held)'
  BY ConstantFacts DEF ProcOK
<1>4. /\ data \in [Files -> Contents] /\ name \in 0 .. made /\ disk \in SUBSET (0 .. made)
      /\ synced \in SUBSET Files /\ acked \in BOOLEAN
  BY DEF TypeOK
<1> QED BY <1>1, <1>2, <1>3, <1>4, ConstantFacts, SaveStepKeeps

LEMMA KillKeeps == ASSUME IInv, NEW p \in Procs, Kill(p) PROVE IInv'
<1> USE DEF IInv
<1>1. /\ proc[p].at # "off" /\ lock' = NoProc /\ Become(p, Off)
      /\ litter' = litter \cup ({proc[p].tmp} \cap temps)
      /\ UNCHANGED <<data, synced, made, name, disk, temps, reader, acked>>
  BY DEF Kill
<1>2. /\ proc' \in [Procs -> ProcType] /\ proc'[p] = Off
      /\ \A q \in Procs \ {p} : proc'[q] = proc[q]
  BY <1>1, ConstantFacts DEF Become, TypeOK
<1>3. \A q \in Procs : proc'[q] = Off
  BY <1>1, <1>2, Others
<1>4. \A f \in temps' : f \in litter' \/ \E q \in Procs : proc'[q].tmp = f
  <2> SUFFICES ASSUME NEW f \in temps, f \notin litter PROVE f = proc[p].tmp
    BY <1>1
  <2>1. PICK q \in Procs : proc[q].tmp = f
    BY DEF TypeOK
  <2>2. f # 0
    BY DEF TypeOK, Files
  <2> QED BY <1>1, <2>1, <2>2, Others, ConstantFacts
<1>5. \A q \in Procs : proc'[q].at = "off" /\ lock' # q
  BY <1>1, <1>3, ConstantFacts
<1>6. litter' \subseteq Files
  BY <1>1 DEF TypeOK
<1>7. TypeOK'
  BY <1>1, <1>2, <1>4, <1>5, <1>6 DEF TypeOK
<1>8. FileInv' /\ ReaderInv'
  BY <1>1 DEF FileInv, ReaderInv
<1>9. ProcInv'
  BY <1>3, ConstantFacts DEF ProcInv, ProcOK
<1> QED BY <1>7, <1>8, <1>9

LEMMA ReaderKeeps ==
  ASSUME IInv, NEW r \in Readers, Open(r) \/ ReadAll(r) \/ Close(r) PROVE IInv'
<1> USE DEF IInv
<1> DEFINE T == [at : {"idle", "open", "done"}, fd : Files \cup {0},
                 got : Contents \cup {Nothing}]
<1>1. UNCHANGED <<data, synced, made, name, disk, temps, litter, acked, lock, proc>>
  BY DEF Open, ReadAll, Close, files
<1>2. /\ reader \in [Readers -> T] /\ reader[r] \in T
      /\ synced \subseteq Files /\ \A f \in synced : data[f] \in Versions
  BY DEF TypeOK, FileInv
<1>3. PICK y \in T : /\ reader' = [reader EXCEPT ![r] = y]
                     /\ y.at = "open" => y.fd \in synced
                     /\ y.at = "done" => y.got \in Versions
  <2>1. CASE Open(r)
    <3>1. name \in synced
      BY <2>1 DEF Open, FileInv
    <3>2. PICK y \in T : y = [at |-> "open", fd |-> name, got |-> Nothing]
      BY <1>2, <3>1
    <3>3. reader' = [reader EXCEPT ![r] = y] /\ y.at = "open" /\ y.fd \in synced
      BY <2>1, <3>1, <3>2 DEF Open
    <3> QED BY <3>3
  <2>2. CASE ReadAll(r)
    <3>1. reader[r].fd \in synced /\ data[reader[r].fd] \in Versions
      BY <1>2, <2>2 DEF ReadAll, ReaderInv
    <3>2. PICK y \in T : y = [reader[r] EXCEPT !.at = "done", !.got = data[reader[r].fd]]
      BY <1>2, <3>1 DEF Contents
    <3>3. reader' = [reader EXCEPT ![r] = y] /\ y.at = "done" /\ y.got \in Versions
      BY <1>2, <2>2, <3>1, <3>2 DEF ReadAll
    <3> QED BY <3>3
  <2>3. CASE Close(r)
    <3>1. Idle \in T /\ Idle.at = "idle"
      BY DEF Idle
    <3> QED BY <2>3, <3>1 DEF Close
  <2> QED BY <2>1, <2>2, <2>3
<1>4. reader' \in [Readers -> T]
  BY <1>2, <1>3
<1>5. TypeOK'
  BY <1>1, <1>4 DEF TypeOK
<1>6. ReaderInv'
  BY <1>1, <1>2, <1>3 DEF ReaderInv
<1>7. FileInv' /\ ProcInv'
  BY <1>1 DEF FileInv, ProcInv, ProcOK
<1> QED BY <1>5, <1>6, <1>7

LEMMA ReplaceKeeps ==
  ASSUME IInv, (\E v \in Versions : Replace(v)) \/ Remove PROVE IInv'
<1> USE DEF IInv
<1>1. CASE Remove
  <2>1. /\ name' = 0 /\ disk' = disk \cup {0} /\ acked' = FALSE
        /\ UNCHANGED <<data, synced, made, temps, litter, lock, proc, reader>>
    BY <1>1 DEF Remove
  <2>2. name' \in 0 .. made /\ disk' \subseteq 0 .. made
    <3>1. made \in Nat /\ disk \subseteq 0 .. made
      BY DEF TypeOK
    <3> QED BY <2>1, <3>1
  <2>3. TypeOK'
    BY <2>1, <2>2 DEF TypeOK
  <2>4. FileInv' /\ ReaderInv'
    BY <2>1 DEF FileInv, ReaderInv
  <2>5. ProcInv'
    BY <2>1 DEF ProcInv, ProcOK
  <2> QED BY <2>3, <2>4, <2>5
<1>2. ASSUME NEW v \in Versions, Replace(v) PROVE IInv'
  <2>1. /\ made + 1 \in Files /\ made' = made + 1 /\ made \in Nat /\ made' \in 0 .. MaxFiles
        /\ data' = [data EXCEPT ![made + 1] = v]
        /\ synced' = synced \cup {made + 1}
        /\ name' = made + 1 /\ disk' = disk \cup {made + 1} /\ acked' = FALSE
        /\ UNCHANGED <<temps, litter, lock, proc, reader>>
    BY <1>2, ConstantFacts DEF Replace, TypeOK, Files
  <2>2. /\ data' \in [Files -> Contents] /\ data'[made + 1] = v
        /\ \A f \in Files \ {made + 1} : data'[f] = data[f]
    BY <2>1 DEF TypeOK, Contents
  <2>3. name' \in 0 .. made' /\ disk' \subseteq 0 .. made' /\ synced' \subseteq Files
    BY <2>1 DEF TypeOK
  <2>4. TypeOK'
    BY <2>1, <2>2, <2>3 DEF TypeOK
  <2>5. FileInv'
    <3>1. \A f \in synced : f \in 1 .. made /\ f \in Files /\ f # made + 1
      BY <2>1 DEF FileInv, TypeOK
    <3> QED BY <2>1, <2>2, <3>1 DEF FileInv
  <2>6. ReaderInv'
    BY <2>1 DEF ReaderInv
  <2>7. ASSUME NEW p \in Procs PROVE ProcOK(proc[p])'
    <3>1. ProcOK(proc[p]) /\ proc'[p] = proc[p]
      BY <2>1 DEF ProcInv
    <3>2. proc[p].tmp \in 1 .. made =>
            /\ proc[p].tmp \in 1 .. made' /\ proc[p].tmp \in Files /\ proc[p].tmp # made + 1
      <4>1. made <= MaxFiles /\ MaxFiles \in Nat /\ made \in Nat /\ made' = made + 1
        BY <2>1, ConstantFacts DEF TypeOK
      <4> DEFINE t == proc[p].tmp
      <4>2. t \in 1 .. made => t \in 1 .. made + 1 /\ t \in 1 .. MaxFiles /\ t # made + 1
        <5> HIDE DEF t, IInv
        <5> QED BY <4>1
      <4> QED BY <4>1, <4>2 DEF Files
    <3> QED BY <2>1, <2>2, <3>1, <3>2 DEF ProcOK
  <2> QED BY <2>4, <2>5, <2>6, <2>7 DEF ProcInv
<1> QED BY <1>1, <1>2

LEMMA PowerLossKeeps == ASSUME IInv, PowerLoss PROVE IInv'
<1> USE DEF IInv
<1>1. PICK lost \in SUBSET ((1 .. made) \ synced), f \in disk :
        /\ data' = [g \in Files |-> IF g \in lost THEN Partial ELSE data[g]]
        /\ name' = f /\ disk' = {f} /\ temps' = temps \ {f}
  BY DEF PowerLoss
<1>2. /\ litter' = temps' /\ lock' = NoProc
      /\ proc' = [p \in Procs |-> Off] /\ reader' = [r \in Readers |-> Idle]
      /\ UNCHANGED <<synced, made, acked>>
  BY DEF PowerLoss
<1>3. /\ data' \in [Files -> Contents]
      /\ \A g \in synced : data'[g] = data[g]
  BY <1>1 DEF TypeOK, Contents
<1>4. /\ proc' \in [Procs -> ProcType] /\ \A p \in Procs : proc'[p] = Off
      /\ \A p \in Procs : proc'[p].at = "off" /\ lock' # p
  BY <1>2, ConstantFacts
<1>5. /\ reader' \in [Readers -> [at : {"idle", "open", "done"}, fd : Files \cup {0},
                                  got : Contents \cup {Nothing}]]
      /\ \A r \in Readers : reader'[r].at = "idle"
  BY <1>2 DEF Idle
<1>6. /\ name' \in 0 .. made /\ disk' \subseteq 0 .. made /\ temps' \subseteq Files
      /\ synced \subseteq Files /\ made \in 0 .. MaxFiles /\ acked \in BOOLEAN
  BY <1>1 DEF TypeOK
<1>7. TypeOK'
  BY <1>2, <1>3, <1>4, <1>5, <1>6 DEF TypeOK
<1>8. FileInv'
  BY <1>1, <1>2, <1>3 DEF FileInv
<1>9. ReaderInv'
  BY <1>5 DEF ReaderInv
<1>10. ProcInv'
  BY <1>4, ConstantFacts DEF ProcInv, ProcOK
<1> QED BY <1>7, <1>8, <1>9, <1>10

LEMMA NextKeeps == ASSUME IInv, [Next]_vars PROVE IInv'
<1>1. CASE UNCHANGED vars
  BY <1>1 DEF IInv, vars, TypeOK, FileInv, ProcInv, ProcOK, ReaderInv
<1> QED BY <1>1, LockKeeps, ReadSnapshotKeeps, ValidateKeeps, ApplyKeeps, CreateKeeps,
           CopyKeeps, AcceptKeeps, SyncKeeps, RenameKeeps, SyncDirKeeps, FailKeeps,
           KillKeeps, ReaderKeeps, ReplaceKeeps, PowerLossKeeps DEF Next

\* The invariant.
THEOREM Invariance == Spec => []IInv
<1>1. Init => IInv
  BY InitInv
<1>2. IInv /\ [Next]_vars => IInv'
  BY NextKeeps
<1> QED BY <1>1, <1>2, PTL DEF Spec

\* The lock is held exactly by the process at work, and a save leaves no
\* temporary file unless it is killed (lockPatchFileAt, writeFileAt).
THEOREM TypeCorrect == Spec => []TypeOK
<1>1. IInv => TypeOK
  BY DEF IInv
<1> QED BY <1>1, Invariance, PTL

\* Nobody reads half a patch (createAtomicTempFileAt, commitAtomicTempFileAt).
THEOREM WholeReads == Spec => []ReadsWhole
<1>1. IInv => ReadsWhole
  BY DEF IInv, ReadsWhole, ProcInv, ProcOK, ReaderInv
<1> QED BY <1>1, Invariance, PTL

\* What is applied is the snapshot that was validated (applyPatchStore).
THEOREM AppliesSnapshot == Spec => []AppliedIsValidated
<1>1. IInv => AppliedIsValidated
  BY DEF IInv, AppliedIsValidated, ProcInv, ProcOK
<1> QED BY <1>1, Invariance, PTL

\* A step that leaves the name and the data of what it may lead to alone is a
\* stutter of the register.
LEMMA Stutters ==
  ASSUME IInv, UNCHANGED <<name, disk, acked>>,
         \A f \in disk \ {0} : data'[f] = data[f]
  PROVE  UNCHANGED Register!vars
<1>1. \A f \in disk : Content(f)' = Content(f)
  BY DEF Content
<1>2. UNCHANGED Content(name) /\ name \in disk
  BY <1>1 DEF IInv, FileInv, Content
<1>3. {Content(f) : f \in disk}' = {Content(f) : f \in disk}
  BY <1>1
<1> QED BY <1>2, <1>3 DEF Register!vars

\* One that makes the name lead to a file with v, or nowhere, changes it.
LEMMA Changes ==
  ASSUME IInv, NEW v \in Versions \cup {Nothing}, NEW g,
         name' = g, disk' = disk \cup {g}, acked' = FALSE,
         \A f \in disk : Content(f)' = Content(f),
         (IF g = 0 THEN Nothing ELSE data'[g]) = v
  PROVE  Register!Next
<1>1. Content(name)' = v
  BY DEF Content
<1>2. {Content(f) : f \in disk}' = {Content(f) : f \in disk} \cup {v}
  <2>1. Content(g)' = v
    BY DEF Content
  <2> QED BY <2>1
<1> QED BY <1>1, <1>2 DEF Register!Next, Register!Change

LEMMA NextRefines ==
  ASSUME IInv, [Next]_vars
  PROVE  [Register!Next]_(Register!vars)
<1> USE DEF IInv
<1>1. ASSUME NEW p \in Procs, Rename(p) PROVE Register!Next
  <2>1. /\ proc[p].new \in Versions /\ data[proc[p].tmp] = proc[p].new /\ proc[p].tmp # 0
    BY <1>1 DEF Rename, At, ProcInv, ProcOK, TypeOK
  <2> QED BY <1>1, <2>1, Changes DEF Rename, Content
<1>2. ASSUME NEW v \in Versions, Replace(v) PROVE Register!Next
  <2>1. made \in Nat /\ made + 1 # 0 /\ made + 1 \notin disk /\ made + 1 \in Files
    BY <1>2, ConstantFacts DEF Replace, TypeOK, Files
  <2>2. data'[made + 1] = v /\ \A f \in disk \ {0} : data'[f] = data[f]
    BY <1>2, <2>1 DEF Replace, TypeOK, FileInv
  <2> QED BY <1>2, <2>1, <2>2, Changes DEF Replace, Content
<1>3. CASE Remove
  BY <1>3, Changes DEF Remove, Content
<1>4. ASSUME NEW p \in Procs, SyncDir(p) PROVE Register!Next
  <2>1. /\ Content(name)' = Content(name) /\ acked' = TRUE
        /\ {Content(f) : f \in disk}' = {Content(name)}
    BY <1>4 DEF SyncDir, Content
  <2> QED BY <2>1 DEF Register!Next, Register!Acknowledge
<1>5. CASE PowerLoss
  <2>1. PICK lost \in SUBSET ((1 .. made) \ synced), f \in disk :
          /\ data' = [g \in Files |-> IF g \in lost THEN Partial ELSE data[g]]
          /\ name' = f /\ disk' = {f} /\ acked' = acked
    BY <1>5 DEF PowerLoss
  <2>2. f # 0 => data'[f] = data[f]
    BY <2>1 DEF FileInv, TypeOK
  <2>3. /\ Content(name)' = Content(f)
        /\ {Content(g) : g \in disk}' = {Content(f)}
    BY <2>1, <2>2 DEF Content
  <2> QED BY <2>1, <2>3 DEF Register!Next, Register!PowerLoss
<1>6. ASSUME NEW p \in Procs, BeginCopy(p) \/ EndCopy(p) PROVE UNCHANGED Register!vars
  <2>1. /\ \E d : data' = [data EXCEPT ![proc[p].tmp] = d]
        /\ UNCHANGED <<name, disk, acked>> /\ proc[p].tmp \notin disk
    BY <1>6 DEF BeginCopy, EndCopy, Into, At, ProcInv, ProcOK
  <2>2. \A f \in disk \ {0} : data'[f] = data[f]
    BY <2>1 DEF FileInv, TypeOK
  <2> QED BY <2>1, <2>2, Stutters
<1>7. CASE UNCHANGED <<data, name, disk, acked>>
  BY <1>7, Stutters
<1>8. ASSUME NEW p \in Procs,
             \/ Lock(p) \/ Unlock(p) \/ ReadSnapshot(p) \/ Validate(p) \/ Apply(p)
             \/ (\E v \in Versions : Create(p, v)) \/ Accept(p) \/ Sync(p) \/ SyncDirFails(p)
             \/ Fail(p) \/ Kill(p)
      PROVE  UNCHANGED <<data, name, disk, acked>>
  BY <1>8 DEF Lock, Unlock, ReadSnapshot, Validate, Apply, Create, Accept, Sync,
     SyncDirFails, Fail, Kill, files
<1>9. ASSUME NEW r \in Readers, Open(r) \/ ReadAll(r) \/ Close(r)
      PROVE  UNCHANGED <<data, name, disk, acked>>
  BY <1>9 DEF Open, ReadAll, Close, files
<1>10. CASE UNCHANGED vars
  BY <1>7, <1>10 DEF vars
<1> QED BY <1>1, <1>2, <1>3, <1>4, <1>5, <1>6, <1>7, <1>8, <1>9, <1>10 DEF Next

\* The patch file implements the register.
THEOREM Refinement == Spec => ImplementsRegister
<1>1. Init => Register!Init
  BY DEF Init, Register!Init, Content
<1>2. IInv /\ [Next]_vars => [Register!Next]_(Register!vars)
  BY NextRefines
<1> QED BY <1>1, <1>2, Invariance, PTL DEF Spec, ImplementsRegister, Register!Spec
=============================================================================
