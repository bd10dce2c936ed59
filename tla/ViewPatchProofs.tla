--------------------------- MODULE ViewPatchProofs ---------------------------
(***************************************************************************)
(* The theorems about ViewPatch: its type invariant, that a patch restores *)
(* the view it was saved from, and that in worktree mode it holds nothing  *)
(* but what tools have changed.                                            *)
(***************************************************************************)
EXTENDS ViewPatch, TLAPS

\* Special files are where neither the pinned tree nor the index has a file:
\* an export meets them among the untracked only.
SpecialUntracked ==
  Open => \A p \in Paths : sess.view[p] \in Special =>
            /\ sess.base[p] = Absent
            /\ opts.base = "repo" => index[p] = Absent

\* In worktree mode a path that no tool has changed is as in the pinned tree, or
\* a converted form of it.
Untouched ==
  opts.base = "worktree" /\ Open => \A p \in Paths \ touched :
    Canon(p, sess.view[p]) = sess.base[p] \/ sess.view[p] = sess.base[p]

IInv == TypeOK /\ SpecialUntracked /\ Untouched /\ OnlyTools

LEMMA CanonType ==
  ASSUME NEW p, NEW f \in Files
  PROVE  /\ Canon(p, f) \in Files
         /\ f \in Regular \cup {Absent} => Canon(p, f) \in Regular \cup {Absent}
         /\ Canon(p, f) = Absent <=> f = Absent
         /\ f \notin Regular => Canon(p, f) = f
         /\ p \notin opts.converted => Canon(p, f) = f
<1> QED BY ViewAssumption DEF ViewAssumption, Canon, Files, Regular

\* What a patch with one block for a path makes of each path.
LEMMA PatchedAt ==
  ASSUME NEW files, NEW blocks, NEW p \in Paths,
         \A b, c \in blocks : b.path = c.path => b = c
  PROVE  /\ \A b \in blocks : b.path = p => Patched(files, blocks)[p] = b.new
         /\ (\A b \in blocks : b.path # p) => Patched(files, blocks)[p] = files[p]
<1>1. ASSUME NEW b \in blocks, b.path = p
      PROVE  Patched(files, blocks)[p] = b.new
  <2>1. (CHOOSE c \in blocks : c.path = p) = b
    BY <1>1
  <2> QED BY <1>1, <2>1 DEF Patched
<1> QED BY <1>1 DEF Patched

LEMMA KeptPart ==
  ASSUME NEW files, NEW blocks
  PROVE  Kept(files, blocks) \subseteq blocks
<1> QED BY DEF Kept

\* An applied patch makes files again.
LEMMA AppliedType ==
  ASSUME NEW files \in [Paths -> Files], NEW blocks \in SUBSET Blocks,
         \A b, c \in blocks : b.path = c.path => b = c
  PROVE  Applied(files, blocks) \in [Paths -> Files]
<1> DEFINE K == Kept(files, blocks)
<1>1. K \subseteq blocks
  BY KeptPart
<1>2. \A b, c \in K : b.path = c.path => b = c
  BY <1>1
<1>3. ASSUME NEW p \in Paths PROVE Patched(files, K)[p] \in Files
  <2>1. CASE \E b \in K : b.path = p
    <3>1. PICK b \in K : b.path = p
      BY <2>1
    <3>2. b.new \in Files
      BY <1>1 DEF Blocks, Files
    <3> QED BY <1>2, <3>1, <3>2, PatchedAt
  <2>2. CASE \A b \in K : b.path # p
    BY <1>2, <2>2, PatchedAt
  <2> QED BY <2>1, <2>2
<1>4. Patched(files, K) = [p \in Paths |-> Patched(files, K)[p]]
  BY DEF Patched
<1> QED BY <1>3, <1>4 DEF Applied

LEMMA OpenType == ASSUME TypeOK, Open PROVE sess \in SessionType
<1> QED BY DEF TypeOK, Open

LEMMA FilesNotEmpty ==
  ASSUME TypeOK, Open
  PROVE  /\ sess.base \in Trees /\ sess.view \in [Paths -> Files]
         /\ sess.lower \in [Paths -> Files]
         /\ \A p \in Paths : sess.base[p] \in Regular \cup {Absent}
         /\ \A p \in Paths : sess.view[p] \in Files
<1> QED BY OpenType DEF SessionType, Trees

\* The blocks of an export: one for each changed path, and none of them empty.
LEMMA ExportType ==
  ASSUME IInv, Open, NEW r \in SUBSET Paths
  PROVE  /\ Export(sess, r) \subseteq Blocks
         /\ \A b \in Export(sess, r) : b.old # b.new
         /\ \A b, c \in Export(sess, r) : b.path = c.path => b = c
         /\ Changed(sess) \subseteq Paths
<1> USE DEF IInv
<1>1. Changed(sess) \subseteq Paths
  BY DEF Changed, Tracked, Untracked, Present
<1>2. ASSUME NEW p \in Changed(sess)
      PROVE  /\ p \in Paths
             /\ sess.base[p] \in Regular \cup {Absent}
             /\ Canon(p, sess.view[p]) \in Regular \cup {Absent}
             /\ sess.base[p] # Canon(p, sess.view[p])
  <2>1. p \in Paths /\ sess.view[p] \in Files /\ sess.base[p] \in Regular \cup {Absent}
    BY <1>1, FilesNotEmpty
  <2>2. CASE p \in Untracked(sess)
    <3>1. sess.view[p] # Absent /\ sess.view[p] \notin Special /\ sess.base[p] = Absent
      BY <2>1, <2>2 DEF Untracked, Present, Tracked
    <3> QED BY <2>1, <3>1, CanonType DEF Files
  <2>3. CASE p \notin Untracked(sess)
    <3>1. p \in Tracked(sess) /\ Canon(p, sess.view[p]) # sess.base[p]
      BY <2>3 DEF Changed
    <3>2. sess.view[p] \notin Special
      BY <2>1, <3>1 DEF SpecialUntracked, Tracked, Present
    <3> QED BY <2>1, <3>1, <3>2, CanonType DEF Files
  <2> QED BY <2>2, <2>3
<1>3. ASSUME NEW b \in Export(sess, r) PROVE b \in Blocks
  <2>1. PICK p \in Changed(sess) :
          b = [path |-> p, old |-> sess.base[p], new |-> Canon(p, sess.view[p]),
               renamed |-> p \in r]
    BY DEF Export
  <2>2. (p \in r) \in BOOLEAN
    OBVIOUS
  <2>3. /\ p \in Paths /\ sess.base[p] \in Regular \cup {Absent}
        /\ Canon(p, sess.view[p]) \in Regular \cup {Absent}
    BY <1>2
  <2> HIDE DEF IInv
  <2> QED BY <2>1, <2>2, <2>3, Zenon DEF Blocks
<1>4. \A b \in Export(sess, r) : b.old # b.new
  BY <1>2 DEF Export
<1>5. \A b, c \in Export(sess, r) : b.path = c.path => b = c
  BY DEF Export
<1> QED BY <1>1, <1>3, <1>4, <1>5

LEMMA InitInv == ASSUME Init PROVE IInv
<1>1. TypeOK
  BY ViewAssumption DEF ViewAssumption, Init, TypeOK
<1>2. SpecialUntracked /\ Untouched /\ OnlyTools
  BY DEF Init, SpecialUntracked, Untouched, OnlyTools, Open
<1> QED BY <1>1, <1>2 DEF IInv

\* The user's steps: in repo mode none of them happens while a session is open.
LEMMA UserKeeps == ASSUME IInv, Edit \/ Stage \/ Commit PROVE IInv'
<1> USE DEF IInv
<1>1. /\ UNCHANGED <<opts, patch, sess, touched, touches>>
      /\ Open => opts.base = "worktree"
      /\ edits' \in 0 .. MaxEdits
  BY ViewAssumption DEF ViewAssumption, Edit, Stage, Commit, Users, TypeOK
<1>2. head' \in Trees /\ index' \in Trees /\ work' \in Trees
  <2>1. CASE Edit
    BY <2>1 DEF Edit, Trees, TypeOK
  <2>2. CASE Stage
    <3>1. PICK p \in Paths : index' = [index EXCEPT ![p] = Canon(p, work[p])]
      BY <2>2 DEF Stage
    <3>2. Canon(p, work[p]) \in Regular \cup {Absent}
      BY CanonType DEF TypeOK, Trees, Files
    <3> QED BY <2>2, <3>1, <3>2 DEF Stage, Trees, TypeOK
  <2>3. CASE Commit
    BY <2>3 DEF Commit, TypeOK
  <2> QED BY <2>1, <2>2, <2>3
<1>3. TypeOK'
  BY <1>1, <1>2 DEF TypeOK
<1>4. SpecialUntracked'
  <2>1. Open' <=> Open
    BY <1>1 DEF Open
  <2> QED BY <1>1, <2>1 DEF SpecialUntracked
<1>5. Untouched' /\ OnlyTools'
  BY <1>1 DEF Untouched, OnlyTools, Open, Canon
<1> QED BY <1>3, <1>4, <1>5

LEMMA OpenKeeps == ASSUME IInv, OpenSession PROVE IInv'
<1> USE DEF IInv
<1>1. PICK l \in [Paths -> Regular \cup {Absent}] :
        LET view == Applied(l, patch)
            new  == [base |-> head, lower |-> l, view |-> view, initial |-> {}]
        IN /\ Lower(l) /\ Applies(l, patch)
           /\ sess' = [new EXCEPT !.initial = Ignored(view, Tracked(new))]
  BY DEF OpenSession
<1> DEFINE view == Applied(l, patch)
           new  == [base |-> head, lower |-> l, view |-> view, initial |-> {}]
           init == Ignored(view, Tracked(new))
<1>2. sess' = [base |-> head, lower |-> l, view |-> view, initial |-> init]
  BY <1>1
<1>3. UNCHANGED <<opts, head, index, work, patch, touched, edits, touches>>
  BY DEF OpenSession, checkout
<1>4. /\ patch \subseteq Blocks
      /\ \A b, c \in patch : b.path = c.path => b = c
      /\ head \in Trees
  BY DEF TypeOK
<1>5. l \in [Paths -> Files] /\ view \in [Paths -> Files]
  <2>1. l \in [Paths -> Files]
    BY DEF Files
  <2> QED BY <1>4, <2>1, AppliedType
<1>6. init \in SUBSET Paths
  BY <1>5, ViewAssumption DEF ViewAssumption, Ignored
<1>7. sess' \in SessionType
  BY <1>2, <1>4, <1>5, <1>6 DEF SessionType
<1>8. TypeOK'
  BY <1>3, <1>7 DEF TypeOK
\* What the view has of a path: what the patch says, or what the lower layer has.
<1>9. ASSUME NEW p \in Paths
      PROVE  \/ \E b \in patch : b.path = p /\ view[p] = b.new
             \/ view[p] = l[p]
  <2> DEFINE K == Kept(l, patch)
  <2>1. K \subseteq patch
    BY KeptPart
  <2>2. \A b, c \in K : b.path = c.path => b = c
    BY <1>4, <2>1
  <2>3. view[p] = Patched(l, K)[p]
    BY DEF Applied
  <2>4. CASE \E b \in K : b.path = p
    BY <2>1, <2>2, <2>3, <2>4, PatchedAt
  <2>5. CASE \A b \in K : b.path # p
    BY <2>2, <2>3, <2>5, PatchedAt
  <2> QED BY <2>4, <2>5
<1>10. SpecialUntracked'
  <2>1. \A p \in Paths : view[p] \in Regular \cup {Absent}
    BY <1>4, <1>9 DEF Blocks
  <2>2. \A p \in Paths : view[p] \notin Special
    BY <2>1, ViewAssumption DEF ViewAssumption
  <2>3. sess'.view = view
    BY <1>2
  <2> QED BY <2>2, <2>3 DEF SpecialUntracked
<1>11. Untouched'
  <2> SUFFICES ASSUME opts.base = "worktree", NEW p \in Paths \ touched
               PROVE  Canon(p, view[p]) = head[p] \/ view[p] = head[p]
    BY <1>2, <1>3 DEF Untouched, Canon
  <2>1. \A b \in patch : b.path # p
    BY DEF OnlyTools
  <2>2. view[p] = l[p]
    BY <1>9, <2>1
  <2>3. Lower(l)
    BY <1>1
  <2> QED BY <2>2, <2>3 DEF Lower
<1>12. OnlyTools'
  BY <1>3 DEF OnlyTools
<1> QED BY <1>8, <1>10, <1>11, <1>12

LEMMA TouchKeeps == ASSUME IInv, Touch PROVE IInv'
<1> USE DEF IInv
<1>1. PICK p \in Paths, f \in Files :
        /\ f \in Special => sess.base[p] = Absent /\ index[p] = Absent
        /\ sess' = [sess EXCEPT !.view[p] = f]
        /\ touched' = touched \cup {p}
  BY DEF Touch
<1>2. /\ UNCHANGED <<opts, head, index, work, patch, edits>>
      /\ Open /\ touches' \in 0 .. MaxTouches
  BY ViewAssumption DEF ViewAssumption, Touch, checkout, TypeOK
<1>3. /\ sess \in SessionType
      /\ sess' = [base |-> sess.base, lower |-> sess.lower, initial |-> sess.initial,
                  view |-> [sess.view EXCEPT ![p] = f]]
  BY <1>1, <1>2, OpenType DEF SessionType
<1>4. sess' \in SessionType
  BY <1>3 DEF SessionType
<1>5. TypeOK'
  BY <1>1, <1>2, <1>4 DEF TypeOK
<1>6. \A q \in Paths : /\ sess'.base = sess.base
                       /\ q = p => sess'.view[q] = f
                       /\ q # p => sess'.view[q] = sess.view[q]
  BY <1>3 DEF SessionType
<1>7. SpecialUntracked'
  BY <1>1, <1>2, <1>6 DEF SpecialUntracked
<1>8. Untouched'
  <2> SUFFICES ASSUME opts.base = "worktree", NEW q \in Paths \ (touched \cup {p})
               PROVE  Canon(q, sess'.view[q]) = sess'.base[q] \/ sess'.view[q] = sess'.base[q]
    BY <1>1, <1>2 DEF Untouched, Canon
  <2> QED BY <1>2, <1>6 DEF Untouched
<1>9. OnlyTools'
  BY <1>1, <1>2 DEF OnlyTools
<1> QED BY <1>5, <1>7, <1>8, <1>9

\* Of a path that no tool has changed a save in worktree mode has no block.
LEMMA SaveOnlyTools ==
  ASSUME IInv, Open, Storable(sess), opts.base = "worktree", NEW p \in Changed(sess)
  PROVE  p \in touched
<1> USE DEF IInv
<1>1. p \in Paths /\ sess.view[p] \in Files /\ sess.base[p] \in Regular \cup {Absent}
  BY FilesNotEmpty DEF Changed, Tracked, Untracked, Present
<1> SUFFICES ASSUME p \notin touched PROVE FALSE
  OBVIOUS
<1>2. Canon(p, sess.view[p]) = sess.base[p] \/ sess.view[p] = sess.base[p]
  BY <1>1 DEF Untouched
<1>3. CASE p \in Untracked(sess)
  <2>1. sess.base[p] = Absent /\ sess.view[p] # Absent
    BY <1>1, <1>3 DEF Untracked, Tracked, Present
  <2> QED BY <1>1, <1>2, <2>1, CanonType
<1>4. CASE p \notin Untracked(sess)
  <2>1. p \in Tracked(sess) /\ Canon(p, sess.view[p]) # sess.base[p]
    BY <1>4 DEF Changed
  <2>2. sess.view[p] = sess.base[p]
    BY <1>2, <2>1
  <2>3. p \in opts.converted /\ sess.view[p] \in Regular
    BY <1>1, <2>1, <2>2, CanonType
  <2> QED BY <2>1, <2>3 DEF Storable
<1> QED BY <1>3, <1>4

LEMMA SaveKeeps == ASSUME IInv, Save PROVE IInv'
<1> USE DEF IInv
<1>1. /\ Open /\ Storable(sess)
      /\ UNCHANGED <<opts, head, index, work, sess, touched, edits, touches>>
  BY DEF Save, checkout
<1>2. PICK r \in SUBSET Paths : patch' = Export(sess, r)
  BY DEF Save, Renames, Tracked, Present
<1>3. TypeOK'
  BY <1>1, <1>2, ExportType DEF TypeOK
<1>4. SpecialUntracked' /\ Untouched'
  BY <1>1 DEF SpecialUntracked, Untouched, Open, Canon
<1>5. OnlyTools'
  BY <1>1, <1>2, SaveOnlyTools DEF OnlyTools, Export
<1> QED BY <1>3, <1>4, <1>5

LEMMA CloseKeeps == ASSUME IInv, Close PROVE IInv'
<1> QED BY DEF IInv, Close, checkout, TypeOK, SpecialUntracked, Untouched, OnlyTools, Open

LEMMA NextKeeps == ASSUME IInv, [Next]_vars PROVE IInv'
<1>1. CASE UNCHANGED vars
  BY <1>1 DEF IInv, vars, checkout, TypeOK, SpecialUntracked, Untouched, OnlyTools, Open,
     Canon
<1> QED BY <1>1, UserKeeps, OpenKeeps, TouchKeeps, SaveKeeps, CloseKeeps DEF Next

\* The invariant.
THEOREM Invariance == Spec => []IInv
<1>1. Init => IInv
  BY InitInv
<1>2. IInv /\ [Next]_vars => IInv'
  BY NextKeeps
<1> QED BY <1>1, <1>2, PTL DEF Spec

\* A patch has at most one block for a path, and none that says nothing.
THEOREM TypeCorrect == Spec => []TypeOK
<1>1. IInv => TypeOK
  BY DEF IInv
<1> QED BY <1>1, Invariance, PTL

\* In worktree mode nothing that only the user did in the checkout is saved
\* (exportEnv's pinned base, checkStorageAttributes).
THEOREM WorktreeIsolated == Spec => []OnlyTools
<1>1. IInv => OnlyTools
  BY DEF IInv
<1> QED BY <1>1, Invariance, PTL

\* The blocks of a save fit the pinned tree and give the view.
LEMMA SaveRestores ==
  ASSUME IInv, Save
  PROVE  Restores(sess, patch')
<1> USE DEF IInv
<1>1. Open /\ Storable(sess) /\ Ignored(sess.view, Tracked(sess)) = sess.initial
  BY DEF Save, IgnoredSame
<1>2. PICK r \in SUBSET Paths : patch' = Export(sess, r)
  BY DEF Save, Renames, Tracked, Present
<1> DEFINE E == Export(sess, r)
           K == Kept(sess.lower, E)
<1>3. \A b, c \in E : b.path = c.path => b = c
  BY <1>1, ExportType
<1>4. \A b \in E : /\ b.path \in Changed(sess) /\ b.path \in Paths
                   /\ b.old = sess.base[b.path]
                   /\ b.new = Canon(b.path, sess.view[b.path])
  BY <1>1, ExportType DEF Export
<1>5. ASSUME NEW p \in Changed(sess) PROVE \E b \in E : b.path = p
  <2> DEFINE b == [path |-> p, old |-> sess.base[p], new |-> Canon(p, sess.view[p]),
                   renamed |-> p \in r]
  <2>1. b \in E
    BY DEF Export
  <2> QED BY <2>1
<1>6. K \subseteq E
  BY KeptPart
<1>7. \A p \in Paths : /\ sess.view[p] \in Files
                       /\ sess.base[p] \in Regular \cup {Absent}
  BY <1>1, FilesNotEmpty
<1>8. ASSUME \A p \in Paths : Canon(p, sess.lower[p]) = sess.base[p]
      PROVE  Applies(sess.lower, E)
  <2>1. \A b \in E : Fits(sess.lower, b)
    BY <1>4, <1>8 DEF Fits
  <2> QED BY <1>6, <2>1 DEF Applies
\* No conversion stands between a changed path and what is stored of it.
<1>9. ASSUME NEW p \in Changed(sess)
      PROVE  Canon(p, sess.view[p]) = sess.view[p]
  <2>1. p \in Paths
    BY <1>1, ExportType
  <2>2. CASE p \in opts.converted /\ sess.view[p] \in Regular
    <3>1. p \in Tracked(sess) \cup Untracked(sess)
      BY DEF Changed
    <3> QED BY <1>1, <2>2, <3>1 DEF Storable
  <2> QED BY <1>7, <2>1, <2>2, CanonType
\* A path that is not changed is as in the pinned tree, or out of reach.
<1>10. ASSUME NEW p \in Paths, p \notin Changed(sess)
       PROVE  \/ sess.view[p] = sess.base[p]
              \/ p \in sess.initial
              \/ sess.view[p] \in Special
  <2>1. CASE p \in Tracked(sess)
    <3>1. Canon(p, sess.view[p]) = sess.base[p]
      BY <1>10, <2>1 DEF Changed
    <3>2. CASE p \in opts.converted /\ sess.view[p] \in Regular
      BY <1>1, <2>1, <3>2 DEF Storable
    <3> QED BY <1>7, <3>1, <3>2, CanonType
  <2>2. CASE p \notin Tracked(sess) /\ sess.view[p] # Absent
    <3>1. p \notin Untracked(sess)
      BY <1>10 DEF Changed
    <3>2. p \in IgnoredBy[sess.view[IgnoreFile]] \/ sess.view[p] \in Special
      BY <2>2, <3>1 DEF Untracked, Present
    <3> QED BY <1>1, <2>2, <3>2 DEF Ignored
  <2>3. CASE p \notin Tracked(sess) /\ sess.view[p] = Absent
    BY <2>3 DEF Tracked, Present
  <2> QED BY <2>1, <2>2, <2>3
<1>11. ASSUME NEW p \in Paths
       PROVE  \/ Applied(sess.lower, E)[p] = sess.view[p]
              \/ p \in sess.initial
              \/ sess.view[p] \in Special
              \/ sess.view[p] = sess.base[p] /\ sess.lower[p] # sess.base[p]
  <2>1. \A b, c \in K : b.path = c.path => b = c
    BY <1>3, <1>6
  <2>2. Applied(sess.lower, E)[p] = Patched(sess.lower, K)[p]
    BY DEF Applied
  <2>3. CASE \E b \in K : b.path = p
    <3>1. PICK b \in K : b.path = p
      BY <2>3
    <3>2. Patched(sess.lower, K)[p] = b.new
      BY <2>1, <3>1, PatchedAt
    <3>3. b.new = sess.view[p]
      BY <1>4, <1>6, <1>9, <3>1
    <3> QED BY <2>2, <3>2, <3>3
  <2>4. CASE \A b \in K : b.path # p
    <3>1. Applied(sess.lower, E)[p] = sess.lower[p]
      BY <2>1, <2>2, <2>4, PatchedAt
    <3>2. CASE p \in Changed(sess)
      <4>1. PICK b \in E : b.path = p
        BY <1>5, <3>2
      <4>2. b \notin K
        BY <2>4, <4>1
      <4>3. Skips(sess.lower, b)
        BY <4>1, <4>2 DEF Kept
      <4>4. sess.lower[p] = b.new
        BY <4>1, <4>3 DEF Skips
      <4> QED BY <1>4, <1>9, <3>1, <3>2, <4>1, <4>4
    <3>3. CASE p \notin Changed(sess)
      BY <1>10, <3>1, <3>3
    <3> QED BY <3>2, <3>3
  <2> QED BY <2>3, <2>4
<1> QED BY <1>2, <1>8, <1>11 DEF Restores

\* A saved patch restores the view that it was saved from, or does not apply
\* (exportPatchToWriter, applyPatchStore, FilterExistingNewFilesReader).
THEOREM PatchReproduces == Spec => Reproduces
<1>1. IInv /\ [Next]_vars => [Save => Restores(sess, patch')]_vars
  BY SaveRestores
<1> QED BY <1>1, Invariance, PTL DEF Spec, Reproduces
\* Two blocks that differ in what git shows as renamed at most.
SameBlock(b, c) == b.path = c.path /\ b.old = c.old /\ b.new = c.new

\* The view is what the patch makes of the lower layer, and that is the pinned
\* tree: nobody has changed it since it was opened or saved.
AsPatched(s, blocks) ==
  /\ s.lower = s.base /\ \A p \in Paths : Canon(p, s.base[p]) = s.base[p]
  /\ Applies(s.lower, blocks) /\ s.view = Applied(s.lower, blocks)

\* The new blocks are the old ones, without those that the pinned tree has by
\* now and those of paths that are ignored now.
SaysTheSame(s, blocks, new) ==
  /\ \A b \in new : \E c \in blocks : SameBlock(b, c)
  /\ \A c \in blocks : \/ \E b \in new : SameBlock(b, c)
                       \/ s.base[c.path] = c.new
                       \/ c.path \in s.initial

IdleSaves == [][Save /\ AsPatched(sess, patch) => SaysTheSame(sess, patch, patch')]_vars

\* What the view has of each path, and whether the export mentions it.
LEMMA IdleSave ==
  ASSUME IInv, Save, AsPatched(sess, patch)
  PROVE  SaysTheSame(sess, patch, patch')
<1> DEFINE base == sess.base
           view == sess.view
           K == Kept(base, patch)
<1>1. /\ Open /\ Storable(sess) /\ Ignored(view, Tracked(sess)) = sess.initial
  BY DEF Save, IgnoredSame
<1>2. PICK r \in SUBSET Paths : patch' = Export(sess, r)
  BY DEF Save, Renames, Tracked, Present
<1>3. /\ patch \subseteq Blocks
      /\ \A b \in patch : b.old # b.new
      /\ \A b, c \in patch : b.path = c.path => b = c
  BY DEF IInv, TypeOK
<1>4. /\ \A p \in Paths : /\ view[p] \in Files /\ base[p] \in Regular \cup {Absent}
                          /\ Canon(p, base[p]) = base[p]
      /\ \A b \in K : Canon(b.path, base[b.path]) = b.old
      /\ view = Patched(base, K)
  <2>1. TypeOK
    BY DEF IInv
  <2>2. \A p \in Paths : view[p] \in Files /\ base[p] \in Regular \cup {Absent}
    BY <1>1, <2>1, FilesNotEmpty
  <2> QED BY <2>2 DEF AsPatched, Applies, Applied, Fits
<1>5. K \subseteq patch /\ \A b, c \in K : b.path = c.path => b = c
  <2>1. K \subseteq patch
    BY KeptPart
  <2> QED BY <1>3, <2>1
<1>6. \A b \in K : /\ b.path \in Paths /\ b.new \in Regular \cup {Absent}
                   /\ view[b.path] = b.new /\ b.old = base[b.path] /\ b.old # b.new
  <2> SUFFICES ASSUME NEW b \in K
               PROVE  /\ b.path \in Paths /\ b.new \in Regular \cup {Absent}
                      /\ view[b.path] = b.new /\ b.old = base[b.path] /\ b.old # b.new
    OBVIOUS
  <2>1. b.path \in Paths /\ b.new \in Regular \cup {Absent} /\ b.old # b.new
    BY <1>3, <1>5 DEF Blocks
  <2>2. view[b.path] = b.new
    BY <1>4, <1>5, <2>1, PatchedAt
  <2>3. b.old = base[b.path]
    BY <1>4, <2>1
  <2> QED BY <2>1, <2>2, <2>3
<1>7. ASSUME NEW p \in Paths, \A b \in K : b.path # p PROVE view[p] = base[p]
  BY <1>4, <1>5, <1>7, PatchedAt
\* A path that the export mentions has a block in the patch.
<1>8. ASSUME NEW p \in Changed(sess) PROVE \E c \in K : c.path = p
  <2>1. p \in Paths
    BY DEF Changed, Tracked, Untracked, Present
  <2> SUFFICES ASSUME \A c \in K : c.path # p PROVE FALSE
    OBVIOUS
  <2>2. view[p] = base[p]
    BY <1>7, <2>1
  <2>3. CASE p \in Untracked(sess)
    BY <2>1, <2>2, <2>3 DEF Untracked, Tracked, Present
  <2>4. CASE p \notin Untracked(sess)
    BY <1>4, <2>1, <2>2, <2>4 DEF Changed
  <2> QED BY <2>3, <2>4
\* No conversion applies to what a block of the patch says.
<1>9. ASSUME NEW c \in K, c.path \in Tracked(sess) \cup Untracked(sess)
      PROVE  Canon(c.path, c.new) = c.new
  <2>1. CASE c.path \in opts.converted /\ c.new \in Regular
    BY <1>1, <1>6, <1>9, <2>1 DEF Storable
  <2>2. CASE ~(c.path \in opts.converted /\ c.new \in Regular)
    <3>1. c.new \in Files
      BY <1>6 DEF Files
    <3> QED BY <2>2, <3>1, CanonType
  <2> QED BY <2>1, <2>2
\* A path with a block is mentioned, or ignored.
<1>10. ASSUME NEW c \in K PROVE c.path \in Changed(sess) \/ c.path \in sess.initial
  <2>1. /\ c.path \in Paths /\ view[c.path] = c.new /\ c.new # base[c.path]
        /\ c.new \in Regular \cup {Absent}
    BY <1>6
  <2>2. CASE c.path \in Tracked(sess)
    <3>1. Canon(c.path, view[c.path]) # base[c.path]
      BY <1>9, <2>1, <2>2
    <3> QED BY <2>2, <3>1 DEF Changed
  <2>3. CASE c.path \notin Tracked(sess)
    <3>1. view[c.path] # Absent
      BY <1>4, <2>1, <2>3 DEF Tracked, Present
    <3>2. view[c.path] \notin Special
      BY <2>1, <3>1, ViewAssumption DEF ViewAssumption
    <3>3. CASE c.path \in IgnoredBy[view[IgnoreFile]]
      BY <1>1, <2>3, <3>1, <3>3 DEF Ignored
    <3>4. CASE c.path \notin IgnoredBy[view[IgnoreFile]]
      BY <2>1, <2>3, <3>1, <3>2, <3>4 DEF Changed, Untracked, Present
    <3> QED BY <3>3, <3>4
  <2> QED BY <2>2, <2>3
<1>11. ASSUME NEW c \in K, NEW p \in Changed(sess), c.path = p
       PROVE  c.old = base[p] /\ c.new = Canon(p, view[p])
  <2>1. p \in Tracked(sess) \cup Untracked(sess)
    BY DEF Changed
  <2> QED BY <1>6, <1>9, <1>11, <2>1
<1>12. ASSUME NEW b \in Export(sess, r) PROVE \E c \in patch : SameBlock(b, c)
  <2>1. PICK p \in Changed(sess) :
          b = [path |-> p, old |-> base[p], new |-> Canon(p, view[p]), renamed |-> p \in r]
    BY DEF Export
  <2>2. PICK c \in K : c.path = p
    BY <1>8
  <2> QED BY <1>5, <1>11, <2>1, <2>2 DEF SameBlock
<1>13. ASSUME NEW c \in patch
       PROVE  \/ \E b \in Export(sess, r) : SameBlock(b, c)
              \/ base[c.path] = c.new
              \/ c.path \in sess.initial
  <2>1. CASE c \in K /\ c.path \in Changed(sess)
    <3> DEFINE p == c.path
               b == [path |-> p, old |-> base[p], new |-> Canon(p, view[p]),
                     renamed |-> p \in r]
    <3>1. b \in Export(sess, r)
      BY <2>1 DEF Export
    <3>2. SameBlock(b, c)
      BY <1>11, <2>1 DEF SameBlock
    <3> QED BY <3>1, <3>2
  <2>2. CASE c \notin K
    BY <2>2 DEF Kept, Skips
  <2> QED BY <1>10, <2>1, <2>2
<1> QED BY <1>2, <1>12, <1>13 DEF SaysTheSame

\* Whoever saves a view that nobody has changed leaves the patch as it is, apart
\* from what has been committed since and from new files that are ignored now
\* (exportPatchToWriter, ListUntracked): a flush of an idle session adds nothing
\* and loses nothing else.
THEOREM IdleSavesKeep == Spec => IdleSaves
<1>1. IInv /\ [Next]_vars =>
        [Save /\ AsPatched(sess, patch) => SaysTheSame(sess, patch, patch')]_vars
  BY IdleSave
<1> QED BY <1>1, Invariance, PTL DEF Spec, IdleSaves
=============================================================================
