------------------------------ MODULE ViewPatch ------------------------------
(***************************************************************************)
(* What a patch says of a view: a session opens a view by applying the     *)
(* saved patch to its lower layer (apply_patch.go, patchio.go), tools      *)
(* change the view, and saving exports it again with git (command_exec.go, *)
(* gitx/git.go).  Meanwhile the user works on in the checkout.             *)
(*                                                                         *)
(* A file is a value that stands for its contents and executable bit; a    *)
(* patch is a set of blocks, at most one for a path, each for a whole      *)
(* file.  Git itself is external: a block fits exactly the file that it    *)
(* was made from.                                                          *)
(***************************************************************************)
EXTENDS Integers, FiniteSets

CONSTANTS
  Paths,      \* paths of the repository
  IgnoreFile, \* the path of .gitignore
  Text,       \* files that git shows as text
  Binary,     \* files that it does not
  Special,    \* pipes, sockets and devices
  Absent,     \* no file
  Norm,       \* what git stores of a text where a conversion applies
  IgnoredBy,  \* the paths that a given .gitignore ignores
  IgnoredMax, \* --ignored-max; 0 is not modelled: nothing is compared then
  MaxEdits,   \* bound: the user's steps in the checkout
  MaxTouches  \* bound: changes made in views

Regular == Text \cup Binary
Files   == Regular \cup Special \cup {Absent}
Trees   == [Paths -> Regular \cup {Absent}]
Blocks  == [path : Paths, old : Regular \cup {Absent}, new : Regular \cup {Absent},
            renamed : BOOLEAN]

ASSUME ViewAssumption ==
  /\ IgnoreFile \in Paths
  /\ Absent \notin Regular \cup Special /\ Special \cap Regular = {}
  /\ Text \cap Binary = {}
  /\ Norm \in [Text -> Text] /\ \A t \in Text : Norm[Norm[t]] = Norm[t]
  /\ IgnoredBy \in [Files -> SUBSET Paths] /\ IgnoredBy[Absent] = {}
  /\ IgnoredMax \in Nat \ {0} /\ MaxEdits \in Nat /\ MaxTouches \in Nat

VARIABLES
  opts,    \* --base-mode, --allow-dirty, --apply-mode; where conversions apply
  head,    \* the tree of the checkout's HEAD
  index,   \* the checkout's index
  work,    \* the files of the checkout
  patch,   \* the saved patch
  sess,    \* the open session, or NoSession
  touched, \* the paths that any session's tools have changed
  edits, touches

vars == <<opts, head, index, work, patch, sess, touched, edits, touches>>
checkout == <<head, index, work>>

OptionType == [base : {"repo", "worktree"}, dirty : BOOLEAN, strict : BOOLEAN,
               converted : SUBSET Paths]
\* base: the pinned tree.  lower: the lower layer.  initial: the ignored paths
\* of the view as it was opened.
SessionType == [base : Trees, lower : [Paths -> Files], view : [Paths -> Files],
                initial : SUBSET Paths]
NoSession == [base |-> {}]
Open == sess # NoSession

Canon(p, f) == IF p \in opts.converted /\ f \in Text THEN Norm[f] ELSE f
Present(tree) == {p \in Paths : tree[p] # Absent}

\* The ignored paths of a view that are there and not tracked.
Ignored(files, tracked) ==
  {p \in IgnoredBy[files[IgnoreFile]] : p \notin tracked /\ files[p] # Absent}
-----------------------------------------------------------------------------
(***************************************************************************)
(* Applying a patch.                                                       *)
(***************************************************************************)
\* shouldSkipNewFileBlock: a block for a new text file that is there as the
\* block has it.
Skips(files, b) ==
  /\ b.old = Absent /\ ~b.renamed
  /\ b.new \in Text /\ files[b.path] = b.new

\* git apply is all or nothing.
Fits(files, b) == Canon(b.path, files[b.path]) = b.old
Patched(files, blocks) ==
  [p \in Paths |-> IF \E b \in blocks : b.path = p
                   THEN (CHOOSE b \in blocks : b.path = p).new
                   ELSE files[p]]

\* applyPatchStore: in strict mode a patch that does not fit is tried again
\* without the new files that are there already.
Kept(files, blocks) ==
  IF \A b \in blocks : Fits(files, b) THEN blocks
  ELSE {b \in blocks : ~(opts.strict /\ Skips(files, b))}
Applies(files, blocks) == \A b \in Kept(files, blocks) : Fits(files, b)
Applied(files, blocks) == Patched(files, Kept(files, blocks))
-----------------------------------------------------------------------------
(***************************************************************************)
(* Exporting a view.                                                       *)
(***************************************************************************)
\* exportEnv: the pinned tree and, in repo mode, what is staged on top of it
\* and there in the view.
Tracked(s) == Present(s.base) \cup
  (IF opts.base = "repo" THEN Present(index) \cap Present(s.view) ELSE {})

\* As if the checkout's own index were asked.
UntrackedBySource(s) == (Present(s.view) \ Present(index))
                        \ (IgnoredBy[s.view[IgnoreFile]] \cup {p \in Paths : s.view[p] \in Special})
\* ListUntracked asks the private index; special files are skipped.
Untracked(s) ==
  {p \in Present(s.view) \ Tracked(s) :
     p \notin IgnoredBy[s.view[IgnoreFile]] /\ s.view[p] \notin Special}

\* As if nothing were refused.
StoresAnything(s) == TRUE
\* checkStorageAttributes: a file that a conversion applies to must be as the
\* pinned tree has it, and git must see no change in it either.
Storable(s) ==
  \A p \in (Tracked(s) \cup Untracked(s)) \cap opts.converted :
    s.view[p] \in Regular => s.view[p] = s.base[p] /\ Canon(p, s.view[p]) = s.base[p]

\* exportPatchToWriter: the ignored paths are those that they were.
IgnoredSame(s) ==
  /\ Ignored(s.view, Tracked(s)) = s.initial
  /\ Cardinality(s.initial) <= IgnoredMax

\* The paths of the blocks: the diff against the pinned tree and the new files.
Changed(s) == {p \in Tracked(s) : Canon(p, s.view[p]) # s.base[p]} \cup Untracked(s)

\* git diff -M pairs some of the additions that it sees with deletions.
Renames(s) ==
  LET added == {p \in Tracked(s) : s.base[p] = Absent}
      gone  == Present(s.base) \ Present(s.view)
  IN {r \in SUBSET added : Cardinality(r) <= Cardinality(gone)}

Export(s, r) ==
  {[path |-> p, old |-> s.base[p], new |-> Canon(p, s.view[p]), renamed |-> p \in r] :
     p \in Changed(s)}
-----------------------------------------------------------------------------
Init ==
  /\ opts \in OptionType
  /\ head \in Trees /\ index = head /\ work = head
  /\ patch = {} /\ sess = NoSession /\ touched = {}
  /\ edits = 0 /\ touches = 0

\* The user changes a file, stages one or commits what is staged.  A session
\* in repo mode requires that the checkout stays as it is.
Users ==
  /\ edits < MaxEdits /\ (Open => opts.base = "worktree")
  /\ edits' = edits + 1
  /\ UNCHANGED <<opts, patch, sess, touched, touches>>

Edit ==
  /\ Users
  /\ \E p \in Paths, f \in Regular \cup {Absent} : work' = [work EXCEPT ![p] = f]
  /\ UNCHANGED <<head, index>>

Stage ==
  /\ Users
  /\ \E p \in Paths : index' = [index EXCEPT ![p] = Canon(p, work[p])]
  /\ UNCHANGED <<head, work>>

Commit ==
  /\ Users
  /\ head' = index
  /\ UNCHANGED <<index, work>>

\* IsCleanExceptPaths.
Clean ==
  /\ index = head
  /\ \A p \in Present(head) : Canon(p, work[p]) = head[p]
  /\ \A p \in Present(work) \ Present(head) : p \in IgnoredBy[work[IgnoreFile]]

\* As if every session worked on the checkout.
LowerCheckout(l) == l = work
\* prepareBase: the checkout, or a new worktree of the pinned tree, for which
\* git may undo a conversion.
Lower(l) ==
  IF opts.base = "repo" THEN l = work
  ELSE \A p \in Paths : Canon(p, l[p]) = head[p] \/ l[p] = head[p]

\* A session that cannot be opened or whose patch does not apply changes nothing.
OpenSession ==
  /\ ~Open
  /\ opts.base = "repo" /\ ~opts.dirty => Clean
  /\ \E l \in [Paths -> Regular \cup {Absent}] :
       LET view == Applied(l, patch)
           new  == [base |-> head, lower |-> l, view |-> view, initial |-> {}]
       IN /\ Lower(l) /\ Applies(l, patch)
          /\ Cardinality(Ignored(view, Tracked(new))) <= IgnoredMax
          /\ sess' = [new EXCEPT !.initial = Ignored(view, Tracked(new))]
  /\ UNCHANGED <<opts, checkout, patch, touched, edits, touches>>

\* A tool writes or removes a file.  What git makes of a tracked file that has
\* become special is left out.
Touch ==
  /\ Open /\ touches < MaxTouches
  /\ \E p \in Paths, f \in Files :
       /\ f \in Special => sess.base[p] = Absent /\ index[p] = Absent
       /\ sess' = [sess EXCEPT !.view[p] = f]
       /\ touched' = touched \cup {p}
  /\ touches' = touches + 1
  /\ UNCHANGED <<opts, checkout, patch, edits>>

\* A save that fails leaves the patch as it is.
Save ==
  /\ Open
  /\ IgnoredSame(sess) /\ Storable(sess)
  /\ \E r \in Renames(sess) : patch' = Export(sess, r)
  /\ UNCHANGED <<opts, checkout, sess, touched, edits, touches>>

Close ==
  /\ Open /\ sess' = NoSession
  /\ UNCHANGED <<opts, checkout, patch, touched, edits, touches>>

Next == Edit \/ Stage \/ Commit \/ OpenSession \/ Touch \/ Save \/ Close

Spec == Init /\ [][Next]_vars
-----------------------------------------------------------------------------
\* The type invariant.  A patch has one block for a path, and no block that
\* says nothing.
TypeOK ==
  /\ opts \in OptionType
  /\ head \in Trees /\ index \in Trees /\ work \in Trees
  /\ patch \subseteq Blocks
  /\ \A b \in patch : b.old # b.new
  /\ \A b, c \in patch : b.path = c.path => b = c
  /\ sess \in SessionType \cup {NoSession}
  /\ touched \subseteq Paths
  /\ edits \in 0 .. MaxEdits /\ touches \in 0 .. MaxTouches

\* "Saved file state includes contents, deletion" (README.md): the saved patch,
\* applied again to the lower layer that the session had, gives the view that
\* was saved, or does not apply at all, and it does apply where the lower layer
\* is the pinned tree.  Out of its reach are paths that were ignored when the
\* view was opened, special files, and a path that the tools put back to what
\* the pinned tree has where the lower layer differs from it (--allow-dirty, or
\* a conversion): the difference with the pinned tree cannot say so.
Restores(s, blocks) ==
  /\ (\A p \in Paths : Canon(p, s.lower[p]) = s.base[p]) => Applies(s.lower, blocks)
  /\ Applies(s.lower, blocks) =>
       \A p \in Paths : \/ Applied(s.lower, blocks)[p] = s.view[p]
                        \/ p \in s.initial
                        \/ s.view[p] \in Special
                        \/ s.view[p] = s.base[p] /\ s.lower[p] # s.base[p]
Reproduces == [][Save => Restores(sess, patch')]_vars

\* "Uncommitted, untracked, and ignored files from the original checkout are
\* not copied" (README.md): in worktree mode the patch never speaks of a path
\* that only the user has changed, and whatever is committed meanwhile.
OnlyTools == opts.base = "worktree" => \A b \in patch : b.path \in touched
=============================================================================
