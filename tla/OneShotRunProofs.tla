-------------------------- MODULE OneShotRunProofs --------------------------
(***************************************************************************)
(* The theorems about OneShotRun: its type invariant, that runs do not     *)
(* lose each other's changes or their own, that nothing is deleted through *)
(* a mount, what a run has left when it returns, that a save adds only its *)
(* own run's change, and how many steps a run may take.                    *)
(*                                                                         *)
(* The invariant says how the cleanup stack matches what has been made:    *)
(* the lock's release lies at its bottom and nowhere else, and until a     *)
(* step of the cleanup fails every directory that is to go has its entry.  *)
(***************************************************************************)
EXTENDS OneShotRun, SequenceTheorems, TLAPS

Active    == (Setup \ {"lock"}) \cup Late
On(s, e)  == \E i \in 1 .. Len(s) : s[i] = e
Bottom(s) == \A i \in 1 .. Len(s) : s[i] = "lock" <=> i = 1

\* Where a run is says what it has made and done.
Places(x) ==
  /\ x.at \in {"new", "lock", "done", "dead"} => x.stack = <<>>
  /\ x.at \in Active => x.stack # <<>>
  /\ x.at \in {"new", "lock", "create"} => x.dirs = {}
  /\ x.at \in Active \ {"create"} => "root" \in x.dirs
  /\ x.at \in Setup \cup {"new"} => ~x.wrote
  /\ x.group = "alive" => x.at \in {"command", "reap"}
  /\ x.at \in Setup \cup Late \cup {"new", "dead"} => x.res = "none" /\ ~x.bad

\* Where the run's own change and those in the patch p are.
Work(r, x, p) ==
  /\ x.at \in Late /\ x.wrote => r \in x.view
  /\ x.at \in {"ignored", "hide"} \cup Late => p \subseteq x.view
  /\ x.res = "ok" /\ x.wrote => r \in p
  /\ x.wrote => r \in p \/ "root" \in x.dirs \/ x.opts.keep = "never"

\* Whether the session root is to go, were the error decided by now.
Goes(x) == x.opts.keep = "never" \/ (x.opts.keep = "on-fail" /\ x.res = "ok")

Tidy(x) ==
  /\ x.at \in Active =>
       "unmarked" \notin x.dirs /\ \A d \in x.dirs : On(x.stack, d)
  /\ x.at = "cleanup" /\ ~x.bad =>
       /\ "ext" \in x.dirs => On(x.stack, "ext")
       /\ Goes(x) => \A d \in x.dirs \ {"unmarked"} : On(x.stack, d)
  /\ x.res = "ok" => "unmarked" \notin x.dirs
  /\ x.at = "done" /\ ~x.bad => "ext" \notin x.dirs
  /\ x.at = "done" /\ x.res = "ok" => ~x.bad /\ (x.opts.keep # "always" => x.dirs = {})

RunOK(r, x, p) == Bottom(x.stack) /\ Places(x) /\ Work(r, x, p) /\ Tidy(x)

IInv == TypeOK /\ \A r \in Runs : RunOK(r, run[r], patch)
-----------------------------------------------------------------------------
(***************************************************************************)
(* Stacks.                                                                 *)
(***************************************************************************)
LEMMA EmptyIs == <<>> \in Seq(Entries) /\ Len(<<>>) = 0 /\ Bottom(<<>>)
<1> QED BY EmptySeq DEF Bottom

LEMMA Push ==
  ASSUME NEW s \in Seq(Entries), s # <<>>, Bottom(s),
         NEW u \in Seq(Entries), ~On(u, "lock")
  PROVE  /\ s \o u \in Seq(Entries) /\ s \o u # <<>> /\ Bottom(s \o u)
         /\ \A e : On(s, e) \/ On(u, e) => On(s \o u, e)
<1>1. Len(s) \in Nat \ {0} /\ Len(u) \in Nat
  BY EmptySeq, LenProperties
<1>2. /\ s \o u \in Seq(Entries) /\ Len(s \o u) = Len(s) + Len(u)
      /\ \A i \in 1 .. Len(s) + Len(u) :
           (s \o u)[i] = IF i <= Len(s) THEN s[i] ELSE u[i - Len(s)]
  BY ConcatProperties
<1>3. s \o u # <<>>
  BY <1>1, <1>2, EmptySeq
<1>4. Bottom(s \o u)
  <2> SUFFICES ASSUME NEW i \in 1 .. Len(s) + Len(u) PROVE (s \o u)[i] = "lock" <=> i = 1
    BY <1>2 DEF Bottom
  <2>1. CASE i <= Len(s)
    BY <1>1, <1>2, <2>1 DEF Bottom
  <2>2. CASE i > Len(s)
    <3>1. i - Len(s) \in 1 .. Len(u)
      BY <1>1, <2>2
    <3>2. u[i - Len(s)] # "lock"
      BY <3>1 DEF On
    <3> QED BY <1>1, <1>2, <2>2, <3>2
  <2> QED BY <1>1, <2>1, <2>2
<1>5. ASSUME NEW e, On(s, e) PROVE On(s \o u, e)
  <2>1. PICK i \in 1 .. Len(s) : s[i] = e
    BY <1>5 DEF On
  <2>2. i \in 1 .. Len(s) + Len(u) /\ (s \o u)[i] = e
    BY <1>1, <1>2, <2>1
  <2> QED BY <1>2, <2>2 DEF On
<1>6. ASSUME NEW e, On(u, e) PROVE On(s \o u, e)
  <2>1. PICK j \in 1 .. Len(u) : u[j] = e
    BY <1>6 DEF On
  <2>2. /\ j + Len(s) \in 1 .. Len(s) + Len(u)
        /\ (s \o u)[j + Len(s)] = u[(j + Len(s)) - Len(s)]
        /\ (j + Len(s)) - Len(s) = j
    BY <1>1, <1>2
  <2> QED BY <1>2, <2>1, <2>2 DEF On
<1> QED BY <1>2, <1>3, <1>4, <1>5, <1>6

LEMMA Pop ==
  ASSUME NEW s \in Seq(Entries), s # <<>>, Bottom(s),
         NEW t, t = SubSeq(s, 1, Len(s) - 1)
  PROVE  /\ s[Len(s)] \in Entries
         /\ t \in Seq(Entries) /\ Bottom(t)
         /\ t = <<>> <=> s[Len(s)] = "lock"
         /\ \A e : On(s, e) /\ e # s[Len(s)] => On(t, e)
<1> DEFINE n == Len(s) - 1
<1>1. Len(s) \in Nat \ {0} /\ n \in Nat /\ n < Len(s)
  BY EmptySeq, LenProperties
<1>2. \A i \in 1 .. Len(s) : s[i] \in Entries
  BY ElementOfSeq
<1>3. t \in Seq(Entries) /\ Len(t) = n /\ \A i \in 1 .. n : t[i] = s[i]
  <2>1. \A i \in 1 .. n : s[i] \in Entries
    BY <1>1, <1>2
  <2>2. /\ SubSeq(s, 1, n) \in Seq(Entries)
        /\ Len(SubSeq(s, 1, n)) = IF 1 <= n THEN n - 1 + 1 ELSE 0
        /\ \A i \in 1 .. n - 1 + 1 : SubSeq(s, 1, n)[i] = s[1 + i - 1]
    BY <1>1, <2>1, SubSeqProperties
  <2>3. ASSUME NEW m \in Nat
        PROVE  m - 1 + 1 = m /\ (~(1 <= m) => m = 0) /\ \A i \in 1 .. m : 1 + i - 1 = i
    OBVIOUS
  <2> QED BY <1>1, <2>2, <2>3
<1>4. Bottom(t)
  BY <1>1, <1>3 DEF Bottom
<1>5. t = <<>> <=> n = 0
  BY <1>3, EmptySeq
<1>6. s[Len(s)] = "lock" <=> Len(s) = 1
  <2>1. Len(s) \in 1 .. Len(s)
    BY <1>1
  <2> QED BY <2>1 DEF Bottom
<1>7. ASSUME NEW e, On(s, e), e # s[Len(s)] PROVE On(t, e)
  <2>1. PICK i \in 1 .. Len(s) : s[i] = e
    BY <1>7 DEF On
  <2>2. i # Len(s)
    BY <2>1, <1>7
  <2>3. i \in 1 .. n
    BY <1>1, <2>2
  <2> QED BY <1>3, <2>1, <2>3 DEF On
<1>8. s[Len(s)] \in Entries
  BY <1>1, <1>2
<1>9. n = 0 <=> Len(s) = 1
  BY <1>1
<1> QED BY <1>3, <1>4, <1>5, <1>6, <1>7, <1>8, <1>9

\* What a step of the setup pushes, and that each directory it makes is on it.
LEMMA PushedIs ==
  ASSUME NEW s \in Setup \ {"lock"}, NEW o \in OptionType
  PROVE  /\ Pushed(s, o) \in Seq(Entries) /\ ~On(Pushed(s, o), "lock")
         /\ \A d \in DirOf(s, o) : On(Pushed(s, o), d)
         /\ DirOf(s, o) \subseteq {"root", "worktree", "ext"}
         /\ MountOf(s) \subseteq Mounts
         /\ s = "create" => DirOf(s, o) = {"root"}
<1>1. Setup \ {"lock"} = {"create", "base", "ext", "gitdir", "lower", "overlay", "apply",
                          "ignored", "hide"}
  BY DEF Setup, After
<1>2. ASSUME NEW e \in Entries
      PROVE  <<e>> \in Seq(Entries) /\ Len(<<e>>) = 1 /\ <<e>>[1] = e
  OBVIOUS
<1>3. ASSUME NEW e \in Entries, NEW f \in Entries
      PROVE  <<e, f>> \in Seq(Entries) /\ Len(<<e, f>>) = 2 /\ <<e, f>>[1] = e /\ <<e, f>>[2] = f
  OBVIOUS
<1>4. \A e \in Entries \ {"lock"} : On(<<e>>, e) /\ ~On(<<e>>, "lock")
  BY <1>2 DEF On
<1>5. /\ <<"overlay", "masks">> \in Seq(Entries)
      /\ ~On(<<"overlay", "masks">>, "lock")
  BY <1>3 DEF On, Entries
<1>6. <<>> \in Seq(Entries) /\ ~On(<<>>, "lock")
  BY EmptyIs DEF On
<1>7. /\ DirOf(s, o) \subseteq {"root", "worktree", "ext"}
      /\ MountOf(s) \subseteq Mounts
      /\ s = "create" => DirOf(s, o) = {"root"}
  BY <1>1 DEF DirOf, MountOf, Mounts
<1>8. /\ Pushed(s, o) \in Seq(Entries) /\ ~On(Pushed(s, o), "lock")
      /\ \A d \in DirOf(s, o) : On(Pushed(s, o), d)
  <2>1. CASE s = "create"
    BY <1>2, <1>4, <2>1 DEF Pushed, DirOf, Entries
  <2>2. CASE s = "base" /\ o.base = "worktree"
    BY <1>2, <1>4, <2>2 DEF Pushed, DirOf, Entries
  <2>3. CASE s = "base" /\ o.base # "worktree"
    BY <1>6, <2>3 DEF Pushed, DirOf
  <2>4. CASE s \in {"ext", "lower"}
    BY <1>2, <1>4, <2>4 DEF Pushed, DirOf, Entries
  <2>5. CASE s = "gitdir"
    BY <1>2, <1>4, <2>5 DEF Pushed, DirOf, Entries
  <2>6. CASE s = "overlay"
    BY <1>5, <2>6 DEF Pushed, DirOf
  <2>7. CASE s \in {"apply", "ignored", "hide"}
    BY <1>6, <2>7 DEF Pushed, DirOf
  <2> QED BY <1>1, <2>1, <2>2, <2>3, <2>4, <2>5, <2>6, <2>7
<1> QED BY <1>7, <1>8
-----------------------------------------------------------------------------
(***************************************************************************)
(* Places, and what a step that changes one run has to show.               *)
(***************************************************************************)
LEMMA SetupIs ==
  /\ Setup = {"lock", "create", "base", "ext", "gitdir", "lower", "overlay", "apply",
              "ignored", "hide"}
  /\ After["lock"] = "create"
<1> QED BY DEF Setup, After

LEMMA AfterIs ==
  ASSUME NEW s \in Setup \ {"lock"}
  PROVE  /\ After[s] \in (Setup \ {"lock", "create"}) \cup {"start"}
         /\ After[s] \in {"ignored", "hide", "start"} => s \in {"apply", "ignored", "hide"}
<1>1. s \in {"create", "base", "ext", "gitdir", "lower", "overlay", "apply", "ignored", "hide"}
  BY SetupIs
<1> QED BY <1>1, SetupIs DEF After

\* What the invariant says of one run.
LEMMA OfRun ==
  ASSUME IInv, NEW r \in Runs
  PROVE  /\ run[r] \in RunType
         /\ lock = r <=> run[r].stack # <<>>
         /\ RunOK(r, run[r], patch)
<1> QED BY DEF IInv, TypeOK

\* A step of one run leaves the others as they were.
LEMMA Becomes ==
  ASSUME run \in [Runs -> RunType], NEW r \in Runs, NEW x, Become(r, x)
  PROVE  run'[r] = x /\ \A q \in Runs \ {r} : run'[q] = run[q]
<1> QED BY DEF Become

\* The run that only goes to another stage, or whose group only changes.
LEMMA StageMoves ==
  ASSUME NEW x \in RunType, NEW s, NEW y, y = [x EXCEPT !.at = s]
  PROVE  /\ y.at = s /\ y.stack = x.stack /\ y.wrote = x.wrote
         /\ y.group = x.group /\ y.view = x.view
<1> QED BY DEF RunType

LEMMA GroupMoves ==
  ASSUME NEW x \in RunType, NEW g, NEW y, y = [x EXCEPT !.group = g]
  PROVE  /\ y.at = x.at /\ y.stack = x.stack /\ y.wrote = x.wrote
         /\ y.group = g /\ y.view = x.view
<1> QED BY DEF RunType

\* One run changes, and adds to the patch only while it holds the lock, so
\* that no other run has a view yet.
LEMMA Keeps ==
  ASSUME IInv, NEW r \in Runs, NEW x \in RunType, Become(r, x), RunOK(r, x, patch'),
         patch \subseteq patch', patch' \subseteq Runs,
         patch' = patch \/ run[r].stack # <<>>,
         lock' \in Runs \cup {NoRun}, lock' = r <=> x.stack # <<>>,
         \A q \in Runs \ {r} : lock' = q <=> lock = q
  PROVE  IInv'
<1>1. run \in [Runs -> RunType] /\ run' = [run EXCEPT ![r] = x]
  BY DEF IInv, TypeOK, Become
<1>2. run'[r] = x /\ \A q \in Runs \ {r} : run'[q] = run[q]
  BY <1>1
<1>3. TypeOK'
  <2>1. run' \in [Runs -> RunType]
    BY <1>1
  <2>2. ASSUME NEW q \in Runs PROVE lock' = q <=> run'[q].stack # <<>>
    BY <1>2, OfRun
  <2> QED BY <2>1, <2>2 DEF TypeOK
<1>4. ASSUME NEW q \in Runs \ {r} PROVE RunOK(q, run[q], patch')
  <2>1. RunOK(q, run[q], patch)
    BY OfRun
  <2>2. CASE patch' = patch
    BY <2>1, <2>2
  <2>3. CASE run[r].stack # <<>>
    <3>1. run[q].stack = <<>>
      BY <2>3, OfRun
    <3>2. run[q].at \notin Active
      BY <2>1, <3>1 DEF RunOK, Places
    <3>3. run[q].at \notin {"ignored", "hide"} \cup Late
      BY <3>2, SetupIs DEF Active
    <3> QED BY <2>1, <3>3 DEF RunOK, Work, Late
  <2> QED BY <2>2, <2>3
<1> QED BY <1>2, <1>3, <1>4 DEF IInv

\* Only the run changes, and it has the lock as before.
LEMMA KeepsRest ==
  ASSUME IInv, NEW r \in Runs, NEW x \in RunType, Become(r, x), RunOK(r, x, patch),
         UNCHANGED <<patch, lock>>, x.stack = <<>> <=> run[r].stack = <<>>
  PROVE  IInv'
<1>1. patch' = patch /\ lock' = lock /\ patch \subseteq Runs /\ lock \in Runs \cup {NoRun}
  BY DEF IInv, TypeOK
<1>2. lock' = r <=> x.stack # <<>>
  BY <1>1, OfRun
<1> QED BY <1>1, <1>2, Keeps
-----------------------------------------------------------------------------
(***************************************************************************)
(* Every action preserves the invariant: the setup.                        *)
(***************************************************************************)
LEMMA InitHolds == Init => IInv
<1> SUFFICES ASSUME Init PROVE IInv
  OBVIOUS
<1>1. PICK opts \in [Runs -> UNION {OptionsOf[r] : r \in Runs}] :
        /\ \A r \in Runs : opts[r] \in OptionsOf[r]
        /\ run = [r \in Runs |-> New(opts[r])]
  BY DEF Init
<1>2. ASSUME NEW r \in Runs PROVE opts[r] \in OptionType
  BY <1>1, RunAssumption
<1>3. ASSUME NEW o \in OptionType PROVE New(o) \in RunType
  BY EmptyIs DEF New, RunType
<1>4. ASSUME NEW r \in Runs
      PROVE  /\ run[r].at = "new" /\ run[r].stack = <<>> /\ run[r].dirs = {}
             /\ run[r].wrote = FALSE /\ run[r].group = "none" /\ run[r].res = "none"
             /\ run[r].bad = FALSE
  <2>1. ASSUME NEW o
        PROVE  /\ New(o).at = "new" /\ New(o).stack = <<>> /\ New(o).dirs = {}
               /\ New(o).wrote = FALSE /\ New(o).group = "none" /\ New(o).res = "none"
               /\ New(o).bad = FALSE
    BY DEF New
  <2>2. run[r] = New(opts[r])
    BY <1>1
  <2> QED BY <2>1, <2>2
<1>5. TypeOK
  <2>1. run \in [Runs -> RunType]
    BY <1>1, <1>2, <1>3
  <2> QED BY <2>1, <1>4, RunAssumption DEF TypeOK, Init
<1>6. ASSUME NEW r \in Runs PROVE RunOK(r, run[r], patch)
  BY <1>4, EmptyIs, SetupIs DEF RunOK, Places, Work, Tidy, Active, Late, Goes
<1> QED BY <1>5, <1>6 DEF IInv

LEMMA BeginKeeps == ASSUME IInv, NEW r \in Runs, Begin(r) PROVE IInv'
<1> DEFINE x == [run[r] EXCEPT !.at = "lock"]
<1>1. run[r] \in RunType /\ RunOK(r, run[r], patch) /\ run[r].at = "new"
  BY OfRun DEF Begin, At
<1>2. x \in RunType
  BY <1>1, SetupIs DEF RunType
<1>3. /\ x.at = "lock" /\ x.stack = run[r].stack /\ x.dirs = run[r].dirs
      /\ x.wrote = run[r].wrote /\ x.group = run[r].group /\ x.res = run[r].res
      /\ x.opts = run[r].opts /\ x.bad = run[r].bad
  BY <1>1 DEF RunType
<1>4. Become(r, x) /\ UNCHANGED <<patch, lock>>
  BY DEF Begin
<1> HIDE DEF x
<1>5. RunOK(r, x, patch)
  BY <1>1, <1>3, SetupIs DEF RunOK, Places, Work, Tidy, Active, Late, Goes
<1> QED BY <1>2, <1>3, <1>4, <1>5, KeepsRest

LEMMA LockKeeps == ASSUME IInv, NEW r \in Runs, Lock(r) PROVE IInv'
<1> DEFINE x == [run[r] EXCEPT !.at = After["lock"], !.stack = Pushed("lock", run[r].opts)]
<1>1. /\ run[r] \in RunType /\ RunOK(r, run[r], patch) /\ run[r].at = "lock"
      /\ lock = NoRun /\ lock' = r /\ patch' = patch
  BY OfRun DEF Lock, LockFree, At
<1>2. /\ <<"lock">> \in Seq(Entries) /\ <<"lock">> # <<>> /\ Bottom(<<"lock">>)
      /\ Pushed("lock", run[r].opts) = <<"lock">>
  BY DEF Pushed, Bottom, Entries
<1>3. x \in RunType
  BY <1>1, <1>2, SetupIs DEF RunType
<1>4. /\ x.at = "create" /\ x.stack = <<"lock">> /\ x.dirs = run[r].dirs
      /\ x.wrote = run[r].wrote /\ x.group = run[r].group /\ x.res = run[r].res
      /\ x.opts = run[r].opts /\ x.bad = run[r].bad
  BY <1>1, <1>2, SetupIs DEF RunType
<1>5. Become(r, x)
  BY DEF Lock
<1> HIDE DEF x
<1>6. RunOK(r, x, patch')
  BY <1>1, <1>2, <1>4, SetupIs DEF RunOK, Places, Work, Tidy, Active, Late, Goes
<1>7. lock' \in Runs \cup {NoRun} /\ \A q \in Runs \ {r} : lock' = q <=> lock = q
  BY <1>1, RunAssumption
<1>8. patch \subseteq patch' /\ patch' \subseteq Runs
  BY <1>1 DEF IInv, TypeOK
<1> QED BY <1>1, <1>2, <1>3, <1>4, <1>5, <1>6, <1>7, <1>8, Keeps

LEMMA AdvanceKeeps == ASSUME IInv, NEW r \in Runs, Advance(r) PROVE IInv'
<1> DEFINE s == run[r].at
           o == run[r].opts
           x == [run[r] EXCEPT !.at = After[s],
                   !.stack = @ \o Pushed(s, o),
                   !.mounts = @ \cup MountOf(s),
                   !.dirs = @ \cup DirOf(s, o),
                   !.view = IF s = "apply" THEN patch ELSE @]
<1>1. /\ run[r] \in RunType /\ RunOK(r, run[r], patch) /\ s \in Setup \ {"lock"}
      /\ Become(r, x) /\ UNCHANGED <<patch, lock>> /\ patch \subseteq Runs
  BY OfRun DEF Advance, IInv, TypeOK
<1>2. o \in OptionType /\ run[r].stack \in Seq(Entries) /\ Bottom(run[r].stack)
      /\ run[r].stack # <<>>
  BY <1>1 DEF RunType, RunOK, Places, Active
<1>3. /\ Pushed(s, o) \in Seq(Entries) /\ ~On(Pushed(s, o), "lock")
      /\ \A d \in DirOf(s, o) : On(Pushed(s, o), d)
      /\ DirOf(s, o) \subseteq {"root", "worktree", "ext"}
      /\ MountOf(s) \subseteq Mounts
      /\ s = "create" => DirOf(s, o) = {"root"}
  BY <1>1, <1>2, PushedIs
<1>4. /\ run[r].stack \o Pushed(s, o) \in Seq(Entries)
      /\ run[r].stack \o Pushed(s, o) # <<>>
      /\ Bottom(run[r].stack \o Pushed(s, o))
      /\ \A e : On(run[r].stack, e) \/ On(Pushed(s, o), e)
                => On(run[r].stack \o Pushed(s, o), e)
  BY <1>2, <1>3, Push
<1>5. /\ After[s] \in (Setup \ {"lock", "create"}) \cup {"start"}
      /\ After[s] \in {"ignored", "hide", "start"} => s \in {"apply", "ignored", "hide"}
  BY <1>1, AfterIs
<1>6. x \in RunType
  BY <1>1, <1>3, <1>4, <1>5 DEF RunType, Late
<1>7. /\ x.at = After[s] /\ x.stack = run[r].stack \o Pushed(s, o)
      /\ x.dirs = run[r].dirs \cup DirOf(s, o)
      /\ x.view = IF s = "apply" THEN patch ELSE run[r].view
      /\ x.wrote = run[r].wrote /\ x.group = run[r].group /\ x.res = run[r].res
      /\ x.opts = run[r].opts /\ x.bad = run[r].bad
  BY <1>1 DEF RunType
<1> HIDE DEF x
<1>8. /\ s \in Setup /\ s \notin {"lock", "new", "command", "reap"}
      /\ ~run[r].wrote /\ run[r].group # "alive" /\ run[r].res = "none" /\ ~run[r].bad
  BY <1>1, SetupIs DEF RunOK, Places
<1>9. Places(x)
  <2>1. "root" \in x.dirs
    BY <1>1, <1>3, <1>7 DEF RunOK, Places, Active
  <2> QED BY <1>4, <1>5, <1>7, <1>8, <2>1, SetupIs DEF Places
<1>10. Work(r, x, patch)
  <2>1. ASSUME x.at \in {"ignored", "hide"} \cup Late PROVE patch \subseteq x.view
    <3>1. s \in {"apply", "ignored", "hide"}
      BY <1>5, <1>7, <2>1, SetupIs DEF Late
    <3> QED BY <1>1, <1>7, <3>1 DEF RunOK, Work
  <2> QED BY <1>7, <1>8, <2>1 DEF Work
<1>11. Tidy(x)
  <2>1. \A d \in x.dirs : On(x.stack, d)
    BY <1>1, <1>3, <1>4, <1>7 DEF RunOK, Tidy, Active
  <2>2. "unmarked" \notin x.dirs
    BY <1>1, <1>3, <1>7 DEF RunOK, Tidy, Active
  <2> QED BY <1>5, <1>7, <1>8, <2>1, <2>2, SetupIs DEF Tidy
<1>12. RunOK(r, x, patch)
  BY <1>4, <1>7, <1>9, <1>10, <1>11 DEF RunOK
<1>13. x.stack = <<>> <=> run[r].stack = <<>>
  BY <1>2, <1>4, <1>7
<1> QED BY <1>1, <1>6, <1>12, <1>13, KeepsRest

LEMMA SetupFailsKeeps == ASSUME IInv, NEW r \in Runs, SetupFails(r) PROVE IInv'
<1>1. /\ run[r] \in RunType /\ RunOK(r, run[r], patch) /\ run[r].at \in Setup
      /\ UNCHANGED <<patch, lock>>
  BY OfRun DEF SetupFails
<1>2. CASE Return(r, run[r], "error")
  <2> DEFINE x == [run[r] EXCEPT !.at = "cleanup", !.view = {}, !.res = "error"]
  <2>1. Become(r, x) /\ x \in RunType
    BY <1>1, <1>2 DEF RunType, Return
  <2>2. /\ x.at = "cleanup" /\ x.stack = run[r].stack /\ x.dirs = run[r].dirs
        /\ x.wrote = run[r].wrote /\ x.group = run[r].group /\ x.res = "error"
        /\ x.opts = run[r].opts
    BY <1>1 DEF RunType
  <2> HIDE DEF x
  <2>3. ~run[r].wrote /\ run[r].group # "alive"
    BY <1>1, SetupIs DEF RunOK, Places
  <2>4. \A d \in run[r].dirs : On(run[r].stack, d)
    BY <1>1, SetupIs DEF RunOK, Places, Tidy, Active
  <2>5. RunOK(r, x, patch)
    <3>1. Places(x)
      BY <2>2, <2>3, SetupIs DEF Places, Active, Late
    <3>2. Work(r, x, patch)
      BY <2>2, <2>3 DEF Work, Late
    <3>3. Tidy(x)
      BY <2>2, <2>4, SetupIs DEF Tidy, Active, Late
    <3> QED BY <1>1, <2>2, <3>1, <3>2, <3>3 DEF RunOK
  <2> QED BY <1>1, <2>1, <2>2, <2>5, KeepsRest
<1>3. CASE /\ At(r, "create")
           /\ Return(r, [run[r] EXCEPT !.dirs = {"unmarked"}], "error")
  <2> DEFINE y == [run[r] EXCEPT !.dirs = {"unmarked"}]
             x == [y EXCEPT !.at = "cleanup", !.view = {}, !.res = "error"]
  <2>1. Become(r, x)
    BY <1>3 DEF Return
  <2>2. y \in RunType /\ y.dirs = {"unmarked"} /\ y.stack = run[r].stack
        /\ y.wrote = run[r].wrote /\ y.group = run[r].group /\ y.opts = run[r].opts
    BY <1>1 DEF RunType
  <2> HIDE DEF y
  <2>3. x \in RunType
    BY <2>2 DEF RunType
  <2>4. /\ x.at = "cleanup" /\ x.stack = run[r].stack /\ x.dirs = {"unmarked"}
        /\ x.wrote = run[r].wrote /\ x.group = run[r].group /\ x.res = "error"
        /\ x.opts = run[r].opts
    BY <2>2 DEF RunType
  <2> HIDE DEF x
  <2>5. ~run[r].wrote /\ run[r].group # "alive"
    BY <1>1, SetupIs DEF RunOK, Places
  <2>6. RunOK(r, x, patch)
    <3>1. Places(x)
      BY <2>4, <2>5, SetupIs DEF Places, Active, Late
    <3>2. Work(r, x, patch)
      BY <2>4, <2>5 DEF Work, Late
    <3>3. Tidy(x)
      BY <2>4, SetupIs DEF Tidy, Active, Late
    <3> QED BY <1>1, <2>4, <3>1, <3>2, <3>3 DEF RunOK
  <2> QED BY <1>1, <2>1, <2>3, <2>4, <2>6, KeepsRest
<1> QED BY <1>2, <1>3 DEF SetupFails
-----------------------------------------------------------------------------
(***************************************************************************)
(* The command, and what follows it: the stack and the directories stay as *)
(* they are.                                                               *)
(***************************************************************************)
LEMMA LateKeeps ==
  ASSUME IInv, NEW r \in Runs, NEW x \in RunType, Become(r, x),
         UNCHANGED <<patch, lock>>, run[r].at \in Late, x.at \in Late,
         x.stack = run[r].stack, x.dirs = run[r].dirs, x.opts = run[r].opts,
         x.res = run[r].res, x.bad = run[r].bad,
         x.group = "alive" => x.at \in {"command", "reap"},
         run[r].view \subseteq x.view,
         x.wrote => run[r].wrote \/ r \in x.view
  PROVE  IInv'
<1>1. RunOK(r, run[r], patch)
  BY OfRun
<1>2. /\ x.at \notin {"new", "lock", "create", "done", "dead", "cleanup"}
      /\ x.at \notin Setup \cup {"new"} /\ x.at \in Active \ {"create"}
      /\ run[r].at \in Active \ {"create"}
  BY SetupIs DEF Late, Active
<1>3. Places(x)
  BY <1>1, <1>2 DEF RunOK, Places
<1>4. Work(r, x, patch)
  BY <1>1, <1>2 DEF RunOK, Work, Places
<1>5. Tidy(x)
  BY <1>1, <1>2 DEF RunOK, Tidy, Places, Goes
<1>6. RunOK(r, x, patch)
  BY <1>1, <1>3, <1>4, <1>5 DEF RunOK
<1> QED BY <1>6, KeepsRest


LEMMA NotStartedKeeps == ASSUME IInv, NEW r \in Runs, NotStarted(r) PROVE IInv'
<1> DEFINE x == [run[r] EXCEPT !.at = "unmask"]
<1>1. /\ run[r] \in RunType /\ RunOK(r, run[r], patch)
      /\ Become(r, x) /\ UNCHANGED <<patch, lock>>
  BY OfRun DEF NotStarted
<1>2. run[r].at \in Late /\ (run[r].group = "alive" => run[r].at \in {"command", "reap"})
  BY <1>1 DEF NotStarted, At, Late, RunOK, Places
<1>3. x \in RunType
  BY <1>1, <1>2 DEF RunType, Late
<1>4. /\ x.at = "unmask" /\ x.group = run[r].group /\ x.wrote = run[r].wrote /\ x.view = run[r].view
      /\ x.stack = run[r].stack /\ x.dirs = run[r].dirs /\ x.opts = run[r].opts
      /\ x.res = run[r].res /\ x.bad = run[r].bad
  BY <1>1 DEF RunType
<1> HIDE DEF x
<1>5. x.at \in Late /\ (x.group = "alive" => x.at \in {"command", "reap"})
  BY <1>2, <1>4 DEF NotStarted, At, Late
<1> QED BY <1>1, <1>2, <1>3, <1>4, <1>5, LateKeeps

LEMMA StartKeeps == ASSUME IInv, NEW r \in Runs, Start(r) PROVE IInv'
<1> DEFINE x == [run[r] EXCEPT !.at = "command", !.group = "alive"]
<1>1. /\ run[r] \in RunType /\ RunOK(r, run[r], patch)
      /\ Become(r, x) /\ UNCHANGED <<patch, lock>>
  BY OfRun DEF Start
<1>2. run[r].at \in Late /\ (run[r].group = "alive" => run[r].at \in {"command", "reap"})
  BY <1>1 DEF Start, At, Late, RunOK, Places
<1>3. x \in RunType
  BY <1>1, <1>2 DEF RunType, Late
<1>4. /\ x.at = "command" /\ x.group = "alive" /\ x.wrote = run[r].wrote /\ x.view = run[r].view
      /\ x.stack = run[r].stack /\ x.dirs = run[r].dirs /\ x.opts = run[r].opts
      /\ x.res = run[r].res /\ x.bad = run[r].bad
  BY <1>1 DEF RunType
<1> HIDE DEF x
<1>5. x.at \in Late /\ (x.group = "alive" => x.at \in {"command", "reap"})
  BY <1>2, <1>4 DEF Start, At, Late
<1> QED BY <1>1, <1>2, <1>3, <1>4, <1>5, LateKeeps

LEMMA WriteKeeps == ASSUME IInv, NEW r \in Runs, Write(r) PROVE IInv'
<1> DEFINE x == [run[r] EXCEPT !.wrote = TRUE, !.view = @ \cup {r}]
<1>1. /\ run[r] \in RunType /\ RunOK(r, run[r], patch)
      /\ Become(r, x) /\ UNCHANGED <<patch, lock>>
  BY OfRun DEF Write
<1>2. run[r].at \in Late /\ (run[r].group = "alive" => run[r].at \in {"command", "reap"})
  BY <1>1 DEF Write, At, Late, RunOK, Places
<1>3. x \in RunType
  BY <1>1, <1>2 DEF RunType, Late
<1>4. /\ x.at = run[r].at /\ x.group = run[r].group /\ x.wrote = TRUE /\ x.view = run[r].view \cup {r}
      /\ x.stack = run[r].stack /\ x.dirs = run[r].dirs /\ x.opts = run[r].opts
      /\ x.res = run[r].res /\ x.bad = run[r].bad
  BY <1>1 DEF RunType
<1> HIDE DEF x
<1>5. x.at \in Late /\ (x.group = "alive" => x.at \in {"command", "reap"})
  BY <1>2, <1>4 DEF Write, At, Late
<1> QED BY <1>1, <1>2, <1>3, <1>4, <1>5, LateKeeps

LEMMA GroupGoneKeeps == ASSUME IInv, NEW r \in Runs, GroupGone(r) PROVE IInv'
<1> DEFINE x == [run[r] EXCEPT !.group = "gone"]
<1>1. /\ run[r] \in RunType /\ RunOK(r, run[r], patch)
      /\ Become(r, x) /\ UNCHANGED <<patch, lock>>
  BY OfRun DEF GroupGone
<1>2. run[r].at \in Late /\ (run[r].group = "alive" => run[r].at \in {"command", "reap"})
  BY <1>1 DEF GroupGone, At, Late, RunOK, Places
<1>3. x \in RunType
  BY <1>1, <1>2 DEF RunType, Late
<1>4. /\ x.at = run[r].at /\ x.group = "gone" /\ x.wrote = run[r].wrote /\ x.view = run[r].view
      /\ x.stack = run[r].stack /\ x.dirs = run[r].dirs /\ x.opts = run[r].opts
      /\ x.res = run[r].res /\ x.bad = run[r].bad
  BY <1>1 DEF RunType
<1> HIDE DEF x
<1>5. x.at \in Late /\ (x.group = "alive" => x.at \in {"command", "reap"})
  BY <1>2, <1>4 DEF GroupGone, At, Late
<1> QED BY <1>1, <1>2, <1>3, <1>4, <1>5, LateKeeps

LEMMA ProbesDoneKeeps == ASSUME IInv, NEW r \in Runs, ProbesDone(r) PROVE IInv'
<1> DEFINE x == [run[r] EXCEPT !.at = "unmask", !.group = "none"]
<1>1. /\ run[r] \in RunType /\ RunOK(r, run[r], patch)
      /\ Become(r, x) /\ UNCHANGED <<patch, lock>>
  BY OfRun DEF ProbesDone
<1>2. run[r].at \in Late /\ (run[r].group = "alive" => run[r].at \in {"command", "reap"})
  BY <1>1 DEF ProbesDone, At, Late, RunOK, Places
<1>3. x \in RunType
  BY <1>1, <1>2 DEF RunType, Late
<1>4. /\ x.at = "unmask" /\ x.group = "none" /\ x.wrote = run[r].wrote /\ x.view = run[r].view
      /\ x.stack = run[r].stack /\ x.dirs = run[r].dirs /\ x.opts = run[r].opts
      /\ x.res = run[r].res /\ x.bad = run[r].bad
  BY <1>1 DEF RunType
<1> HIDE DEF x
<1>5. x.at \in Late /\ (x.group = "alive" => x.at \in {"command", "reap"})
  BY <1>2, <1>4 DEF ProbesDone, At, Late
<1> QED BY <1>1, <1>2, <1>3, <1>4, <1>5, LateKeeps

LEMMA UnmaskKeeps == ASSUME IInv, NEW r \in Runs, Unmask(r) PROVE IInv'
<1> DEFINE x == [run[r] EXCEPT !.at = "export"]
<1>1. /\ run[r] \in RunType /\ RunOK(r, run[r], patch)
      /\ Become(r, x) /\ UNCHANGED <<patch, lock>>
  BY OfRun DEF Unmask
<1>2. run[r].at \in Late /\ (run[r].group = "alive" => run[r].at \in {"command", "reap"})
  BY <1>1 DEF Unmask, At, Late, RunOK, Places
<1>3. x \in RunType
  BY <1>1, <1>2 DEF RunType, Late
<1>4. /\ x.at = "export" /\ x.group = run[r].group /\ x.wrote = run[r].wrote /\ x.view = run[r].view
      /\ x.stack = run[r].stack /\ x.dirs = run[r].dirs /\ x.opts = run[r].opts
      /\ x.res = run[r].res /\ x.bad = run[r].bad
  BY <1>1 DEF RunType
<1> HIDE DEF x
<1>5. x.at \in Late /\ (x.group = "alive" => x.at \in {"command", "reap"})
  BY <1>2, <1>4 DEF Unmask, At, Late
<1> QED BY <1>1, <1>2, <1>3, <1>4, <1>5, LateKeeps

LEMMA ExportKeeps == ASSUME IInv, NEW r \in Runs, Export(r) PROVE IInv'
<1> DEFINE x == [run[r] EXCEPT !.at = "save"]
<1>1. /\ run[r] \in RunType /\ RunOK(r, run[r], patch)
      /\ Become(r, x) /\ UNCHANGED <<patch, lock>>
  BY OfRun DEF Export
<1>2. run[r].at \in Late /\ (run[r].group = "alive" => run[r].at \in {"command", "reap"})
  BY <1>1 DEF Export, At, Late, RunOK, Places
<1>3. x \in RunType
  BY <1>1, <1>2 DEF RunType, Late
<1>4. /\ x.at = "save" /\ x.group = run[r].group /\ x.wrote = run[r].wrote /\ x.view = run[r].view
      /\ x.stack = run[r].stack /\ x.dirs = run[r].dirs /\ x.opts = run[r].opts
      /\ x.res = run[r].res /\ x.bad = run[r].bad
  BY <1>1 DEF RunType
<1> HIDE DEF x
<1>5. x.at \in Late /\ (x.group = "alive" => x.at \in {"command", "reap"})
  BY <1>2, <1>4 DEF Export, At, Late
<1> QED BY <1>1, <1>2, <1>3, <1>4, <1>5, LateKeeps

LEMMA LeaderExitsKeeps == ASSUME IInv, NEW r \in Runs, LeaderExits(r) PROVE IInv'
<1>1. PICK g \in {"alive", "gone"} : Become(r, [run[r] EXCEPT !.at = "reap", !.group = g])
  BY DEF LeaderExits
<1> DEFINE x == [run[r] EXCEPT !.at = "reap", !.group = g]
<1>2. /\ run[r] \in RunType /\ run[r].at = "command" /\ Become(r, x)
      /\ UNCHANGED <<patch, lock>>
  BY <1>1, OfRun DEF LeaderExits, At
<1>3. x \in RunType
  BY <1>2 DEF RunType, Late
<1>4. /\ x.at = "reap" /\ x.wrote = run[r].wrote /\ x.view = run[r].view
      /\ x.stack = run[r].stack /\ x.dirs = run[r].dirs /\ x.opts = run[r].opts
      /\ x.res = run[r].res /\ x.bad = run[r].bad
  BY <1>2 DEF RunType
<1> HIDE DEF x
<1>5. x.at \in Late /\ run[r].at \in Late
  BY <1>2, <1>4 DEF Late
<1> QED BY <1>2, <1>3, <1>4, <1>5, LateKeeps
-----------------------------------------------------------------------------
(***************************************************************************)
(* The end of a run: it fails, saves, cleans up.                           *)
(***************************************************************************)
\* What the view of a run holds when it saves, and that it has the lock.
LEMMA SavesMore ==
  ASSUME IInv, NEW r \in Runs, At(r, "save"), patch' = run[r].view
  PROVE  /\ patch \subseteq patch' /\ patch' \subseteq Runs /\ run[r].stack # <<>>
         /\ run[r].wrote => r \in patch'
<1>1. run[r] \in RunType /\ RunOK(r, run[r], patch) /\ run[r].at = "save"
  BY OfRun DEF At
<1> QED BY <1>1 DEF RunType, RunOK, Places, Work, Active, Late

\* Save, SaveUnsynced and LateFails: nothing is taken from the directories.
LEMMA ReturnKeeps ==
  ASSUME IInv, NEW r \in Runs, NEW e \in {"ok", "error"},
         run[r].at \in {"unmask", "export", "save"}, Return(r, run[r], e), lock' = lock,
         patch' = patch \/ (At(r, "save") /\ patch' = run[r].view),
         e = "ok" => At(r, "save") /\ patch' = run[r].view
  PROVE  IInv'
<1> DEFINE x == [run[r] EXCEPT !.at = "cleanup", !.view = {}, !.res = e]
<1>1. /\ run[r] \in RunType /\ RunOK(r, run[r], patch) /\ Become(r, x)
      /\ lock = r <=> run[r].stack # <<>>
  BY OfRun DEF Return
<1>2. x \in RunType
  BY <1>1 DEF RunType
<1>3. /\ x.at = "cleanup" /\ x.stack = run[r].stack /\ x.dirs = run[r].dirs
      /\ x.wrote = run[r].wrote /\ x.group = run[r].group /\ x.res = e
      /\ x.opts = run[r].opts
  BY <1>1 DEF RunType
<1> HIDE DEF x
<1>4. /\ run[r].at \in Active \ {"create"} /\ run[r].group # "alive"
      /\ run[r].stack # <<>> /\ "root" \in run[r].dirs
      /\ "unmarked" \notin run[r].dirs /\ \A d \in run[r].dirs : On(run[r].stack, d)
  <2>1. run[r].at \in Active \ {"create"}
    BY DEF Active, Late
  <2> QED BY <1>1, <2>1 DEF RunOK, Places, Tidy
<1>5. /\ patch \subseteq patch' /\ patch' \subseteq Runs
      /\ e = "ok" /\ run[r].wrote => r \in patch'
  BY SavesMore DEF IInv, TypeOK
<1>6. RunOK(r, x, patch')
  <2>1. Places(x)
    BY <1>3, <1>4, SetupIs DEF Places, Active, Late
  <2>2. Work(r, x, patch')
    BY <1>3, <1>4, <1>5 DEF Work, Late
  <2>3. Tidy(x)
    BY <1>3, <1>4, SetupIs DEF Tidy, Active, Late
  <2> QED BY <1>1, <1>3, <2>1, <2>2, <2>3 DEF RunOK
<1>7. lock \in Runs \cup {NoRun}
  BY DEF IInv, TypeOK
<1> QED BY <1>1, <1>2, <1>3, <1>4, <1>5, <1>6, <1>7, Keeps

LEMMA ReturnsKeep ==
  ASSUME IInv, NEW r \in Runs, Save(r) \/ SaveUnsynced(r) \/ LateFails(r) PROVE IInv'
<1>1. CASE Save(r)
  BY <1>1, ReturnKeeps DEF Save, At
<1>2. CASE SaveUnsynced(r)
  BY <1>2, ReturnKeeps DEF SaveUnsynced, At
<1>3. CASE LateFails(r)
  BY <1>3, ReturnKeeps DEF LateFails
<1> QED BY <1>1, <1>2, <1>3

LEMMA UnmountsIs ==
  ASSUME NEW r \in Runs, NEW ms, NEW o \in Unmounts(r, ms)
  PROVE  o.mounts \subseteq run[r].mounts /\ o.dirs = run[r].dirs /\ o.bad \in BOOLEAN
<1>1. CASE o = [mounts |-> run[r].mounts \ ms, dirs |-> run[r].dirs, bad |-> FALSE]
  BY <1>1
<1>2. CASE o = [mounts |-> run[r].mounts, dirs |-> run[r].dirs, bad |-> TRUE]
  BY <1>2
<1> QED BY <1>1, <1>2 DEF Unmounts

LEMMA DeletesIs ==
  ASSUME NEW r \in Runs, NEW d \in {"root", "worktree", "ext"}, NEW o \in Deletes(r, d)
  PROVE  /\ o.mounts = run[r].mounts /\ o.bad \in BOOLEAN /\ o.dirs \subseteq run[r].dirs
         /\ run[r].dirs \ o.dirs \subseteq (IF d = "root" THEN {"root", "worktree"} ELSE {d})
         /\ o.dirs = run[r].dirs \/ Unmounted(r, d)
         /\ ~o.bad => d \notin o.dirs
<1>1. CASE o = [mounts |-> run[r].mounts, dirs |-> run[r].dirs, bad |-> TRUE]
  BY <1>1
<1>2. CASE /\ Unmounted(r, d)
           /\ o = [mounts |-> run[r].mounts, bad |-> FALSE,
                   dirs |-> run[r].dirs \ (IF d = "root" THEN {"root", "worktree"} ELSE {d})]
  BY <1>2
<1> QED BY <1>1, <1>2 DEF Deletes

\* What a step of the cleanup may do to mounts and directories.
LEMMA OutcomeIs ==
  ASSUME NEW r \in Runs, NEW c \in Entries, NEW o \in Outcomes(r, c)
  PROVE  /\ o.mounts \subseteq run[r].mounts /\ o.dirs \subseteq run[r].dirs
         /\ o.bad \in BOOLEAN
         /\ "root" \in run[r].dirs \ o.dirs => Removes(r)
         /\ \A d \in run[r].dirs \ o.dirs :
              run[r].mounts \cap (IF d = "ext" THEN {"git"} ELSE {"lower"}) = {}
         /\ ~o.bad /\ (c = "ext" \/ (c \in {"root", "worktree"} /\ Removes(r)))
              => c \notin o.dirs
<1> DEFINE same == [mounts |-> run[r].mounts, dirs |-> run[r].dirs, bad |-> FALSE]
<1>1. CASE c = "masks"
  <2>1. PICK b \in BOOLEAN : o = [same EXCEPT !.bad = b]
    BY <1>1 DEF Outcomes
  <2> QED BY <1>1, <2>1
<1>2. CASE c = "overlay"
  BY <1>2, UnmountsIs DEF Outcomes
<1>3. CASE c = "lower"
  <2>1. CASE Hidden(r)
    <3>1. o = [same EXCEPT !.bad = run[r].opts.base = "worktree"]
      BY <1>3, <2>1 DEF Outcomes
    <3> QED BY <1>3, <3>1
  <2>2. CASE ~Hidden(r)
    BY <1>3, <2>2, UnmountsIs DEF Outcomes
  <2> QED BY <2>1, <2>2
<1>4. CASE c = "git"
  BY <1>4, UnmountsIs DEF Outcomes
<1>5. CASE c = "ext"
  <2>1. o \in Deletes(r, "ext")
    BY <1>5 DEF Outcomes
  <2> QED BY <1>5, <2>1, DeletesIs DEF Unmounted
<1>6. CASE c \in {"root", "worktree"} /\ Removes(r)
  <2>1. o \in Deletes(r, c)
    BY <1>6 DEF Outcomes
  <2> QED BY <1>6, <2>1, DeletesIs DEF Unmounted
<1>7. CASE c \in {"root", "worktree"} /\ ~Removes(r)
  <2>1. o = same
    BY <1>7 DEF Outcomes
  <2> QED BY <1>7, <2>1
<1>8. CASE c = "lock"
  <2>1. o = same
    BY <1>8 DEF Outcomes
  <2> QED BY <1>8, <2>1
<1> QED BY <1>1, <1>2, <1>3, <1>4, <1>5, <1>6, <1>7, <1>8 DEF Entries

\* One step of the cleanup, as the proofs below use it.
LEMMA CleanupIs ==
  ASSUME IInv, NEW r \in Runs, Cleanup(r)
  PROVE  \E t \in Seq(Entries), o \in Outcomes(r, Top(r)) :
           /\ t = SubSeq(run[r].stack, 1, Len(run[r].stack) - 1)
           /\ Become(r, [run[r] EXCEPT !.stack = t, !.mounts = o.mounts,
                           !.dirs = o.dirs, !.bad = @ \/ o.bad])
           /\ Top(r) \in Entries /\ Bottom(t) /\ (t = <<>> <=> Top(r) = "lock")
           /\ \A e : On(run[r].stack, e) /\ e # Top(r) => On(t, e)
<1>1. /\ run[r].stack \in Seq(Entries) /\ run[r].stack # <<>> /\ Bottom(run[r].stack)
  BY OfRun DEF Cleanup, RunType, RunOK
<1>2. PICK o \in Outcomes(r, Top(r)) :
        Become(r, [run[r] EXCEPT !.stack = SubSeq(@, 1, Len(@) - 1),
                     !.mounts = o.mounts, !.dirs = o.dirs, !.bad = @ \/ o.bad])
  BY DEF Cleanup
<1> DEFINE t == SubSeq(run[r].stack, 1, Len(run[r].stack) - 1)
<1>3. /\ Top(r) \in Entries
      /\ t \in Seq(Entries) /\ Bottom(t) /\ (t = <<>> <=> Top(r) = "lock")
      /\ \A e : On(run[r].stack, e) /\ e # Top(r) => On(t, e)
  BY <1>1, Pop DEF Top
<1>4. Become(r, [run[r] EXCEPT !.stack = t, !.mounts = o.mounts,
                   !.dirs = o.dirs, !.bad = @ \/ o.bad])
  BY <1>2
<1> HIDE DEF t
<1>5. t = SubSeq(run[r].stack, 1, Len(run[r].stack) - 1)
  BY DEF t
<1> QED BY <1>2, <1>3, <1>4, <1>5

LEMMA CleanupKeeps == ASSUME IInv, NEW r \in Runs, Cleanup(r) PROVE IInv'
<1>1. PICK t \in Seq(Entries), o \in Outcomes(r, Top(r)) :
        /\ Become(r, [run[r] EXCEPT !.stack = t, !.mounts = o.mounts,
                        !.dirs = o.dirs, !.bad = @ \/ o.bad])
        /\ Top(r) \in Entries /\ Bottom(t) /\ (t = <<>> <=> Top(r) = "lock")
        /\ \A e : On(run[r].stack, e) /\ e # Top(r) => On(t, e)
  BY CleanupIs
<1> DEFINE x == [run[r] EXCEPT !.stack = t, !.mounts = o.mounts,
                   !.dirs = o.dirs, !.bad = @ \/ o.bad]
<1>2. /\ run[r] \in RunType /\ RunOK(r, run[r], patch) /\ run[r].at = "cleanup"
      /\ lock = r /\ patch' = patch /\ patch \subseteq Runs
      /\ lock' = IF Top(r) = "lock" THEN NoRun ELSE lock
  BY OfRun DEF Cleanup, At, IInv, TypeOK
<1>3. /\ o.mounts \subseteq run[r].mounts /\ o.dirs \subseteq run[r].dirs
      /\ o.bad \in BOOLEAN
      /\ "root" \in run[r].dirs \ o.dirs => Removes(r)
      /\ ~o.bad /\ (Top(r) = "ext" \/ (Top(r) \in {"root", "worktree"} /\ Removes(r)))
           => Top(r) \notin o.dirs
  BY <1>1, OutcomeIs
<1>4. x \in RunType /\ Become(r, x)
  BY <1>1, <1>2, <1>3 DEF RunType
<1>5. /\ x.at = "cleanup" /\ x.stack = t /\ x.dirs = o.dirs
      /\ x.wrote = run[r].wrote /\ x.group = run[r].group /\ x.res = run[r].res
      /\ x.opts = run[r].opts /\ (x.bad <=> run[r].bad \/ o.bad)
  BY <1>2, <1>3 DEF RunType
<1> HIDE DEF x
<1>6. Removes(r) <=> Goes(run[r])
  BY DEF Removes, Goes
<1>7. Places(x)
  BY <1>2, <1>5, SetupIs DEF RunOK, Places, Active, Late
<1>8. Work(r, x, patch)
  BY <1>2, <1>3, <1>5, <1>6 DEF RunOK, Work, Late, Goes
<1>9. Tidy(x)
  <2>1. ASSUME ~x.bad, "ext" \in x.dirs PROVE On(x.stack, "ext")
    BY <1>1, <1>2, <1>3, <1>5, <2>1 DEF RunOK, Tidy
  <2>2. ASSUME ~x.bad, Goes(x), NEW d \in x.dirs \ {"unmarked"} PROVE On(x.stack, d)
    <3>1. d \in {"root", "worktree", "ext"} /\ On(run[r].stack, d)
      BY <1>2, <1>3, <1>5, <2>2 DEF RunOK, Tidy, Goes, RunType
    <3>2. Removes(r)
      BY <1>5, <1>6, <2>2 DEF Goes
    <3>3. d # Top(r)
      BY <1>3, <1>5, <2>2, <3>1, <3>2
    <3> QED BY <1>1, <1>5, <3>1, <3>3
  <2>3. x.res = "ok" => "unmarked" \notin x.dirs
    BY <1>2, <1>3, <1>5 DEF RunOK, Tidy
  <2> QED BY <1>5, <2>1, <2>2, <2>3, SetupIs DEF Tidy, Active, Late
<1>10. RunOK(r, x, patch')
  BY <1>1, <1>2, <1>5, <1>7, <1>8, <1>9 DEF RunOK
<1>11. lock' \in Runs \cup {NoRun} /\ (lock' = r <=> x.stack # <<>>)
  BY <1>1, <1>2, <1>5, RunAssumption
<1>12. \A q \in Runs \ {r} : lock' = q <=> lock = q
  BY <1>2, RunAssumption
<1> QED BY <1>2, <1>4, <1>10, <1>11, <1>12, Keeps

\* What is left of a run that has ended.
LEMMA GoneIs ==
  ASSUME IInv, NEW r \in Runs, NEW how \in {"done", "dead"},
         NEW res \in {"none", "ok", "error"}, NEW bad \in BOOLEAN, Gone(r, how, res, bad)
  PROVE  \E x \in RunType :
           /\ Become(r, x)
           /\ x.at = how /\ x.stack = <<>> /\ x.dirs = run[r].dirs
           /\ x.wrote = run[r].wrote /\ x.group = "none" /\ x.res = res
           /\ x.opts = run[r].opts /\ x.bad = bad
<1> DEFINE y == New(run[r].opts)
           x == [y EXCEPT !.at = how, !.dirs = run[r].dirs, !.wrote = run[r].wrote,
                   !.res = res, !.bad = bad]
<1>1. run[r] \in RunType /\ Become(r, x)
  BY OfRun DEF Gone
<1>2. run[r].opts \in OptionType
  BY <1>1 DEF RunType
<1>3. y \in RunType /\ y.stack = <<>> /\ y.group = "none" /\ y.opts = run[r].opts
  BY <1>2, EmptyIs DEF New, RunType
<1> HIDE DEF y
<1>4. x \in RunType
  BY <1>1, <1>3 DEF RunType
<1>5. /\ x.at = how /\ x.stack = <<>> /\ x.dirs = run[r].dirs
      /\ x.wrote = run[r].wrote /\ x.group = "none" /\ x.res = res
      /\ x.opts = run[r].opts /\ x.bad = bad
  BY <1>3 DEF RunType
<1> HIDE DEF x
<1> QED BY <1>1, <1>4, <1>5

LEMMA EndKeeps == ASSUME IInv, NEW r \in Runs, End(r) PROVE IInv'
<1> DEFINE res == IF run[r].bad THEN "error" ELSE run[r].res
<1>1. /\ run[r] \in RunType /\ RunOK(r, run[r], patch) /\ run[r].at = "cleanup"
      /\ run[r].stack = <<>> /\ Gone(r, "done", res, run[r].bad)
      /\ UNCHANGED <<patch, lock>>
  BY OfRun DEF End, At
<1>2. res \in {"none", "ok", "error"} /\ run[r].bad \in BOOLEAN
  BY <1>1 DEF RunType
<1>3. PICK x \in RunType :
        /\ Become(r, x)
        /\ x.at = "done" /\ x.stack = <<>> /\ x.dirs = run[r].dirs
        /\ x.wrote = run[r].wrote /\ x.group = "none" /\ x.res = res
        /\ x.opts = run[r].opts /\ x.bad = run[r].bad
  BY <1>1, <1>2, GoneIs
<1>4. x.res = "ok" => run[r].res = "ok" /\ ~run[r].bad
  BY <1>3
<1> HIDE DEF res
<1>5. \A e : ~On(run[r].stack, e)
  BY <1>1, EmptyIs DEF On
<1>6. Places(x)
  BY <1>3, SetupIs DEF Places, Active, Late
<1>7. Work(r, x, patch)
  BY <1>1, <1>3, <1>4 DEF RunOK, Work, Late
<1>8. Tidy(x)
  <2>1. ~x.bad => "ext" \notin x.dirs
    BY <1>1, <1>3, <1>5 DEF RunOK, Tidy
  <2>2. ASSUME x.res = "ok" PROVE ~x.bad /\ "unmarked" \notin x.dirs
    BY <1>1, <1>3, <1>4, <2>2 DEF RunOK, Tidy
  <2>3. ASSUME x.res = "ok", x.opts.keep # "always" PROVE x.dirs = {}
    <3>1. run[r].opts.keep \in {"on-fail", "always", "never"}
      BY <1>1 DEF RunType, OptionType
    <3>2. Goes(run[r])
      BY <1>3, <1>4, <2>3, <3>1 DEF Goes
    <3> QED BY <1>1, <1>3, <1>4, <1>5, <2>2, <2>3, <3>2 DEF RunOK, Tidy
  <2> QED BY <1>3, <2>1, <2>2, <2>3, SetupIs DEF Tidy, Active, Late
<1>9. RunOK(r, x, patch)
  BY <1>3, <1>6, <1>7, <1>8, EmptyIs DEF RunOK
<1> QED BY <1>1, <1>3, <1>9, KeepsRest

LEMMA KillKeeps == ASSUME IInv, NEW r \in Runs, Kill(r) PROVE IInv'
<1>1. /\ run[r] \in RunType /\ RunOK(r, run[r], patch) /\ Gone(r, "dead", "none", FALSE)
      /\ patch' = patch /\ patch \subseteq Runs /\ lock \in Runs \cup {NoRun}
      /\ lock' = IF lock = r THEN NoRun ELSE lock
  <2>1. run[r] \in RunType /\ RunOK(r, run[r], patch)
    BY OfRun
  <2>2. patch \subseteq Runs /\ lock \in Runs \cup {NoRun}
    BY DEF IInv, TypeOK
  <2> QED BY <2>1, <2>2 DEF Kill
<1>2. PICK x \in RunType :
        /\ Become(r, x)
        /\ x.at = "dead" /\ x.stack = <<>> /\ x.dirs = run[r].dirs
        /\ x.wrote = run[r].wrote /\ x.group = "none" /\ x.res = "none"
        /\ x.opts = run[r].opts /\ x.bad = FALSE
  <2> DEFINE how == "dead"
             res == "none"
             bad == FALSE
  <2>1. how \in {"done", "dead"} /\ res \in {"none", "ok", "error"} /\ bad \in BOOLEAN
    OBVIOUS
  <2>2. Gone(r, how, res, bad)
    BY <1>1
  <2> HIDE DEF how, res, bad
  <2>3. \E x \in RunType :
           /\ Become(r, x)
           /\ x.at = how /\ x.stack = <<>> /\ x.dirs = run[r].dirs
           /\ x.wrote = run[r].wrote /\ x.group = "none" /\ x.res = res
           /\ x.opts = run[r].opts /\ x.bad = bad
    BY <2>1, <2>2, GoneIs
  <2> QED BY <2>3 DEF how, res, bad
<1>3. Places(x)
  BY <1>2, SetupIs DEF Places, Active, Late
<1>4. Work(r, x, patch)
  BY <1>1, <1>2 DEF RunOK, Work, Late
<1>5. Tidy(x)
  BY <1>2, SetupIs DEF Tidy, Active, Late
<1>6. RunOK(r, x, patch')
  BY <1>1, <1>2, <1>3, <1>4, <1>5, EmptyIs DEF RunOK
<1>7. /\ lock' \in Runs \cup {NoRun} /\ lock' # r
      /\ \A q \in Runs \ {r} : lock' = q <=> lock = q
  BY <1>1, RunAssumption
<1> QED BY <1>1, <1>2, <1>6, <1>7, Keeps
-----------------------------------------------------------------------------
(***************************************************************************)
(* The theorems.                                                           *)
(***************************************************************************)
LEMMA NextKeeps == ASSUME IInv, [Next]_vars PROVE IInv'
<1>1. CASE UNCHANGED vars
  BY <1>1 DEF vars, IInv, TypeOK, RunOK, Bottom, Places, Work, Tidy, Goes, On
<1>2. CASE Next
  <2>1. PICK r \in Runs : Begin(r) \/ Lock(r) \/ Step(r) \/ Fails(r) \/ Command(r) \/ Kill(r)
    BY <1>2 DEF Next
  <2>2. CASE Step(r)
    BY <2>2, AdvanceKeeps, UnmaskKeeps, ExportKeeps, ReturnsKeep, CleanupKeeps, EndKeeps,
       ProbesDoneKeeps DEF Step
  <2>3. CASE Fails(r)
    BY <2>3, SetupFailsKeeps, ReturnsKeep DEF Fails
  <2>4. CASE Command(r)
    BY <2>4, NotStartedKeeps, StartKeeps, WriteKeeps, LeaderExitsKeeps, GroupGoneKeeps
       DEF Command
  <2> QED BY <2>1, <2>2, <2>3, <2>4, BeginKeeps, LockKeeps, KillKeeps
<1> QED BY <1>1, <1>2

\* The cleanup stack matches what a run has made, in every state.
THEOREM Invariance == Spec => []IInv
<1> QED BY InitHolds, NextKeeps, PTL DEF Spec

\* Types, and that the lock is held exactly by a run that will release it.
THEOREM TypeCorrect == Spec => []TypeOK
<1>1. IInv => TypeOK
  BY DEF IInv
<1> QED BY <1>1, Invariance, PTL

\* Whatever way a run ends, what its command changed can be found.
THEOREM KeepsWork == Spec => []WorkKept
<1>1. IInv => WorkKept
  BY DEF IInv, RunOK, Work, WorkKept
<1> QED BY <1>1, Invariance, PTL

\* A run that reports success has saved and has removed what it was to remove;
\* one that could clean up leaves no external directory.
THEOREM LeavesClean == Spec => []CleanExit
<1>1. IInv => CleanExit
  <2> SUFFICES ASSUME IInv, NEW r \in Runs, run[r].at = "done"
               PROVE  /\ run[r].res = "ok" /\ run[r].wrote => r \in patch
                      /\ ~run[r].bad => "ext" \notin run[r].dirs
                      /\ run[r].res = "ok" /\ run[r].opts.keep # "always"
                           => run[r].dirs = {}
    BY DEF CleanExit, At
  <2> QED BY OfRun DEF RunOK, Work, Tidy
<1> QED BY <1>1, Invariance, PTL

\* Runs that share a patch only ever add to it: each saves a view that it opened
\* on the patch of the time, and the lock keeps the patch as it was.
THEOREM RunsAddUp == Spec => PatchAccumulates
<1>1. ASSUME IInv, [Next]_vars PROVE patch \subseteq patch'
  <2>1. CASE patch' = patch
    BY <2>1
  <2>2. CASE patch' # patch
    <3>1. PICK r \in Runs : Save(r) \/ SaveUnsynced(r)
      BY <1>1, <2>2 DEF Next, vars, Step, Fails, Command, Begin, Lock, Advance, Unmask,
         Export, Cleanup, End, ProbesDone, SetupFails, LateFails, NotStarted, Start, Write,
         LeaderExits, GroupGone, Kill
    <3> QED BY <1>1, <3>1, SavesMore DEF Save, SaveUnsynced
  <2> QED BY <2>1, <2>2
<1>2. IInv /\ [Next]_vars => [patch \subseteq patch']_vars
  BY <1>1
<1> QED BY <1>2, Invariance, PTL DEF Spec, PatchAccumulates

\* Directories go by a cleanup step only, and not while something they hold the
\* mount point of is mounted.
THEOREM DeletesNoSource == Spec => SourcesSafe
<1> DEFINE Safe(q) == \A d \in run[q].dirs \ run'[q].dirs :
             run[q].mounts \cap (IF d = "ext" THEN {"git"} ELSE {"lower"}) = {}
<1>1. ASSUME IInv, Next, NEW q \in Runs PROVE Safe(q)
  <2>1. PICK r \in Runs : Begin(r) \/ Lock(r) \/ Step(r) \/ Fails(r) \/ Command(r) \/ Kill(r)
    BY <1>1 DEF Next
  <2>2. run \in [Runs -> RunType] /\ run[q] \in RunType
    BY <1>1 DEF IInv, TypeOK
  <2>3. ASSUME NEW x, Become(r, x), q # r \/ run[q].dirs \subseteq x.dirs PROVE Safe(q)
    <3>1. run'[q] = IF q = r THEN x ELSE run[q]
      BY <2>2, <2>3 DEF Become
    <3> QED BY <2>3, <3>1
  <2>4. ASSUME q # r PROVE Safe(q)
    <3>1. run'[q] = run[q]
      BY <2>1, <2>2, <2>4 DEF Step, Fails, Command, Begin, Lock, Advance, Unmask, Export,
         Save, Cleanup, End, ProbesDone, SetupFails, LateFails, SaveUnsynced, NotStarted,
         Start, Write, LeaderExits, GroupGone, Kill, Become, Return, Gone
    <3> QED BY <3>1
  <2>5. ASSUME q = r, Cleanup(r) PROVE Safe(q)
    <3>1. PICK t \in Seq(Entries), o \in Outcomes(r, Top(r)) :
            /\ Become(r, [run[r] EXCEPT !.stack = t, !.mounts = o.mounts,
                            !.dirs = o.dirs, !.bad = @ \/ o.bad])
            /\ Top(r) \in Entries
      BY <1>1, <2>5, CleanupIs
    <3>2. run'[q].dirs = o.dirs
      BY <2>2, <2>5, <3>1 DEF Become, RunType
    <3> QED BY <2>5, <3>1, <3>2, OutcomeIs
  <2>6. ASSUME q = r, End(r) \/ Kill(r) PROVE Safe(q)
    <3>1. PICK how \in {"done", "dead"}, res \in {"none", "ok", "error"}, bad \in BOOLEAN :
            Gone(r, how, res, bad)
      BY <2>2, <2>6 DEF End, Kill, RunType
    <3>2. PICK x \in RunType : Become(r, x) /\ x.dirs = run[r].dirs
      BY <1>1, <3>1, GoneIs
    <3> QED BY <2>3, <2>6, <3>2
  <2>7. ASSUME q = r, SetupFails(r) PROVE Safe(q)
    <3>1. CASE Return(r, run[r], "error")
      BY <2>2, <2>3, <2>7, <3>1 DEF Return, RunType
    <3>2. CASE At(r, "create")
      <4>1. run[q].dirs = {}
        BY <1>1, <2>7, <3>2, OfRun DEF At, RunOK, Places
      <4> QED BY <4>1
    <3> QED BY <2>7, <3>1, <3>2 DEF SetupFails
  <2>8. ASSUME q = r, Advance(r) PROVE Safe(q)
    BY <2>2, <2>3, <2>8 DEF Advance, RunType
  <2>9. ASSUME q = r, \/ Begin(r) \/ Lock(r) \/ Command(r) \/ Unmask(r) \/ Export(r)
                      \/ ProbesDone(r)
        PROVE  Safe(q)
    BY <2>2, <2>3, <2>9 DEF Command, Begin, Lock, Unmask, Export, ProbesDone, NotStarted,
       Start, Write, LeaderExits, GroupGone, RunType
  <2>10. ASSUME q = r, Save(r) \/ SaveUnsynced(r) \/ LateFails(r) PROVE Safe(q)
    BY <2>2, <2>3, <2>10 DEF Save, SaveUnsynced, LateFails, Return, RunType
  <2> QED BY <2>1, <2>4, <2>5, <2>6, <2>7, <2>8, <2>9, <2>10 DEF Step, Fails
<1>2. ASSUME IInv, [Next]_vars
      PROVE  [\A r \in Runs : \A d \in run[r].dirs \ run'[r].dirs :
                run[r].mounts \cap (IF d = "ext" THEN {"git"} ELSE {"lower"}) = {}]_vars
  BY <1>1, <1>2
<1> QED BY <1>2, Invariance, PTL DEF Spec, SourcesSafe
-----------------------------------------------------------------------------
(***************************************************************************)
(* What a save adds, and how long a run may take.                          *)
(***************************************************************************)
\* A view holds the patch it was opened on and the run's own change.
ViewInv == \A r \in Runs : run[r].view \subseteq patch \cup {r}

\* How many steps a run may still take: those of its setup, each counted with
\* the entries it pushes, and of the rest of its way; those on its cleanup
\* stack; the end of its command's group; and the change the command may make.
StageLeft(s) ==
  IF s = "new" THEN 27 ELSE IF s = "lock" THEN 26 ELSE IF s = "create" THEN 24
  ELSE IF s = "base" THEN 22 ELSE IF s = "ext" THEN 20 ELSE IF s = "gitdir" THEN 18
  ELSE IF s = "lower" THEN 16 ELSE IF s = "overlay" THEN 14 ELSE IF s = "apply" THEN 11
  ELSE IF s = "ignored" THEN 10 ELSE IF s = "hide" THEN 9 ELSE IF s = "start" THEN 8
  ELSE IF s = "command" THEN 6 ELSE IF s = "reap" THEN 5 ELSE IF s = "unmask" THEN 4
  ELSE IF s = "export" THEN 3 ELSE IF s = "save" THEN 2 ELSE 1
GroupLeft(x) == IF x.at = "command" \/ x.group = "alive" THEN 1 ELSE 0
WriteLeft(x) == IF x.wrote THEN 0 ELSE 1
StepsLeft(x) ==
  IF x.at \in {"done", "dead"} THEN 0
  ELSE StageLeft(x.at) + Len(x.stack) + GroupLeft(x) + WriteLeft(x)
LongestRun == 28

Acts(r) == Begin(r) \/ Lock(r) \/ Step(r) \/ Fails(r) \/ Command(r) \/ Kill(r)

\* A step is one run's.
LEMMA OneActs ==
  ASSUME IInv, NEW r \in Runs, Acts(r)
  PROVE  \E x : Become(r, x) /\ run'[r] = x /\ \A q \in Runs \ {r} : run'[q] = run[q]
<1>1. run \in [Runs -> RunType]
  BY DEF IInv, TypeOK
<1>2. PICK x : Become(r, x)
  BY DEF Acts, Step, Fails, Command, Begin, Lock, Advance, Unmask, Export, Save, Cleanup, End,
     ProbesDone, SetupFails, LateFails, SaveUnsynced, NotStarted, Start, Write, LeaderExits,
     GroupGone, Kill, Return, Gone
<1> QED BY <1>1, <1>2 DEF Become

\* What a run may do to its view.
LEMMA ViewSteps ==
  ASSUME IInv, NEW r \in Runs, Acts(r)
  PROVE  run'[r].view \in {{}, patch, run[r].view, run[r].view \cup {r}}
<1>1. run \in [Runs -> RunType] /\ run[r] \in RunType
  BY DEF IInv, TypeOK
<1>2. ASSUME NEW x, Become(r, x) PROVE run'[r] = x
  BY <1>1, <1>2, Becomes
<1>3. CASE Begin(r) \/ Lock(r) \/ Unmask(r) \/ Export(r) \/ ProbesDone(r) \/ NotStarted(r)
           \/ Start(r) \/ LeaderExits(r) \/ GroupGone(r)
  <2>1. CASE Begin(r) \/ Unmask(r) \/ Export(r) \/ NotStarted(r)
    <3>1. PICK s : Become(r, [run[r] EXCEPT !.at = s])
      BY <2>1 DEF Begin, Unmask, Export, NotStarted
    <3> QED BY <1>1, <1>2, <3>1, StageMoves
  <2>2. CASE Start(r) \/ LeaderExits(r) \/ ProbesDone(r)
    <3>1. PICK s, g : Become(r, [run[r] EXCEPT !.at = s, !.group = g])
      BY <2>2 DEF Start, LeaderExits, ProbesDone
    <3>2. run'[r] = [run[r] EXCEPT !.at = s, !.group = g]
      BY <1>2, <3>1
    <3>3. run'[r].view = run[r].view
      BY <1>1, <3>2 DEF RunType
    <3> QED BY <3>3
  <2>3. CASE GroupGone(r)
    <3>1. Become(r, [run[r] EXCEPT !.group = "gone"])
      BY <2>3 DEF GroupGone
    <3> QED BY <1>1, <1>2, <3>1, GroupMoves
  <2>4. CASE Lock(r)
    <3>1. PICK s, t : Become(r, [run[r] EXCEPT !.at = s, !.stack = t])
      BY <2>4 DEF Lock
    <3> QED BY <1>1, <1>2, <3>1 DEF RunType
  <2> QED BY <1>3, <2>1, <2>2, <2>3, <2>4
<1>4. CASE Write(r)
  <2>1. run'[r] = [run[r] EXCEPT !.wrote = TRUE, !.view = @ \cup {r}]
    BY <1>2, <1>4 DEF Write
  <2>2. run'[r].view = run[r].view \cup {r}
    BY <1>1, <2>1 DEF RunType
  <2> QED BY <2>2
<1>5. CASE Fails(r) \/ Save(r)
  <2>1. PICK x, res : /\ x = run[r] \/ x = [run[r] EXCEPT !.dirs = {"unmarked"}]
                      /\ Return(r, x, res)
    BY <1>5 DEF Fails, SetupFails, LateFails, SaveUnsynced, Save
  <2>2. run'[r] = [x EXCEPT !.at = "cleanup", !.view = {}, !.res = res]
    BY <1>2, <2>1 DEF Return
  <2>3. x \in RunType
    BY <1>1, <2>1 DEF RunType
  <2>4. run'[r].view = {}
    BY <2>2, <2>3 DEF RunType
  <2> QED BY <2>4
<1>6. CASE Advance(r)
  <2> DEFINE s == run[r].at
             o == run[r].opts
             a == After[s]
             t == run[r].stack \o Pushed(s, o)
             m == run[r].mounts \cup MountOf(s)
             d == run[r].dirs \cup DirOf(s, o)
             v == IF s = "apply" THEN patch ELSE run[r].view
  <2>1. run'[r] = [run[r] EXCEPT !.at = a, !.stack = t, !.mounts = m, !.dirs = d, !.view = v]
    BY <1>2, <1>6 DEF Advance
  <2>2. v \in {patch, run[r].view}
    OBVIOUS
  <2> HIDE DEF a, t, m, d, v
  <2>3. run'[r].view = v
    BY <1>1, <2>1 DEF RunType
  <2> QED BY <2>2, <2>3
<1>7. CASE Cleanup(r)
  <2>1. PICK t, m, d, b : Become(r, [run[r] EXCEPT !.stack = t, !.mounts = m, !.dirs = d,
                                                   !.bad = b])
    BY <1>7 DEF Cleanup
  <2>2. run'[r] = [run[r] EXCEPT !.stack = t, !.mounts = m, !.dirs = d, !.bad = b]
    BY <1>2, <2>1
  <2>3. run'[r].view = run[r].view
    BY <1>1, <2>2 DEF RunType
  <2> QED BY <2>3
<1>8. CASE End(r) \/ Kill(r)
  <2>1. \A o : New(o).view = {}
    BY DEF New
  <2>2. ASSUME NEW how, NEW res, NEW bad, Gone(r, how, res, bad) PROVE run'[r].view = {}
    <3>1. run'[r] = [New(run[r].opts) EXCEPT !.at = how, !.dirs = run[r].dirs,
                       !.wrote = run[r].wrote, !.res = res, !.bad = bad]
      BY <1>2, <2>2 DEF Gone
    <3> QED BY <3>1 DEF New
  <2> QED BY <1>8, <2>2 DEF End, Kill
<1> QED BY <1>3, <1>4, <1>5, <1>6, <1>7, <1>8 DEF Acts, Step, Command

\* Who changes the patch saves its view, with the lock.
LEMMA PatchSteps ==
  ASSUME IInv, NEW r \in Runs, Acts(r), patch' # patch
  PROVE  lock = r /\ At(r, "save") /\ patch \subseteq patch' /\ patch' = run[r].view
<1>1. Save(r) \/ SaveUnsynced(r)
  BY DEF Acts, Step, Fails, Command, Begin, Lock, Advance, Unmask, Export, Cleanup, End,
     ProbesDone, SetupFails, LateFails, NotStarted, Start, Write, LeaderExits, GroupGone, Kill
<1> QED BY <1>1, SavesMore, OfRun DEF Save, SaveUnsynced

LEMMA ViewInvKeeps == ASSUME IInv, ViewInv, [Next]_vars PROVE ViewInv'
<1>1. CASE UNCHANGED vars
  BY <1>1 DEF vars, ViewInv
<1>2. ASSUME NEW r \in Runs, Acts(r) PROVE ViewInv'
  <2>1. patch \subseteq patch'
    BY <1>2, PatchSteps
  <2>2. \A q \in Runs \ {r} : run'[q] = run[q]
    BY <1>2, OneActs
  <2>3. run'[r].view \subseteq patch' \cup {r}
    BY <1>2, <2>1, ViewSteps DEF ViewInv
  <2> QED BY <2>1, <2>2, <2>3 DEF ViewInv
<1> QED BY <1>1, <1>2 DEF Next, Acts

\* A save of the run that holds the lock, which may add its own change.
SavesOwn == \E r \in Runs : /\ lock = r /\ At(r, "save")
                            /\ patch' \in {patch, patch \cup {r}}

(***************************************************************************)
(* The patch changes only when a run saves that holds its lock, and then   *)
(* only by that run's own change: no save carries work of another run that *)
(* was not saved, or takes any back.                                       *)
(***************************************************************************)
THEOREM SavesItsOwn == Spec => [][SavesOwn]_patch
<1>1. Init => ViewInv
  <2> SUFFICES ASSUME Init, NEW r \in Runs PROVE run[r].view = {}
    BY DEF ViewInv
  <2>1. \A o : New(o).view = {}
    BY DEF New
  <2> QED BY <2>1 DEF Init
<1>2. ASSUME IInv, ViewInv, [Next]_vars PROVE [SavesOwn]_patch
  <2> SUFFICES ASSUME patch' # patch PROVE SavesOwn
    OBVIOUS
  <2>1. PICK r \in Runs : Acts(r)
    BY <1>2 DEF Next, Acts, vars
  <2> QED BY <1>2, <2>1, PatchSteps DEF ViewInv, SavesOwn
<1> QED BY <1>1, <1>2, ViewInvKeeps, Invariance, PTL DEF Spec

\* What StepsLeft is made of.
LEMMA RunLength ==
  ASSUME NEW x \in RunType
  PROVE  /\ StageLeft(x.at) \in Nat \ {0} /\ Len(x.stack) \in Nat
         /\ GroupLeft(x) \in 0 .. 1 /\ WriteLeft(x) \in 0 .. 1
         /\ StepsLeft(x) \in Nat
         /\ x.at \notin {"done", "dead"} =>
              /\ StepsLeft(x) > 0
              /\ StepsLeft(x) = StageLeft(x.at) + Len(x.stack) + GroupLeft(x) + WriteLeft(x)
<1> DEFINE a == StageLeft(x.at)
           k == Len(x.stack)
           g == GroupLeft(x)
           w == WriteLeft(x)
<1>1. x.stack \in Seq(Entries)
  BY DEF RunType
<1>2. k \in Nat
  BY <1>1, LenProperties
<1>3. g \in 0 .. 1 /\ w \in 0 .. 1
  BY DEF GroupLeft, WriteLeft
<1>4. a \in Nat \ {0}
  BY DEF StageLeft
<1>5. StepsLeft(x) = IF x.at \in {"done", "dead"} THEN 0 ELSE a + k + g + w
  BY DEF StepsLeft
<1> HIDE DEF a, k, g, w
<1>6. a + k + g + w \in Nat /\ a + k + g + w > 0
  BY <1>2, <1>3, <1>4
<1>7. StepsLeft(x) \in Nat /\ (x.at \notin {"done", "dead"} => StepsLeft(x) = a + k + g + w)
  BY <1>5, <1>6
<1> QED BY <1>2, <1>3, <1>4, <1>6, <1>7 DEF a, k, g, w

\* The end of a run.
LEMMA EndNears ==
  ASSUME NEW x \in RunType, NEW y, x.at \notin {"done", "dead"}, y.at \in {"done", "dead"}
  PROVE  StepsLeft(y) < StepsLeft(x)
<1>1. StepsLeft(y) = 0
  BY DEF StepsLeft
<1> QED BY <1>1, RunLength

\* A step takes from the stage more than it puts elsewhere (e to the stack, f
\* to the group), or from one of the others.
LEMMA SumNears ==
  ASSUME NEW x \in RunType, NEW y \in RunType,
         x.at \notin {"done", "dead"}, y.at \notin {"done", "dead"},
         NEW e \in Int, NEW f \in Int, NEW h \in Int,
         Len(y.stack) <= Len(x.stack) + e,
         GroupLeft(y) <= GroupLeft(x) + f,
         WriteLeft(y) <= WriteLeft(x) + h,
         StageLeft(y.at) + e + f + h < StageLeft(x.at)
  PROVE  StepsLeft(y) < StepsLeft(x)
<1> DEFINE a == StageLeft(x.at)
           b == StageLeft(y.at)
           k == Len(x.stack)
           l == Len(y.stack)
           g == GroupLeft(x)
           i == GroupLeft(y)
           w == WriteLeft(x)
           u == WriteLeft(y)
<1>1. /\ a \in Nat /\ b \in Nat /\ k \in Nat /\ l \in Nat
      /\ g \in Nat /\ i \in Nat /\ w \in Nat /\ u \in Nat
  <2>1. a \in Nat \ {0} /\ k \in Nat /\ g \in 0 .. 1 /\ w \in 0 .. 1
    BY RunLength
  <2>2. b \in Nat \ {0} /\ l \in Nat /\ i \in 0 .. 1 /\ u \in 0 .. 1
    BY RunLength
  <2> HIDE DEF a, b, k, l, g, i, w, u
  <2> QED BY <2>1, <2>2
<1>2. StepsLeft(x) = a + k + g + w /\ StepsLeft(y) = b + l + i + u
  BY RunLength
<1>3. l <= k + e /\ i <= g + f /\ u <= w + h /\ b + e + f + h < a
  OBVIOUS
<1> HIDE DEF a, b, k, l, g, i, w, u
<1>4. \A aa, bb, kk, ll, gg, ii, ww, uu, ee, ff, hh \in Int :
        /\ ll <= kk + ee /\ ii <= gg + ff /\ uu <= ww + hh /\ bb + ee + ff + hh < aa
        => bb + ll + ii + uu < aa + kk + gg + ww
  OBVIOUS
<1>5. b + l + i + u < a + k + g + w
  BY <1>1, <1>3, <1>4
<1> QED BY <1>2, <1>5

\* A step to an earlier stage with the rest as it was.
LEMMA StageNears ==
  ASSUME NEW x \in RunType, NEW y \in RunType,
         x.at \notin {"done", "dead"}, y.at \notin {"done", "dead"},
         StageLeft(y.at) < StageLeft(x.at), y.stack = x.stack, y.wrote = x.wrote,
         GroupLeft(y) <= GroupLeft(x)
  PROVE  StepsLeft(y) < StepsLeft(x)
<1>1. Len(y.stack) \in Nat /\ GroupLeft(x) \in Nat /\ WriteLeft(y) \in Nat
  BY RunLength
<1>2. Len(y.stack) <= Len(x.stack) + 0
  BY <1>1
<1>3. WriteLeft(y) = WriteLeft(x)
  BY DEF WriteLeft
<1>4. WriteLeft(y) <= WriteLeft(x) + 0
  BY <1>1, <1>3
<1>5. GroupLeft(y) <= GroupLeft(x) + 0
  BY <1>1
<1>6. StageLeft(y.at) + 0 + 0 + 0 < StageLeft(x.at)
  BY RunLength
<1> QED BY <1>2, <1>4, <1>5, <1>6, SumNears

\* A stage of the setup counts for what it pushes and one step more.
LEMMA PushesFew ==
  ASSUME NEW s \in Setup \ {"lock"}, NEW o \in OptionType
  PROVE  /\ Len(Pushed(s, o)) \in Nat /\ Pushed(s, o) \in Seq(Entries)
         /\ StageLeft(After[s]) + Len(Pushed(s, o)) < StageLeft(s)
<1>1. Len(<<>>) = 0 /\ (\A e \in Entries : Len(<<e>>) = 1) /\ Len(<<"overlay", "masks">>) = 2
  BY EmptyIs
<1>2. Pushed(s, o) \in Seq(Entries)
  BY PushedIs
<1>3. CASE s = "overlay"
  <2>1. Pushed(s, o) = <<"overlay", "masks">> /\ After[s] = "apply"
    BY <1>3 DEF Pushed, After
  <2>2. StageLeft(s) = 14 /\ StageLeft(After[s]) = 11
    BY <1>3, <2>1 DEF StageLeft
  <2>3. Len(Pushed(s, o)) = 2
    BY <1>1, <2>1
  <2> QED BY <1>2, <2>2, <2>3
<1>4. CASE s \in {"apply", "ignored", "hide"}
  <2>1. Pushed(s, o) = <<>>
    BY <1>4 DEF Pushed
  <2>2. StageLeft(After[s]) = StageLeft(s) - 1 /\ StageLeft(s) \in 1 .. 27
    BY <1>4 DEF After, StageLeft
  <2>3. Len(Pushed(s, o)) = 0
    BY <1>1, <2>1
  <2> DEFINE n == Len(Pushed(s, o))
             a == StageLeft(s)
             b == StageLeft(After[s])
  <2> HIDE DEF n, a, b
  <2>4. n \in Nat /\ b + n < a
    <3>1. n = 0 /\ b = a - 1 /\ a \in 1 .. 27
      BY <2>2, <2>3 DEF n, a, b
    <3> QED BY <3>1
  <2> QED BY <1>2, <2>4 DEF n, a, b
<1>5. CASE s \in {"create", "base", "ext", "gitdir", "lower"}
  <2>1. Pushed(s, o) = <<>> \/ \E e \in Entries : Pushed(s, o) = <<e>>
    BY <1>5 DEF Pushed, Entries
  <2>2. Len(Pushed(s, o)) \in 0 .. 1
    BY <1>1, <2>1
  <2>3. StageLeft(After[s]) = StageLeft(s) - 2 /\ StageLeft(s) \in 1 .. 27
    BY <1>5 DEF After, StageLeft
  <2> DEFINE n == Len(Pushed(s, o))
             a == StageLeft(s)
             b == StageLeft(After[s])
  <2> HIDE DEF n, a, b
  <2>4. n \in Nat /\ b + n < a
    <3>1. n \in 0 .. 1 /\ b = a - 2 /\ a \in 1 .. 27
      BY <2>2, <2>3 DEF n, a, b
    <3> QED BY <3>1
  <2> QED BY <1>2, <2>4 DEF n, a, b
<1> QED BY <1>3, <1>4, <1>5, SetupIs

\* The setup goes on.
LEMMA AdvanceNears ==
  ASSUME IInv, IInv', NEW r \in Runs, Advance(r) PROVE StepsLeft(run'[r]) < StepsLeft(run[r])
<1> DEFINE x == run[r]
           y == run'[r]
           u == Pushed(x.at, x.opts)
<1>1. /\ x \in RunType /\ y \in RunType /\ run \in [Runs -> RunType]
      /\ x.at \in Setup \ {"lock"} /\ x.stack \in Seq(Entries) /\ x.opts \in OptionType
  BY DEF IInv, TypeOK, Advance, RunType
<1>2. /\ y.at = After[x.at] /\ y.stack = x.stack \o u
      /\ y.wrote = x.wrote /\ y.group = x.group
  BY <1>1 DEF Advance, Become, RunType
<1>3. Len(u) \in Nat /\ u \in Seq(Entries) /\ StageLeft(y.at) + Len(u) < StageLeft(x.at)
  BY <1>1, <1>2, PushesFew
<1>4. {x.at, y.at} \cap {"done", "dead", "command"} = {}
  BY <1>1, <1>2, SetupIs, AfterIs
<1>5. Len(y.stack) <= Len(x.stack) + Len(u)
  <2>1. Len(x.stack \o u) = Len(x.stack) + Len(u)
    BY <1>1, <1>3, ConcatProperties
  <2>2. Len(x.stack) \in Nat
    BY <1>1, LenProperties
  <2> QED BY <1>2, <1>3, <2>1, <2>2
<1>6. GroupLeft(y) = GroupLeft(x) /\ WriteLeft(y) = WriteLeft(x)
  BY <1>2, <1>4 DEF GroupLeft, WriteLeft
<1>7. GroupLeft(y) <= GroupLeft(x) + 0 /\ WriteLeft(y) <= WriteLeft(x) + 0
  BY <1>1, <1>6, RunLength
<1>8. StageLeft(y.at) + Len(u) + 0 + 0 < StageLeft(x.at)
  BY <1>1, <1>3, RunLength
<1>9. x.at \notin {"done", "dead"} /\ y.at \notin {"done", "dead"}
  BY <1>4
<1> HIDE DEF x, y, u
<1>10. StepsLeft(y) < StepsLeft(x)
  BY <1>1, <1>3, <1>5, <1>7, <1>8, <1>9, SumNears
<1> QED BY <1>10 DEF x, y

\* To the next stage, or past it when something fails.
LEMMA StepNears ==
  ASSUME IInv, IInv', NEW r \in Runs,
         Begin(r) \/ NotStarted(r) \/ LeaderExits(r) \/ ProbesDone(r) \/ Unmask(r) \/ Export(r)
         \/ Save(r) \/ Fails(r)
  PROVE  StepsLeft(run'[r]) < StepsLeft(run[r])
<1> DEFINE x == run[r]
           y == run'[r]
<1>1. x \in RunType /\ y \in RunType /\ run \in [Runs -> RunType]
  BY DEF IInv, TypeOK
<1>2. ASSUME NEW z, Become(r, z) PROVE y = z
  BY <1>1, <1>2, Becomes
<1>3. CASE Begin(r) \/ NotStarted(r) \/ Unmask(r) \/ Export(r)
  <2>1. /\ y.stack = x.stack /\ y.wrote = x.wrote /\ y.group = x.group
        /\ <<x.at, y.at>> \in {<<"new", "lock">>, <<"start", "unmask">>, <<"unmask", "export">>,
                               <<"export", "save">>}
    <3>1. PICK s : /\ Become(r, [x EXCEPT !.at = s])
                   /\ <<x.at, s>> \in {<<"new", "lock">>, <<"start", "unmask">>,
                                      <<"unmask", "export">>, <<"export", "save">>}
      BY <1>3 DEF Begin, NotStarted, Unmask, Export, At
    <3>2. y = [x EXCEPT !.at = s]
      BY <1>2, <3>1
    <3> HIDE DEF x, y
    <3>3. y.at = s /\ y.stack = x.stack /\ y.wrote = x.wrote /\ y.group = x.group
      BY <1>1, <3>2, StageMoves
    <3> QED BY <3>1, <3>3
  <2>2. x.at \notin {"done", "dead"} /\ y.at \notin {"done", "dead"}
        /\ StageLeft(y.at) < StageLeft(x.at)
    BY <2>1 DEF StageLeft
  <2>3. GroupLeft(y) <= GroupLeft(x)
    BY <2>1 DEF GroupLeft
  <2> QED BY <1>1, <2>1, <2>2, <2>3, StageNears
<1>4. CASE LeaderExits(r)
  <2>1. x.at = "command" /\ y.at = "reap" /\ y.stack = x.stack /\ y.wrote = x.wrote
    <3>1. PICK g : Become(r, [x EXCEPT !.at = "reap", !.group = g])
      BY <1>4 DEF LeaderExits
    <3>2. y = [x EXCEPT !.at = "reap", !.group = g] /\ x.at = "command"
      BY <1>2, <1>4, <3>1 DEF LeaderExits, At
    <3> HIDE DEF x, y
    <3> QED BY <1>1, <3>2 DEF RunType
  <2>2. StageLeft(y.at) < StageLeft(x.at)
    BY <2>1 DEF StageLeft
  <2>3. GroupLeft(y) <= GroupLeft(x)
    BY <2>1 DEF GroupLeft
  <2> QED BY <1>1, <2>1, <2>2, <2>3, StageNears
<1>5. CASE ProbesDone(r)
  <2>1. /\ x.at = "reap" /\ y.at = "unmask" /\ y.group = "none"
        /\ y.stack = x.stack /\ y.wrote = x.wrote
    <3>1. y = [x EXCEPT !.at = "unmask", !.group = "none"] /\ x.at = "reap"
      BY <1>2, <1>5 DEF ProbesDone, At
    <3> HIDE DEF x, y
    <3> QED BY <1>1, <3>1 DEF RunType
  <2>2. StageLeft(y.at) < StageLeft(x.at)
    BY <2>1 DEF StageLeft
  <2>3. GroupLeft(y) <= GroupLeft(x)
    BY <2>1 DEF GroupLeft
  <2> QED BY <1>1, <2>1, <2>2, <2>3, StageNears
<1>6. CASE Fails(r) \/ Save(r)
  <2>1. x.at \in Setup \cup {"unmask", "export", "save"}
    BY <1>6 DEF Fails, SetupFails, LateFails, SaveUnsynced, Save, At
  <2>2. y.at = "cleanup" /\ y.stack = x.stack /\ y.wrote = x.wrote /\ y.group = x.group
    <3>1. ASSUME NEW z \in RunType, NEW res, Return(r, z, res), z.stack = x.stack,
                 z.wrote = x.wrote, z.group = x.group
          PROVE  y.at = "cleanup" /\ y.stack = x.stack /\ y.wrote = x.wrote /\ y.group = x.group
      <4>1. y = [z EXCEPT !.at = "cleanup", !.view = {}, !.res = res]
        BY <1>2, <3>1 DEF Return
      <4> QED BY <3>1, <4>1 DEF RunType
    <3>2. \/ \E res : Return(r, x, res)
          \/ \E res : Return(r, [x EXCEPT !.dirs = {"unmarked"}], res)
      BY <1>6 DEF Fails, SetupFails, LateFails, SaveUnsynced, Save
    <3>3. /\ [x EXCEPT !.dirs = {"unmarked"}] \in RunType
          /\ [x EXCEPT !.dirs = {"unmarked"}].stack = x.stack
          /\ [x EXCEPT !.dirs = {"unmarked"}].wrote = x.wrote
          /\ [x EXCEPT !.dirs = {"unmarked"}].group = x.group
      BY <1>1 DEF RunType
    <3> QED BY <1>1, <3>1, <3>2, <3>3
  <2>3. x.at \notin {"done", "dead", "command"} /\ StageLeft(y.at) < StageLeft(x.at)
    BY <2>1, <2>2, SetupIs DEF StageLeft
  <2>4. GroupLeft(y) <= GroupLeft(x)
    BY <2>2, <2>3 DEF GroupLeft
  <2> QED BY <1>1, <2>2, <2>3, <2>4, StageNears
<1> QED BY <1>3, <1>4, <1>5, <1>6

\* The steps that make something: the lock's entry, the command's group, its change.
LEMMA MakeNears ==
  ASSUME IInv, IInv', NEW r \in Runs, Lock(r) \/ Start(r) \/ Write(r) \/ GroupGone(r)
  PROVE  StepsLeft(run'[r]) < StepsLeft(run[r])
<1> DEFINE x == run[r]
           y == run'[r]
<1>1. x \in RunType /\ y \in RunType /\ run \in [Runs -> RunType]
  BY DEF IInv, TypeOK
<1>2. ASSUME NEW z, Become(r, z) PROVE y = z
  BY <1>1, <1>2, Becomes
<1>3. /\ Len(x.stack) \in Nat /\ GroupLeft(x) \in 0 .. 1 /\ WriteLeft(x) \in 0 .. 1
      /\ Len(y.stack) \in Nat /\ GroupLeft(y) \in 0 .. 1 /\ WriteLeft(y) \in 0 .. 1
      /\ StageLeft(x.at) \in Nat /\ StageLeft(y.at) \in Nat
  BY <1>1, RunLength
<1> SUFFICES ASSUME TRUE
             PROVE  /\ x.at \notin {"done", "dead"} /\ y.at \notin {"done", "dead"}
                    /\ \E e, f, h \in Int :
                         /\ Len(y.stack) <= Len(x.stack) + e
                         /\ GroupLeft(y) <= GroupLeft(x) + f
                         /\ WriteLeft(y) <= WriteLeft(x) + h
                         /\ StageLeft(y.at) + e + f + h < StageLeft(x.at)
  BY <1>1, SumNears
<1>4. CASE Lock(r)
  <2>1. /\ x.at = "lock" /\ y.at = "create" /\ y.stack = <<"lock">>
        /\ y.wrote = x.wrote /\ y.group = x.group
    <3>1. y = [x EXCEPT !.at = After["lock"], !.stack = Pushed("lock", x.opts)]
          /\ x.at = "lock"
      BY <1>2, <1>4 DEF Lock, At
    <3>2. After["lock"] = "create" /\ Pushed("lock", x.opts) = <<"lock">>
      BY SetupIs DEF After, Pushed
    <3> HIDE DEF x, y
    <3> QED BY <1>1, <3>1, <3>2 DEF RunType
  <2>2. Len(y.stack) <= Len(x.stack) + 1
    BY <1>3, <2>1
  <2>3. GroupLeft(y) <= GroupLeft(x) + 0
    BY <2>1 DEF GroupLeft
  <2>4. WriteLeft(y) = WriteLeft(x)
    BY <2>1 DEF WriteLeft
  <2>5. WriteLeft(y) <= WriteLeft(x) + 0
    BY <1>3, <2>4
  <2>6. StageLeft(y.at) + 1 + 0 + 0 < StageLeft(x.at)
    BY <2>1 DEF StageLeft
  <2> QED BY <2>1, <2>2, <2>3, <2>5, <2>6
<1>5. CASE Start(r)
  <2>1. /\ x.at = "start" /\ y.at = "command" /\ y.stack = x.stack /\ y.wrote = x.wrote
    <3>1. y = [x EXCEPT !.at = "command", !.group = "alive"] /\ x.at = "start"
      BY <1>2, <1>5 DEF Start, At
    <3> HIDE DEF x, y
    <3> QED BY <1>1, <3>1 DEF RunType
  <2>2. Len(y.stack) <= Len(x.stack) + 0
    BY <1>3, <2>1
  <2>3. GroupLeft(y) <= GroupLeft(x) + 1
    BY <1>3
  <2>4. WriteLeft(y) = WriteLeft(x)
    BY <2>1 DEF WriteLeft
  <2>5. WriteLeft(y) <= WriteLeft(x) + 0
    BY <1>3, <2>4
  <2>6. StageLeft(y.at) + 0 + 1 + 0 < StageLeft(x.at)
    BY <2>1 DEF StageLeft
  <2> QED BY <2>1, <2>2, <2>3, <2>5, <2>6
<1>6. CASE Write(r) \/ GroupGone(r)
  <2>1. x.at \in {"command", "reap"} /\ (GroupGone(r) => x.at = "reap")
    <3>1. x.group = "alive" /\ (GroupGone(r) => x.at = "reap")
      BY <1>6 DEF Write, GroupGone, At
    <3>2. Places(x)
      BY OfRun DEF RunOK
    <3> QED BY <3>1, <3>2 DEF Places
  <2>2. y.at = x.at /\ y.stack = x.stack
    <3>1. CASE GroupGone(r)
      <4>1. y = [x EXCEPT !.group = "gone"]
        BY <1>2, <3>1 DEF GroupGone
      <4> HIDE DEF x, y
      <4> QED BY <1>1, <4>1, GroupMoves
    <3>2. CASE Write(r)
      <4>1. y = [x EXCEPT !.wrote = TRUE, !.view = @ \cup {r}]
        BY <1>2, <3>2 DEF Write
      <4> HIDE DEF x, y
      <4> QED BY <1>1, <4>1 DEF RunType
    <3> QED BY <1>6, <3>1, <3>2
  <2>3. Len(y.stack) <= Len(x.stack) + 0
    BY <1>3, <2>2
  <2>4. CASE Write(r)
    <3>1. y.group = x.group /\ ~x.wrote /\ y.wrote
      <4>1. y = [x EXCEPT !.wrote = TRUE, !.view = @ \cup {r}] /\ ~x.wrote
        BY <1>2, <2>4 DEF Write
      <4> HIDE DEF x, y
      <4> QED BY <1>1, <4>1 DEF RunType
    <3>2. GroupLeft(y) = GroupLeft(x)
      BY <2>2, <3>1 DEF GroupLeft
    <3>3. WriteLeft(y) = 0 /\ WriteLeft(x) = 1
      BY <3>1 DEF WriteLeft
    <3>4. GroupLeft(y) <= GroupLeft(x) + 0 /\ WriteLeft(y) <= WriteLeft(x) + (-1)
      BY <1>3, <3>2, <3>3
    <3>5. StageLeft(y.at) + 0 + 0 + (-1) < StageLeft(x.at)
      BY <1>3, <2>2
    <3> QED BY <2>1, <2>2, <2>3, <3>4, <3>5
  <2>5. CASE GroupGone(r)
    <3>1. x.group = "alive" /\ y.group = "gone" /\ y.wrote = x.wrote
      BY <1>1, <1>2, <2>5 DEF GroupGone, RunType
    <3>2. GroupLeft(y) = 0 /\ GroupLeft(x) = 1
      BY <2>1, <2>2, <2>5, <3>1 DEF GroupLeft
    <3>3. WriteLeft(y) = WriteLeft(x)
      BY <3>1 DEF WriteLeft
    <3>4. GroupLeft(y) <= GroupLeft(x) + (-1) /\ WriteLeft(y) <= WriteLeft(x) + 0
      BY <1>3, <3>2, <3>3
    <3>5. StageLeft(y.at) + 0 + (-1) + 0 < StageLeft(x.at)
      BY <1>3, <2>2
    <3> QED BY <2>1, <2>2, <2>3, <3>4, <3>5
  <2> QED BY <1>6, <2>4, <2>5
<1> QED BY <1>4, <1>5, <1>6

\* The cleanup takes its entries one after the other, and the run ends.
LEMMA CleanupNears ==
  ASSUME IInv, IInv', NEW r \in Runs, Cleanup(r) \/ End(r) \/ Kill(r)
  PROVE  StepsLeft(run'[r]) < StepsLeft(run[r])
<1> DEFINE x == run[r]
           y == run'[r]
<1>1. /\ x \in RunType /\ y \in RunType /\ run \in [Runs -> RunType]
      /\ x.stack \in Seq(Entries) /\ Len(x.stack) \in Nat
  BY RunLength DEF IInv, TypeOK, RunType
<1>2. CASE Cleanup(r)
  <2>1. x.at = "cleanup" /\ x.stack # <<>>
    BY <1>2 DEF Cleanup, At
  <2>2. /\ y.at = x.at /\ y.stack = SubSeq(x.stack, 1, Len(x.stack) - 1)
        /\ y.wrote = x.wrote /\ y.group = x.group
    <3>1. PICK o : Become(r, [x EXCEPT !.stack = SubSeq(@, 1, Len(@) - 1),
                       !.mounts = o.mounts, !.dirs = o.dirs, !.bad = @ \/ o.bad])
      BY <1>2 DEF Cleanup
    <3> QED BY <1>1, <3>1 DEF Become, RunType
  <2>3. Len(x.stack) \in Nat \ {0}
    BY <1>1, <2>1, EmptySeq, LenProperties
  <2>4. Len(y.stack) = Len(x.stack) - 1
    <3> DEFINE n == Len(x.stack) - 1
    <3>1. n \in Nat /\ n < Len(x.stack) /\ \A i \in 1 .. n : x.stack[i] \in Entries
      BY <1>1, <2>3, ElementOfSeq
    <3>2. Len(SubSeq(x.stack, 1, n)) = IF 1 <= n THEN n - 1 + 1 ELSE 0
      BY <3>1, SubSeqProperties
    <3>3. \A k \in Nat : (IF 1 <= k THEN k - 1 + 1 ELSE 0) = k
      OBVIOUS
    <3> QED BY <2>2, <3>1, <3>2, <3>3
  <2>5. GroupLeft(y) = GroupLeft(x) /\ WriteLeft(y) = WriteLeft(x)
    BY <2>2 DEF GroupLeft, WriteLeft
  <2>6. /\ Len(y.stack) <= Len(x.stack) + (-1) /\ GroupLeft(y) <= GroupLeft(x) + 0
        /\ WriteLeft(y) <= WriteLeft(x) + 0
        /\ StageLeft(y.at) + (-1) + 0 + 0 < StageLeft(x.at)
    BY <1>1, <2>2, <2>4, <2>5, RunLength
  <2>7. x.at \notin {"done", "dead"} /\ y.at \notin {"done", "dead"}
    BY <2>1, <2>2
  <2> HIDE DEF x, y
  <2> QED BY <1>1, <2>6, <2>7, SumNears DEF x, y
<1>3. CASE End(r) \/ Kill(r)
  <2>1. PICK how \in {"done", "dead"}, res \in {"none", "ok", "error"}, bad \in BOOLEAN :
          Gone(r, how, res, bad)
    BY <1>1, <1>3 DEF End, Kill, RunType
  <2>2. PICK z \in RunType : Become(r, z) /\ z.at = how
    BY <2>1, GoneIs
  <2>3. y.at \in {"done", "dead"}
    BY <1>1, <2>2 DEF Become
  <2>4. x.at \notin {"done", "dead"}
    BY <1>3 DEF End, Kill, At
  <2> QED BY <1>1, <2>3, <2>4, EndNears
<1> QED BY <1>2, <1>3

\* A step brings one run nearer to its end and leaves the others where they are.
OneNears == \E r \in Runs :
  /\ StepsLeft(run'[r]) < StepsLeft(run[r])
  /\ \A q \in Runs \ {r} : StepsLeft(run'[q]) = StepsLeft(run[q])
Bounded == \A r \in Runs : StepsLeft(run[r]) \in 0 .. LongestRun

(***************************************************************************)
(* No run turns back or tries again: whatever fails, each of its steps,    *)
(* those of the cleanup included ("each step once"), brings it nearer to   *)
(* its end, which is at most LongestRun steps away.                        *)
(***************************************************************************)
THEOREM RunsAreBounded == Spec => []Bounded /\ [][OneNears]_vars
<1>1. Init => Bounded
  <2> SUFFICES ASSUME Init, NEW r \in Runs PROVE StepsLeft(run[r]) \in 0 .. LongestRun
    BY DEF Bounded
  <2>1. \A o : /\ New(o).at = "new" /\ New(o).stack = <<>> /\ ~New(o).wrote
               /\ New(o).group = "none"
    BY DEF New
  <2>2. /\ run[r].at = "new" /\ run[r].stack = <<>> /\ ~run[r].wrote /\ run[r].group = "none"
    BY <2>1 DEF Init
  <2>3. StageLeft("new") = 27
    BY DEF StageLeft
  <2>4. GroupLeft(run[r]) = 0 /\ WriteLeft(run[r]) = 1
    BY <2>2 DEF GroupLeft, WriteLeft
  <2>5. StepsLeft(run[r]) = 27 + 0 + 0 + 1
    BY <2>2, <2>3, <2>4, EmptyIs DEF StepsLeft
  <2> QED BY <2>5 DEF LongestRun
<1>2. ASSUME IInv, IInv', Next PROVE OneNears
  <2>1. PICK r \in Runs : Acts(r)
    BY <1>2 DEF Next, Acts
  <2>2. StepsLeft(run'[r]) < StepsLeft(run[r])
    BY <1>2, <2>1, AdvanceNears, StepNears, MakeNears, CleanupNears DEF Acts, Step, Command
  <2>3. \A q \in Runs \ {r} : run'[q] = run[q]
    BY <1>2, <2>1, OneActs
  <2> QED BY <2>2, <2>3 DEF OneNears
<1>3. ASSUME IInv, IInv', Bounded, [Next]_vars PROVE Bounded'
  <2>1. CASE UNCHANGED vars
    BY <1>3, <2>1 DEF vars, Bounded
  <2>2. CASE OneNears
    <3>1. \A r \in Runs : StepsLeft(run'[r]) \in Nat
      BY <1>3, RunLength DEF IInv, TypeOK
    <3> QED BY <1>3, <2>2, <3>1 DEF OneNears, Bounded, LongestRun
  <2> QED BY <1>2, <1>3, <2>1, <2>2
<1> QED BY <1>1, <1>2, <1>3, Invariance, PTL DEF Spec
=============================================================================
