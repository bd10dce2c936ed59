------------------------ MODULE ExecGroupScanProofs ------------------------
(***************************************************************************)
(* The theorems about ExecGroupScan: a group that is answered to be gone   *)
(* is gone, for any number of processes, numbers and attempts; and a call  *)
(* always comes to its answer.                                             *)
(*                                                                         *)
(* The invariant says what the reads have established.  As long as no      *)
(* number has been given out since the first of them, a process that they  *)
(* have passed over can only have stopped, so that one of the group that   *)
(* runs is still to be looked at; and a number that names a later process  *)
(* could only be given out when the group was gone.                        *)
(***************************************************************************)
EXTENDS ExecGroupScan, FiniteSetTheorems, TLAPS

ProcType == [is : States, group : Pids, start : Nat, ours : BOOLEAN, took : BOOLEAN]

\* A process that must not be missed.
Writes(x) == x.ours /\ x.is \in {"one", "many", "half"} /\ ~x.took
Member(x) == x.ours /\ x.is # "none"

Kin == \A p \in Pids : Member(proc[p]) => proc[p].group = Group
Led == OtherLeader => \A p \in Pids : ~Member(proc[p])

\* Where a writer may be while nothing new has come.
Ahead(p) == \/ p \in scan.left \cup scan.listed
            \/ scan.at = "tasks" /\ p = scan.cur /\ proc[p].is = "half"

ScanInv ==
  scan.at \in {"list", "stat", "tasks"} =>
    /\ scan.before <= last
    /\ scan.at # "list" => scan.left = {}
    /\ Quiet => \A p \in Pids : Writes(proc[p]) => Ahead(p)

Gone == scan.at = "done" /\ ~scan.alive => \A p \in Pids : ~Writes(proc[p])

IInv == TypeOK /\ Start <= last /\ Kin /\ Led /\ ScanInv /\ Gone
-----------------------------------------------------------------------------
LEMMA InitInv == Init => IInv
<1> SUFFICES ASSUME Init PROVE IInv
  OBVIOUS
<1>1. PICK other \in Pids \ {Group} :
        proc = [p \in Pids |->
                  Proc(IF p \in {Group, other} THEN "one" ELSE "none", p, p = Group)]
  BY DEF Init
<1>2. ASSUME NEW p \in Pids
      PROVE  /\ proc[p] \in ProcType /\ proc[p].start = Start
             /\ proc[p].ours => proc[p].group = Group
  BY <1>1, ScanAssumption DEF Proc, ProcType, States
<1>3. /\ scan.at = "idle" /\ scan \in
           [at : {"idle", "leader", "before", "list", "stat", "tasks", "done"},
            try : 0 .. Scans - 1, before : Nat, left : SUBSET Pids,
            listed : SUBSET Pids, cur : Pids, alive : BOOLEAN]
      /\ last = Start
  <2>1. 0 \in 0 .. Scans - 1
    BY ScanAssumption
  <2>2. scan = [Answered EXCEPT !.at = "idle"] /\ last = Start
    BY DEF Init
  <2> QED BY <2>1, <2>2, ScanAssumption DEF Answered
<1>4. TypeOK
  BY <1>1, <1>2, <1>3, ScanAssumption DEF TypeOK, ProcType
<1> QED BY <1>2, <1>3, <1>4, ScanAssumption DEF IInv, Kin, Led, OtherLeader, Member,
        ScanInv, Gone

\* The processes change: one of them, or a new one.
LEMMA OneChanges ==
  ASSUME IInv, NEW n \in Pids, NEW x \in ProcType, proc' = [proc EXCEPT ![n] = x],
         last' \in Nat, last <= last', UNCHANGED scan,
         Member(x) => x.group = Group /\ \E p \in Pids : Member(proc[p]),
         n = Group /\ x.is # "none" =>
           \/ Exists(Group) /\ x.start = proc[Group].start
           \/ \A p \in Pids : ~Member(proc[p]),
         Writes(x) => \E p \in Pids : Writes(proc[p]),
         last' = last /\ Writes(x) =>
           Writes(proc[n]) /\ (proc[n].is = "half" => x.is = "half")
  PROVE  IInv'
<1>1. proc' \in [Pids -> ProcType] /\ proc \in [Pids -> ProcType]
  BY DEF IInv, TypeOK, ProcType
<1>2. proc'[n] = x /\ \A p \in Pids \ {n} : proc'[p] = proc[p]
  BY <1>1
<1>3. TypeOK'
  BY <1>1 DEF IInv, TypeOK, ProcType
<1>4. (Start <= last)'
  BY ScanAssumption DEF IInv, TypeOK
<1>5. Kin'
  BY <1>2 DEF IInv, Kin
<1>6. Led'
  <2> SUFFICES ASSUME OtherLeader' PROVE \A p \in Pids : ~Member(proc'[p])
    BY DEF Led
  <2>1. \A p \in Pids : ~Member(proc[p])
    <3>1. CASE n # Group
      BY <1>2, <3>1, ScanAssumption DEF OtherLeader, Exists, IInv, Led
    <3>2. CASE n = Group
      BY <1>2, <3>2 DEF OtherLeader, Exists, IInv, Led
    <3> QED BY <3>1, <3>2
  <2> QED BY <1>2, <2>1
<1>7. ScanInv'
  <2> SUFFICES ASSUME scan.at \in {"list", "stat", "tasks"}
               PROVE  /\ scan.before <= last'
                      /\ scan.at # "list" => scan.left = {}
                      /\ Quiet' => \A p \in Pids : Writes(proc'[p]) => Ahead(p)'
    BY DEF ScanInv
  <2>1. scan.before \in Nat /\ last \in Nat
    BY DEF IInv, TypeOK
  <2>2. scan.before <= last /\ (scan.at # "list" => scan.left = {})
    BY DEF IInv, ScanInv
  <2>3. ASSUME Quiet', NEW p \in Pids, Writes(proc'[p]) PROVE Ahead(p)'
    <3>1. last' = last /\ Quiet
      BY <2>1, <2>2, <2>3 DEF Quiet
    <3>2. Writes(proc[p]) /\ (proc[p].is = "half" => proc'[p].is = "half")
      BY <1>2, <2>3, <3>1
    <3>3. Ahead(p)
      BY <3>1, <3>2 DEF IInv, ScanInv
    <3> QED BY <3>2, <3>3 DEF Ahead
  <2> QED BY <2>1, <2>2, <2>3
<1>8. Gone'
  BY <1>2 DEF IInv, Gone
<1> QED BY <1>3, <1>4, <1>5, <1>6, <1>7, <1>8 DEF IInv

LEMMA ProcessKeeps == ASSUME IInv, NEW p \in Pids, Process(p) PROVE IInv'
<1>1. proc \in [Pids -> ProcType] /\ last \in Nat /\ Start <= last
  BY DEF IInv, TypeOK, ProcType
<1>2. proc[p] \in ProcType /\ (Member(proc[p]) => proc[p].group = Group)
  BY <1>1 DEF IInv, Kin
<1>3. ASSUME NEW from \in SUBSET {"one", "many", "half"}, NEW to \in {"one", "half", "zombie"},
             Turns(p, from, to), to # "zombie" => from = {"many"}
      PROVE  IInv'
  <2> DEFINE x == [proc[p] EXCEPT !.is = to]
  <2>1. /\ proc' = [proc EXCEPT ![p] = x] /\ UNCHANGED <<last, scan>>
        /\ proc[p].is \in from
    BY <1>3 DEF Turns
  <2>2. /\ x \in ProcType /\ x.is = to /\ x.group = proc[p].group
        /\ x.start = proc[p].start /\ x.ours = proc[p].ours /\ x.took = proc[p].took
    BY <1>2 DEF ProcType, States
  <2> HIDE DEF x
  <2>3. Member(x) => Member(proc[p])
    BY <2>1, <2>2 DEF Member
  <2>4. Writes(x) => Writes(proc[p]) /\ proc[p].is # "half"
    BY <1>3, <2>1, <2>2 DEF Writes
  <2>5. Exists(p)
    BY <2>1 DEF Exists
  <2>6. /\ last' \in Nat /\ last <= last'
        /\ p = Group => Exists(Group) /\ x.start = proc[Group].start
        /\ Member(x) => x.group = Group /\ \E q \in Pids : Member(proc[q])
        /\ Writes(x) => \E q \in Pids : Writes(proc[q])
    BY <1>1, <1>2, <2>1, <2>2, <2>3, <2>4, <2>5
  <2> QED BY <2>1, <2>2, <2>4, <2>6, OneChanges
<1>4. CASE Exit(p) \/ ThreadsEnd(p) \/ FirstEnds(p)
  BY <1>3, <1>4 DEF Exit, ThreadsEnd, FirstEnds
<1>5. CASE Leave(p)
  <2> DEFINE x == [proc[p] EXCEPT !.group = p, !.ours = FALSE]
  <2>1. proc' = [proc EXCEPT ![p] = x] /\ UNCHANGED <<last, scan>> /\ Runs(p)
    BY <1>5 DEF Leave
  <2>2. /\ x \in ProcType /\ x.start = proc[p].start /\ ~x.ours
    BY <1>2 DEF ProcType
  <2> HIDE DEF x
  <2>3. ~Member(x) /\ ~Writes(x) /\ Exists(p)
    BY <2>1, <2>2 DEF Member, Writes, Exists, Runs
  <2>4. /\ last' \in Nat /\ last <= last'
        /\ p = Group => Exists(Group) /\ x.start = proc[Group].start
        /\ Member(x) => x.group = Group /\ \E q \in Pids : Member(proc[q])
        /\ Writes(x) => \E q \in Pids : Writes(proc[q])
    BY <1>1, <2>1, <2>2, <2>3
  <2> QED BY <2>1, <2>2, <2>3, <2>4, OneChanges
<1>6. CASE NewThread(p)
  <2> DEFINE x == [proc[p] EXCEPT !.is = IF @ = "half" THEN @ ELSE "many"]
  <2>1. /\ proc' = [proc EXCEPT ![p] = x] /\ last' = last + 1 /\ UNCHANGED scan
        /\ Runs(p)
    BY <1>6 DEF NewThread
  <2>2. /\ x \in ProcType /\ x.is \in {"half", "many"} /\ x.group = proc[p].group
        /\ x.start = proc[p].start /\ x.ours = proc[p].ours /\ x.took = proc[p].took
    BY <1>2 DEF ProcType, States
  <2> HIDE DEF x
  <2>3. (Member(x) => Member(proc[p])) /\ (Writes(x) => Writes(proc[p])) /\ Exists(p)
    BY <2>1, <2>2 DEF Member, Writes, Runs, Exists
  <2>4. last' \in Nat /\ last <= last' /\ last' # last
    BY <1>1, <2>1
  <2>5. /\ last' \in Nat /\ last <= last'
        /\ p = Group => Exists(Group) /\ x.start = proc[Group].start
        /\ Member(x) => x.group = Group /\ \E q \in Pids : Member(proc[q])
        /\ Writes(x) => \E q \in Pids : Writes(proc[q])
    BY <1>2, <2>1, <2>2, <2>3, <2>4
  <2> QED BY <2>1, <2>2, <2>4, <2>5, OneChanges
<1>7. CASE Reap(p)
  <2> DEFINE x == Proc("none", p, FALSE)
  <2>1. proc' = [proc EXCEPT ![p] = x] /\ UNCHANGED <<last, scan>>
    BY <1>7 DEF Reap
  <2>2. x \in ProcType /\ x.is = "none" /\ ~x.ours
    BY ScanAssumption DEF Proc, ProcType, States
  <2> HIDE DEF x
  <2>3. ~Member(x) /\ ~Writes(x)
    BY <2>2 DEF Member, Writes
  <2>4. last' \in Nat /\ last <= last'
    BY <1>1, <2>1
  <2> QED BY <2>1, <2>2, <2>3, <2>4, OneChanges
<1>8. CASE Exec(p)
  <2> DEFINE x == [proc[p] EXCEPT !.is = "one", !.took = TRUE]
  <2>1. proc' = [proc EXCEPT ![p] = x] /\ UNCHANGED <<last, scan>> /\ proc[p].is = "half"
    BY <1>8 DEF Exec
  <2>2. /\ x \in ProcType /\ x.group = proc[p].group /\ x.start = proc[p].start
        /\ x.ours = proc[p].ours /\ x.took = TRUE
    BY <1>2 DEF ProcType, States
  <2> HIDE DEF x
  <2>3. (Member(x) => Member(proc[p])) /\ ~Writes(x) /\ Exists(p)
    BY <2>1, <2>2 DEF Member, Writes, Exists
  <2>4. /\ last' \in Nat /\ last <= last'
        /\ p = Group => Exists(Group) /\ x.start = proc[Group].start
        /\ Member(x) => x.group = Group /\ \E q \in Pids : Member(proc[q])
        /\ Writes(x) => \E q \in Pids : Writes(proc[q])
    BY <1>1, <1>2, <2>1, <2>2, <2>3
  <2> QED BY <2>1, <2>2, <2>3, <2>4, OneChanges
<1>9. CASE \E n \in Pids : Fork(p, n)
  <2>1. PICK n \in Pids : Fork(p, n)
    BY <1>9
  <2> DEFINE x == [proc[p] EXCEPT !.is = "one", !.start = last + 1]
  <2>2. /\ proc' = [proc EXCEPT ![n] = x] /\ last' = last + 1 /\ UNCHANGED scan
        /\ Runs(p) /\ Free(n)
    BY <2>1 DEF Fork
  <2>3. /\ x \in ProcType /\ x.is = "one" /\ x.group = proc[p].group
        /\ x.ours = proc[p].ours /\ x.took = proc[p].took
    <3>1. last + 1 \in Nat
      BY <1>1
    <3> QED BY <1>2, <3>1 DEF ProcType, States
  <2> HIDE DEF x
  <2>4. (Member(x) => Member(proc[p])) /\ (Writes(x) => Writes(proc[p]))
    BY <2>2, <2>3 DEF Member, Writes, Runs
  <2>5. last' \in Nat /\ last <= last' /\ last' # last
    BY <1>1, <2>2
  <2>6. ASSUME n = Group PROVE \A q \in Pids : ~Member(proc[q])
    BY <2>2, <2>6 DEF Free, Exists, IInv, Kin, Member
  <2> QED BY <1>2, <2>2, <2>3, <2>4, <2>5, <2>6, OneChanges
<1> QED BY <1>4, <1>5, <1>6, <1>7, <1>8, <1>9 DEF Process
-----------------------------------------------------------------------------
CallType == [at : {"idle", "leader", "before", "list", "stat", "tasks", "done"},
             try : 0 .. Scans - 1, before : Nat, left : SUBSET Pids,
             listed : SUBSET Pids, cur : Pids, alive : BOOLEAN]

\* The call takes a step.
LEMMA CallChanges ==
  ASSUME IInv, NEW x \in CallType, Scanning(x), ScanInv', Gone' PROVE IInv'
<1> QED BY DEF Scanning, CallType, IInv, TypeOK, Kin, Led, OtherLeader, Exists, Member

LEMMA AnswerKeeps ==
  ASSUME IInv, NEW b \in BOOLEAN, Answer(b), b \/ \A p \in Pids : ~Writes(proc[p])
  PROVE  IInv'
<1> DEFINE x == [Answered EXCEPT !.alive = b]
<1>1. x \in CallType /\ x.at = "done" /\ x.alive = b
  BY ScanAssumption DEF Answered, CallType
<1>2. Scanning(x)
  BY DEF Answer
<1> HIDE DEF x
<1>3. ScanInv' /\ Gone'
  BY <1>1, <1>2 DEF Scanning, ScanInv, Gone
<1> QED BY <1>1, <1>2, <1>3, CallChanges

LEMMA CallKeeps == ASSUME IInv, Call PROVE IInv'
<1>1. scan \in CallType /\ last \in Nat
  BY DEF IInv, TypeOK, CallType
<1>2. \A p \in Pids : Writes(proc[p]) => Member(proc[p])
  BY DEF Writes, Member
<1>3. CASE Signal
  <2>1. CASE \E p \in Pids : Exists(p) /\ proc[p].group = Group
    <3> DEFINE x == [scan EXCEPT !.at = "leader"]
    <3>1. x \in CallType /\ x.at = "leader" /\ Scanning(x)
      BY <1>1, <1>3, <2>1 DEF CallType, Signal
    <3> HIDE DEF x
    <3> QED BY <3>1, CallChanges DEF Scanning, ScanInv, Gone
  <2>2. CASE ~\E p \in Pids : Exists(p) /\ proc[p].group = Group
    <3>1. \A p \in Pids : ~Member(proc[p])
      BY <2>2 DEF IInv, Kin, Member, Exists
    <3> QED BY <1>2, <1>3, <2>2, <3>1, AnswerKeeps DEF Signal
  <2> QED BY <2>1, <2>2
<1>4. CASE Leader
  <2>1. CASE OtherLeader
    <3>1. \A p \in Pids : ~Member(proc[p])
      BY <2>1 DEF IInv, Led
    <3> QED BY <1>2, <1>4, <2>1, <3>1, AnswerKeeps DEF Leader
  <2>2. CASE ~OtherLeader
    <3> DEFINE x == [scan EXCEPT !.at = "before"]
    <3>1. x \in CallType /\ x.at = "before" /\ Scanning(x)
      BY <1>1, <1>4, <2>2 DEF CallType, Leader
    <3> HIDE DEF x
    <3> QED BY <3>1, CallChanges DEF Scanning, ScanInv, Gone
  <2> QED BY <2>1, <2>2
<1>5. CASE Before
  <2> DEFINE x == [scan EXCEPT !.at = "list", !.before = last, !.left = Pids, !.listed = {}]
  <2>1. /\ x \in CallType /\ x.at = "list" /\ x.before = last /\ x.left = Pids
        /\ Scanning(x)
    BY <1>1, <1>5 DEF CallType, Before
  <2> HIDE DEF x
  <2>2. ScanInv' /\ Gone'
    BY <1>1, <2>1 DEF Scanning, ScanInv, Gone, Ahead
  <2> QED BY <2>1, <2>2, CallChanges
<1>6. CASE List
  <2>0. scan.at = "list" /\ scan.before <= last
        /\ (Quiet => \A q \in Pids : Writes(proc[q]) => q \in scan.left \cup scan.listed)
    BY <1>6 DEF List, IInv, ScanInv, Ahead
  <2>1. ASSUME NEW p \in scan.left,
               Scanning([scan EXCEPT !.left = @ \ {p},
                           !.listed = IF Exists(p) THEN @ \cup {p} ELSE @])
        PROVE  IInv'
    <3> DEFINE x == [scan EXCEPT !.left = @ \ {p},
                       !.listed = IF Exists(p) THEN @ \cup {p} ELSE @]
    <3>1. p \in Pids
      BY <1>1 DEF CallType
    <3>2. /\ x \in CallType /\ x.at = "list" /\ x.before = scan.before /\ Scanning(x)
          /\ x.left = scan.left \ {p}
          /\ x.listed = IF Exists(p) THEN scan.listed \cup {p} ELSE scan.listed
      BY <1>1, <2>0, <2>1, <3>1 DEF CallType
    <3> HIDE DEF x
    <3>3. Writes(proc[p]) => Exists(p)
      BY DEF Writes, Exists
    <3>4. ScanInv' /\ Gone'
      BY <2>0, <3>2, <3>3 DEF Scanning, ScanInv, Gone, Ahead, Quiet
    <3> QED BY <3>2, <3>4, CallChanges
  <2>2. ASSUME scan.left = {}, Scanning([scan EXCEPT !.at = "stat"]) PROVE IInv'
    <3> DEFINE x == [scan EXCEPT !.at = "stat"]
    <3>1. /\ x \in CallType /\ x.at = "stat" /\ x.before = scan.before /\ Scanning(x)
          /\ x.left = {} /\ x.listed = scan.listed
      BY <1>1, <2>2 DEF CallType
    <3> HIDE DEF x
    <3>2. ScanInv' /\ Gone'
      BY <2>0, <2>2, <3>1 DEF Scanning, ScanInv, Gone, Ahead, Quiet
    <3> QED BY <3>1, <3>2, CallChanges
  <2> QED BY <1>6, <2>1, <2>2 DEF List
<1>7. ASSUME scan.at \in {"stat", "tasks"}
      PROVE  /\ scan.before <= last /\ scan.left = {}
             /\ Quiet => \A q \in Pids : Writes(proc[q]) => Ahead(q)
  BY <1>7 DEF IInv, ScanInv
<1>8. CASE Stat
  <2>1. PICK p \in scan.listed :
          IF Exists(p) /\ proc[p].group = Group
          THEN IF proc[p].is \in {"one", "many"}
               THEN Answer(TRUE)
               ELSE Scanning([scan EXCEPT !.at = "tasks", !.listed = @ \ {p}, !.cur = p])
          ELSE Scanning([scan EXCEPT !.listed = @ \ {p}])
    BY <1>8 DEF Stat
  <2>2. /\ scan.at = "stat" /\ p \in Pids
        /\ Quiet => \A q \in Pids : Writes(proc[q]) => q \in scan.listed
    BY <1>1, <1>7, <1>8 DEF Stat, CallType, Ahead
  <2>3. CASE Answer(TRUE)
    BY <2>3, AnswerKeeps
  <2>4. CASE /\ Scanning([scan EXCEPT !.at = "tasks", !.listed = @ \ {p}, !.cur = p])
             /\ proc[p].is \notin {"one", "many"}
    <3> DEFINE x == [scan EXCEPT !.at = "tasks", !.listed = @ \ {p}, !.cur = p]
    <3>1. /\ x \in CallType /\ x.at = "tasks" /\ x.before = scan.before /\ Scanning(x)
          /\ x.left = scan.left /\ x.listed = scan.listed \ {p} /\ x.cur = p
      BY <1>1, <2>2, <2>4 DEF CallType
    <3> HIDE DEF x
    <3>2. Writes(proc[p]) => proc[p].is = "half"
      BY <2>4 DEF Writes
    <3>3. ScanInv' /\ Gone'
      BY <1>7, <2>2, <3>1, <3>2 DEF Scanning, ScanInv, Gone, Ahead, Quiet
    <3> QED BY <3>1, <3>3, CallChanges
  <2>5. CASE /\ Scanning([scan EXCEPT !.listed = @ \ {p}])
             /\ ~(Exists(p) /\ proc[p].group = Group)
    <3> DEFINE x == [scan EXCEPT !.listed = @ \ {p}]
    <3>1. /\ x \in CallType /\ x.at = "stat" /\ x.before = scan.before /\ Scanning(x)
          /\ x.left = scan.left /\ x.listed = scan.listed \ {p}
      BY <1>1, <2>2, <2>5 DEF CallType
    <3> HIDE DEF x
    <3>2. ~Writes(proc[p])
      BY <2>2, <2>5 DEF Writes, Exists, IInv, Kin, Member
    <3>3. ScanInv' /\ Gone'
      BY <1>7, <2>2, <3>1, <3>2 DEF Scanning, ScanInv, Gone, Ahead, Quiet
    <3> QED BY <3>1, <3>3, CallChanges
  <2> QED BY <2>1, <2>3, <2>4, <2>5
<1>9. CASE Tasks
  <2>1. CASE proc[scan.cur].is \in {"many", "half"}
    BY <1>9, <2>1, AnswerKeeps DEF Tasks
  <2>2. CASE proc[scan.cur].is \notin {"many", "half"}
    <3> DEFINE x == [scan EXCEPT !.at = "stat", !.cur = Group]
    <3>1. /\ x \in CallType /\ x.at = "stat" /\ x.before = scan.before /\ Scanning(x)
          /\ x.left = scan.left /\ x.listed = scan.listed
      BY <1>1, <1>9, <2>2, ScanAssumption DEF CallType, Tasks
    <3> HIDE DEF x
    <3>2. scan.at = "tasks"
      BY <1>9 DEF Tasks
    <3>3. ScanInv' /\ Gone'
      BY <1>7, <2>2, <3>1, <3>2 DEF Scanning, ScanInv, Gone, Ahead, Quiet
    <3> QED BY <3>1, <3>3, CallChanges
  <2> QED BY <2>1, <2>2
<1>10. CASE After
  <2>1. /\ scan.at = "stat" /\ scan.left = {} /\ scan.listed = {}
        /\ Quiet => \A q \in Pids : ~Writes(proc[q])
    BY <1>7, <1>10 DEF After, Ahead
  <2>2. CASE Quiet /\ Answer(FALSE)
    BY <2>1, <2>2, AnswerKeeps
  <2>3. CASE /\ scan.try + 1 < Scans
             /\ Scanning([scan EXCEPT !.at = "leader", !.try = @ + 1])
    <3> DEFINE x == [scan EXCEPT !.at = "leader", !.try = @ + 1]
    <3>1. scan.try + 1 \in 0 .. Scans - 1
      BY <1>1, <2>3, ScanAssumption DEF CallType
    <3>2. x \in CallType /\ x.at = "leader" /\ Scanning(x)
      BY <1>1, <2>3, <3>1 DEF CallType
    <3> HIDE DEF x
    <3> QED BY <3>2, CallChanges DEF Scanning, ScanInv, Gone
  <2>4. CASE Answer(TRUE)
    BY <2>4, AnswerKeeps
  <2> QED BY <1>10, <2>2, <2>3, <2>4 DEF After
<1>11. CASE Unreadable
  BY <1>11, AnswerKeeps DEF Unreadable
<1> QED BY <1>3, <1>4, <1>5, <1>6, <1>8, <1>9, <1>10, <1>11 DEF Call
-----------------------------------------------------------------------------
\* The invariant holds of every state.
THEOREM Invariance == Spec => []IInv
<1>1. ASSUME IInv, [Next]_vars PROVE IInv'
  <2>1. CASE UNCHANGED vars
    BY <1>1, <2>1 DEF vars, IInv, TypeOK, Kin, Led, OtherLeader, Exists, Member, ScanInv,
       Gone, Quiet, Ahead, Writes
  <2> QED BY <1>1, <2>1, CallKeeps, ProcessKeeps DEF Next
<1> QED BY <1>1, InitInv, PTL DEF Spec

\* The processes and the call keep their types (executionGroupAlive).
THEOREM TypeCorrect == Spec => []TypeOK
<1>1. IInv => TypeOK
  BY DEF IInv
<1> QED BY <1>1, Invariance, PTL

(***************************************************************************)
(* A group that executionGroupAlive reports gone has no writer left, then  *)
(* or ever after, though /proc was read one process at a time; those apart *)
(* that a thread has taken over by executing a program.                    *)
(***************************************************************************)
THEOREM MissesNoWriter == Spec => []NoWriterMissed
<1>1. IInv => NoWriterMissed
  BY DEF IInv, Gone, Writes, Runs, NoWriterMissed
<1> QED BY <1>1, Invariance, PTL
-----------------------------------------------------------------------------
(***************************************************************************)
(* How long a call may take.  StepsLeft bounds the reads it still makes:   *)
(* those of the attempt at hand, where a process costs a directory entry,  *)
(* its stat and its tasks, and those of the attempts left after it.        *)
(***************************************************************************)
Round     == 3 * Cardinality(Pids) + 4
Rounds(n) == n * Round
ReadsLeft ==
  IF scan.at \in {"idle", "leader", "before"}
  THEN Round + IF scan.at = "idle" THEN 1 ELSE IF scan.at = "leader" THEN 0 ELSE -1
  ELSE 2 * Cardinality(scan.listed)
       + IF scan.at = "list" THEN 3 * Cardinality(scan.left) + 2
         ELSE IF scan.at = "tasks" THEN 2 ELSE 1
StepsLeft ==
  IF scan.at = "done" THEN 0 ELSE Rounds(Scans - 1 - scan.try) + ReadsLeft

\* A call takes no more than MaxSteps reads, each of which brings it nearer to
\* its answer, and nothing the processes do sends it back.
MaxSteps == Rounds(Scans) + 1
Bounded  == StepsLeft \in 0 .. MaxSteps
Nears    == /\ Call => StepsLeft' < StepsLeft
            /\ (\E p \in Pids : Process(p)) => StepsLeft' = StepsLeft

LEMMA RoundsAre ==
  ASSUME IsFiniteSet(Pids)
  PROVE  /\ Cardinality(Pids) \in Nat /\ Round \in Nat /\ Round >= 4
         /\ \A n \in Nat : Rounds(n) \in Nat
         /\ \A n \in Nat : Rounds(n + 1) = Rounds(n) + Round
<1>1. Cardinality(Pids) \in Nat
  BY FS_CardinalityType
<1>2. Round \in Nat /\ Round >= 4
  BY <1>1 DEF Round
<1>3. ASSUME NEW n \in Nat PROVE Rounds(n) \in Nat /\ Rounds(n + 1) = Rounds(n) + Round
  <2> DEFINE R == Round
  <2>1. R \in Nat
    BY <1>2
  <2> HIDE DEF R
  <2>2. n * R \in Nat /\ (n + 1) * R = n * R + R
    BY <2>1
  <2> QED BY <2>2 DEF Rounds, R
<1> QED BY <1>1, <1>2, <1>3

\* The sets a scan goes through are no larger than the set of all numbers.
LEMMA Sizes ==
  ASSUME IsFiniteSet(Pids), NEW S \in SUBSET Pids
  PROVE  /\ IsFiniteSet(S) /\ Cardinality(S) \in Nat
         /\ \A p \in S : Cardinality(S \ {p}) = Cardinality(S) - 1
         /\ \A p \in Pids : /\ Cardinality(S \cup {p}) \in Nat
                            /\ Cardinality(S \cup {p}) <= Cardinality(S) + 1
<1>1. IsFiniteSet(S) /\ Cardinality(S) \in Nat
  BY FS_Subset, FS_CardinalityType
<1>2. ASSUME NEW p \in S PROVE Cardinality(S \ {p}) = Cardinality(S) - 1
  BY <1>1, FS_RemoveElement
<1>3. ASSUME NEW p \in Pids
      PROVE  /\ Cardinality(S \cup {p}) \in Nat
             /\ Cardinality(S \cup {p}) <= Cardinality(S) + 1
  <2>1. Cardinality(S \cup {p}) = IF p \in S THEN Cardinality(S) ELSE Cardinality(S) + 1
    BY <1>1, FS_AddElement
  <2> QED BY <1>1, <2>1
<1> QED BY <1>1, <1>2, <1>3

\* What is left is a number, and none when the call is answered.
LEMMA StepsAre ==
  ASSUME TypeOK, IsFiniteSet(Pids)
  PROVE  /\ ReadsLeft \in Nat \ {0}
         /\ Rounds(Scans - 1 - scan.try) \in Nat
         /\ StepsLeft \in Nat
         /\ scan.at # "done" => StepsLeft > 0
<1>1. /\ scan.at \in {"idle", "leader", "before", "list", "stat", "tasks", "done"}
      /\ scan.try \in 0 .. Scans - 1
      /\ Cardinality(scan.left) \in Nat /\ Cardinality(scan.listed) \in Nat
  BY Sizes DEF TypeOK
<1>2. Rounds(Scans - 1 - scan.try) \in Nat
  <2>1. Scans - 1 - scan.try \in Nat
    BY <1>1, ScanAssumption
  <2> QED BY <2>1, RoundsAre
<1>3. Round \in Nat /\ Round >= 4
  BY RoundsAre
<1>4. ReadsLeft \in Nat \ {0}
  BY <1>1, <1>3 DEF ReadsLeft
<1> QED BY <1>2, <1>4 DEF StepsLeft

\* Within an attempt every read is one less to make.
LEMMA ReadNears ==
  ASSUME TypeOK, TypeOK', IsFiniteSet(Pids), scan'.try = scan.try,
         scan.at # "done", scan'.at # "done", ReadsLeft' < ReadsLeft
  PROVE  StepsLeft' < StepsLeft
<1>1. ReadsLeft' \in Int
  <2>1. Cardinality(scan'.left) \in Nat /\ Cardinality(scan'.listed) \in Nat
    BY Sizes DEF TypeOK
  <2> QED BY <2>1, RoundsAre DEF ReadsLeft
<1> QED BY <1>1, StepsAre DEF StepsLeft

\* Every read of a call brings its answer nearer.
LEMMA CallNears ==
  ASSUME TypeOK, TypeOK', IsFiniteSet(Pids), Call PROVE StepsLeft' < StepsLeft
<1>1. /\ scan.try \in 0 .. Scans - 1
      /\ scan.left \in SUBSET Pids /\ scan.listed \in SUBSET Pids
      /\ Cardinality(scan.left) \in Nat /\ Cardinality(scan.listed) \in Nat
  BY Sizes DEF TypeOK
<1>2. Round \in Nat /\ Round = 3 * Cardinality(Pids) + 4 /\ Cardinality(Pids) \in Nat
  BY RoundsAre DEF Round
<1>3. ASSUME NEW b \in BOOLEAN, Answer(b), scan.at # "done" PROVE StepsLeft' < StepsLeft
  <2>1. scan'.at = "done"
    BY <1>3 DEF Answer, Scanning, Answered
  <2> QED BY <1>3, <2>1, StepsAre DEF StepsLeft
<1>4. CASE Signal
  <2>1. CASE Scanning([scan EXCEPT !.at = "leader"])
    <3>1. scan'.at = "leader" /\ scan'.try = scan.try /\ scan.at = "idle"
      BY <1>4, <2>1 DEF Signal, Scanning, TypeOK
    <3>2. ReadsLeft' < ReadsLeft
      BY <1>2, <3>1 DEF ReadsLeft
    <3> QED BY <3>1, <3>2, ReadNears
  <2> QED BY <1>3, <1>4, <2>1 DEF Signal
<1>5. CASE Leader
  <2>1. CASE Scanning([scan EXCEPT !.at = "before"])
    <3>1. scan'.at = "before" /\ scan'.try = scan.try /\ scan.at = "leader"
      BY <1>5, <2>1 DEF Leader, Scanning, TypeOK
    <3>2. ReadsLeft' < ReadsLeft
      BY <1>2, <3>1 DEF ReadsLeft
    <3> QED BY <3>1, <3>2, ReadNears
  <2> QED BY <1>3, <1>5, <2>1 DEF Leader
<1>6. CASE Before
  <2>1. /\ scan.at = "before" /\ scan'.at = "list" /\ scan'.try = scan.try
        /\ scan'.left = Pids /\ scan'.listed = {}
    BY <1>6 DEF Before, Scanning, TypeOK
  <2>2. Cardinality({}) = 0
    BY FS_EmptySet
  <2>3. ReadsLeft' < ReadsLeft
    BY <1>2, <2>1, <2>2 DEF ReadsLeft
  <2> QED BY <2>1, <2>3, ReadNears
<1>7. CASE List
  <2>1. CASE scan.left = {} /\ Scanning([scan EXCEPT !.at = "stat"])
    <3>1. /\ scan.at = "list" /\ scan'.at = "stat" /\ scan'.try = scan.try
          /\ scan'.listed = scan.listed
      BY <1>7, <2>1 DEF List, Scanning, TypeOK
    <3>2. ReadsLeft' < ReadsLeft
      BY <1>1, <3>1 DEF ReadsLeft
    <3> QED BY <3>1, <3>2, ReadNears
  <2>2. ASSUME NEW p \in scan.left,
               Scanning([scan EXCEPT !.left = @ \ {p},
                           !.listed = IF Exists(p) THEN @ \cup {p} ELSE @])
        PROVE  StepsLeft' < StepsLeft
    <3>1. /\ scan.at = "list" /\ scan'.at = "list" /\ scan'.try = scan.try
          /\ scan'.left = scan.left \ {p}
          /\ scan'.listed \in {scan.listed, scan.listed \cup {p}}
      BY <1>7, <2>2 DEF List, Scanning, TypeOK
    <3>2. /\ Cardinality(scan'.left) = Cardinality(scan.left) - 1
          /\ Cardinality(scan'.listed) \in Nat
          /\ Cardinality(scan'.listed) <= Cardinality(scan.listed) + 1
      BY <1>1, <3>1, Sizes
    <3>3. ReadsLeft' < ReadsLeft
      BY <1>1, <3>1, <3>2 DEF ReadsLeft
    <3> QED BY <3>1, <3>3, ReadNears
  <2> QED BY <1>7, <2>1, <2>2 DEF List
<1>8. CASE Stat
  <2>1. PICK p \in scan.listed :
          \/ Answer(TRUE)
          \/ Scanning([scan EXCEPT !.at = "tasks", !.listed = @ \ {p}, !.cur = p])
          \/ Scanning([scan EXCEPT !.listed = @ \ {p}])
    BY <1>8 DEF Stat
  <2>2. CASE ~Answer(TRUE)
    <3>1. /\ scan.at = "stat" /\ scan'.at \in {"stat", "tasks"} /\ scan'.try = scan.try
          /\ scan'.listed = scan.listed \ {p}
      BY <1>8, <2>1, <2>2 DEF Stat, Scanning, TypeOK
    <3>2. Cardinality(scan'.listed) = Cardinality(scan.listed) - 1
      BY <1>1, <3>1, Sizes
    <3>3. ReadsLeft' < ReadsLeft
      BY <1>1, <3>1, <3>2 DEF ReadsLeft
    <3> QED BY <3>1, <3>3, ReadNears
  <2> QED BY <1>3, <1>8, <2>2 DEF Stat
<1>9. CASE Tasks
  <2>1. CASE Scanning([scan EXCEPT !.at = "stat", !.cur = Group])
    <3>1. /\ scan.at = "tasks" /\ scan'.at = "stat" /\ scan'.try = scan.try
          /\ scan'.listed = scan.listed
      BY <1>9, <2>1 DEF Tasks, Scanning, TypeOK
    <3>2. ReadsLeft' < ReadsLeft
      BY <1>1, <3>1 DEF ReadsLeft
    <3> QED BY <3>1, <3>2, ReadNears
  <2> QED BY <1>3, <1>9, <2>1 DEF Tasks
<1>10. CASE After
  <2>1. CASE scan.try + 1 < Scans /\ Scanning([scan EXCEPT !.at = "leader", !.try = @ + 1])
    <3> DEFINE n == Scans - 1 - scan'.try
    <3>1. scan.at = "stat" /\ scan'.at = "leader" /\ scan'.try = scan.try + 1
      BY <1>10, <2>1 DEF After, Scanning, TypeOK
    <3>2. n \in Nat /\ Scans - 1 - scan.try = n + 1
      BY <1>1, <2>1, <3>1, ScanAssumption
    <3>3. Rounds(n) \in Nat /\ Rounds(n + 1) = Rounds(n) + Round
      BY <3>2, RoundsAre
    <3>4. StepsLeft' = Rounds(n) + Round /\ StepsLeft = Rounds(n + 1) + ReadsLeft
      BY <1>2, <3>1, <3>2 DEF StepsLeft, ReadsLeft
    <3>5. ReadsLeft \in Nat /\ ReadsLeft > 0
      BY StepsAre
    <3> HIDE DEF n
    <3> QED BY <1>2, <3>3, <3>4, <3>5
  <2> QED BY <1>3, <1>10, <2>1 DEF After
<1>11. CASE Unreadable
  BY <1>3, <1>11 DEF Unreadable
<1> QED BY <1>4, <1>5, <1>6, <1>7, <1>8, <1>9, <1>10, <1>11 DEF Call

\* The processes have no part in what the call has still to do.
LEMMA ProcessWaits ==
  ASSUME NEW p \in Pids, Process(p) PROVE StepsLeft' = StepsLeft
<1>1. UNCHANGED scan
  BY DEF Process, Fork, Leave, NewThread, Exit, ThreadsEnd, FirstEnds, Turns, Reap, Exec
<1> QED BY <1>1 DEF StepsLeft, ReadsLeft

(***************************************************************************)
(* executionGroupAlive "never spin[s] indefinitely" (daemon_exec_lifetime. *)
(* go): a call takes at most MaxSteps reads, however the processes fork,   *)
(* exit and use numbers again meanwhile, and its answer, once given, is    *)
(* the last step.                                                          *)
(***************************************************************************)
THEOREM ScanIsBounded ==
  ASSUME IsFiniteSet(Pids) PROVE Spec => []Bounded /\ [][Nears]_vars
<1>1. Init => Bounded
  <2> SUFFICES ASSUME Init PROVE Bounded
    OBVIOUS
  <2>1. scan.at = "idle" /\ scan.try = 0
    BY DEF Init, Answered
  <2>2. Scans - 1 \in Nat /\ Scans - 1 + 1 = Scans /\ Scans - 1 - 0 = Scans - 1
    BY ScanAssumption
  <2>3. Rounds(Scans - 1) \in Nat /\ Rounds(Scans) = Rounds(Scans - 1) + Round
    BY <2>2, RoundsAre
  <2>4. Round \in Nat
    BY RoundsAre
  <2>5. StepsLeft = Rounds(Scans - 1) + (Round + 1)
    BY <2>1, <2>2 DEF StepsLeft, ReadsLeft
  <2> QED BY <2>3, <2>4, <2>5 DEF Bounded, MaxSteps
<1>2. TypeOK => StepsLeft \in Nat
  BY StepsAre
<1>3. ASSUME TypeOK, TypeOK', Next PROVE Nears
  BY <1>3, CallNears, ProcessWaits DEF Nears
<1>4. ASSUME TypeOK, TypeOK', Next, StepsLeft \in Nat, (StepsLeft \in Nat)', Bounded
      PROVE  Bounded'
  <2>1. StepsLeft' <= StepsLeft
    BY <1>4, CallNears, ProcessWaits DEF Next
  <2>2. MaxSteps \in Nat
    BY RoundsAre, ScanAssumption DEF MaxSteps
  <2> QED BY <1>4, <2>1, <2>2 DEF Bounded
<1>5. ASSUME UNCHANGED vars, Bounded PROVE Bounded'
  BY <1>5 DEF vars, Bounded, StepsLeft, ReadsLeft, MaxSteps, Rounds, Round
<1> QED BY <1>1, <1>2, <1>3, <1>4, <1>5, TypeCorrect, PTL DEF Spec
=============================================================================
