--------------------------- MODULE ExecGroupScan ---------------------------
(***************************************************************************)
(* executionGroupAlive (daemon_exec_lifetime.go): whether a command's      *)
(* process group still runs, from a signal and a scan of /proc, while its  *)
(* processes and those of others fork, exit, make threads and are reaped.  *)
(*                                                                         *)
(* "Gone" lets the daemon save and unmount the view.  The scan is one read *)
(* at a time and in any order; nothing holds the processes still.          *)
(***************************************************************************)
EXTENDS Integers

CONSTANTS
  Pids,     \* the process numbers
  Group,    \* the recorded group, the number of the command's first process
  Start,    \* its recorded start time
  Scans,    \* attempts at a quiet scan
  MaxLast   \* how many numbers are given out: a bound for the model

ASSUME ScanAssumption == /\ Group \in Pids /\ Start \in Nat
                         /\ Scans \in Nat \ {0} /\ MaxLast \in Nat

VARIABLES
  proc, \* the processes
  last, \* how many numbers processes and threads have been given so far
  scan  \* the call of executionGroupAlive

vars == <<proc, last, scan>>

\* one: only its first thread runs.  many: others too.  half: only others, and
\* /proc shows the first as a zombie.  zombie: none, not reaped yet.
\* ours: it belongs to the recorded group, not to a later one of its number.
\* took: it or a parent of it goes back to an Exec.
Proc(is, g, ours) == [is |-> is, group |-> g, start |-> Start, ours |-> ours, took |-> FALSE]

Exists(p) == proc[p].is # "none"
Runs(p)   == proc[p].is \in {"one", "many", "half"}

\* A number is free when it names neither a process nor a group.
Free(n) == \A p \in Pids : Exists(p) => p # n /\ proc[p].group # n

Answered == [at |-> "done", try |-> 0, before |-> 0, left |-> {}, listed |-> {},
             cur |-> Group, alive |-> TRUE]

\* attach_exec has recorded the group; someone else runs as well.
Init ==
  /\ \E other \in Pids \ {Group} :
       proc = [p \in Pids |->
                 Proc(IF p \in {Group, other} THEN "one" ELSE "none", p, p = Group)]
  /\ last = Start
  /\ scan = [Answered EXCEPT !.at = "idle"]
-----------------------------------------------------------------------------
(***************************************************************************)
(* Processes, as the kernel has them.                                      *)
(***************************************************************************)
Turns(p, from, to) ==
  proc[p].is \in from /\ proc' = [proc EXCEPT ![p].is = to] /\ UNCHANGED <<last, scan>>

\* A child is in its parent's group.
Fork(p, n) ==
  /\ Runs(p) /\ Free(n) /\ last < MaxLast
  /\ proc' = [proc EXCEPT ![n] = [proc[p] EXCEPT !.is = "one", !.start = last + 1]]
  /\ last' = last + 1
  /\ UNCHANGED scan

\* A process leaves for a group of its own: it is not followed any more.
Leave(p) ==
  /\ Runs(p) /\ proc[p].group # p
  /\ proc' = [proc EXCEPT ![p].group = p, ![p].ours = FALSE]
  /\ UNCHANGED <<last, scan>>

NewThread(p) ==
  /\ Runs(p) /\ last < MaxLast
  /\ proc' = [proc EXCEPT ![p].is = IF @ = "half" THEN @ ELSE "many"]
  /\ last' = last + 1
  /\ UNCHANGED scan

\* Signals and _exit end all threads at once.
Exit(p)       == Turns(p, {"one", "many", "half"}, "zombie")
ThreadsEnd(p) == Turns(p, {"many"}, "one")
FirstEnds(p)  == Turns(p, {"many"}, "half")

Reap(p) ==
  /\ proc[p].is = "zombie"
  /\ proc' = [proc EXCEPT ![p] = Proc("none", p, FALSE)]
  /\ UNCHANGED <<last, scan>>

\* execve by another thread when the first has ended: it takes over the number
\* of the first, and no new one is given out.
Exec(p) ==
  /\ proc[p].is = "half"
  /\ proc' = [proc EXCEPT ![p].is = "one", ![p].took = TRUE]
  /\ UNCHANGED <<last, scan>>
-----------------------------------------------------------------------------
(***************************************************************************)
(* The call.                                                               *)
(***************************************************************************)
Scanning(x) == scan' = x /\ UNCHANGED <<proc, last>>
Answer(b)   == Scanning([Answered EXCEPT !.alive = b])

\* kill(-group, 0) finds no process of the group, a zombie neither.
Signal ==
  /\ scan.at = "idle"
  /\ IF \E p \in Pids : Exists(p) /\ proc[p].group = Group
     THEN Scanning([scan EXCEPT !.at = "leader"])
     ELSE Answer(FALSE)

OtherLeader == Exists(Group) /\ proc[Group].start # Start

Leader ==
  /\ scan.at = "leader"
  /\ IF OtherLeader THEN Answer(FALSE) ELSE Scanning([scan EXCEPT !.at = "before"])

Before ==
  /\ scan.at = "before"
  /\ Scanning([scan EXCEPT !.at = "list", !.before = last, !.left = Pids, !.listed = {}])

\* The directory, entry by entry.
List ==
  /\ scan.at = "list"
  /\ \/ \E p \in scan.left :
          Scanning([scan EXCEPT !.left = @ \ {p},
                      !.listed = IF Exists(p) THEN @ \cup {p} ELSE @])
     \/ /\ scan.left = {}
        /\ Scanning([scan EXCEPT !.at = "stat"])

Stat ==
  /\ scan.at = "stat"
  /\ \E p \in scan.listed :
       IF Exists(p) /\ proc[p].group = Group
       THEN IF proc[p].is \in {"one", "many"}
            THEN Answer(TRUE)
            ELSE Scanning([scan EXCEPT !.at = "tasks", !.listed = @ \ {p}, !.cur = p])
       ELSE Scanning([scan EXCEPT !.listed = @ \ {p}])

\* A first thread that has ended is listed next to those that run.
Tasks ==
  /\ scan.at = "tasks"
  /\ IF proc[scan.cur].is \in {"many", "half"} THEN Answer(TRUE)
     ELSE Scanning([scan EXCEPT !.at = "stat", !.cur = Group])

\* As if numbers given out meanwhile did not matter.
AlwaysQuiet == TRUE
Quiet == last = scan.before

After ==
  /\ scan.at = "stat" /\ scan.listed = {}
  /\ \/ Quiet /\ Answer(FALSE)
     \/ /\ ~Quiet /\ scan.try + 1 < Scans
        /\ Scanning([scan EXCEPT !.at = "leader", !.try = @ + 1])
     \/ /\ ~Quiet /\ scan.try + 1 = Scans
        /\ Answer(TRUE)

\* A file of /proc cannot be read, also since its process ends meanwhile.
Unreadable == scan.at \in {"before", "list", "stat", "tasks"} /\ Answer(TRUE)
-----------------------------------------------------------------------------
Process(p) == \/ Leave(p) \/ NewThread(p) \/ Exit(p) \/ ThreadsEnd(p) \/ FirstEnds(p)
              \/ Reap(p) \/ Exec(p) \/ \E n \in Pids : Fork(p, n)
Call == Signal \/ Leader \/ Before \/ List \/ Stat \/ Tasks \/ After \/ Unreadable

Next == Call \/ \E p \in Pids : Process(p)

Spec == Init /\ [][Next]_vars
-----------------------------------------------------------------------------
States == {"none", "one", "many", "half", "zombie"}
TypeOK ==
  /\ proc \in [Pids -> [is : States, group : Pids, start : Nat, ours : BOOLEAN,
                    took : BOOLEAN]]
  /\ last \in Nat
  /\ scan \in [at : {"idle", "leader", "before", "list", "stat", "tasks", "done"},
               try : 0 .. Scans - 1, before : Nat, left : SUBSET Pids,
               listed : SUBSET Pids, cur : Pids, alive : BOOLEAN]

\* When the group is answered to be gone none of its processes runs, then or
\* ever after, though they were looked at one at a time and numbers are used
\* again; those apart that a thread has taken over by executing a program.
NoWriterMissed ==
  scan.at = "done" /\ ~scan.alive => \A p \in Pids : proc[p].ours /\ Runs(p) => proc[p].took
=============================================================================
