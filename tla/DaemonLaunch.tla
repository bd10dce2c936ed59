---------------------------- MODULE DaemonLaunch ----------------------------
(***************************************************************************)
(* How a client finds or launches the daemon of its repository, and how a  *)
(* daemon takes, serves and gives up the repository's socket               *)
(* (ensureDaemonRunning, waitForDaemon and runDaemonServe in               *)
(* cmd/persona/daemon.go).                                                 *)
(*                                                                         *)
(* Three things in the file system tie the processes together: launch.lock *)
(* (one client launches at a time), serve.lock (one server lives at a      *)
(* time) and the socket, which is only a name: whoever removes it cuts the *)
(* server that is bound to it off from every later client.  Both locks are *)
(* flocks, which the kernel releases when their process dies; the socket   *)
(* stays.                                                                  *)
(***************************************************************************)
EXTENDS Naturals, FiniteSets

CONSTANTS
  Clients,  \* commands that need the daemon, each of which runs once
  Servers,  \* server processes; one that has exited may be started again
  ByHand,   \* those that no client spawns: "persona daemon serve"
  NoOne     \* the holder of a free lock, the server of no socket

ASSUME LaunchAssumption ==
  /\ NoOne \notin Clients \cup Servers
  /\ ByHand \subseteq Servers

VARIABLES
  client,   \* what each client does
  saw,      \* history: the servers that served when the client got launch.lock
  hit,      \* history: clients in whose time something went wrong
  launch,   \* who holds launch.lock
  server,   \* what each server process does
  serve,    \* who holds serve.lock
  socket    \* the server that the socket's name leads to

vars == <<client, saw, hit, launch, server, serve, socket>>

Launching == {"again", "spawn", "wait"}
Working   == {"ping", "lock"} \cup Launching
Booting   == {"boot", "locked", "clear", "bound"}
Answering == {"serve", "drain"}
Leaving   == {"drain", "closed", "removed"}

\* A ping is answered by the accept loop of the server behind the socket,
\* which also runs while it drains.
Answers == \E s \in Servers : socket = s /\ server[s] \in Answering

Init ==
  /\ client = [c \in Clients |-> "new"]
  /\ saw = [c \in Clients |-> {}]
  /\ hit = {}
  /\ launch = NoOne
  /\ server = [s \in Servers |-> "off"]
  /\ serve = NoOne
  /\ socket = NoOne

GoTo(c, x)  == client' = [client EXCEPT ![c] = x]
Step(s, x)  == server' = [server EXCEPT ![s] = x]
Trouble     == hit' = hit \cup {c \in Clients : client[c] \in Working}
-----------------------------------------------------------------------------
(***************************************************************************)
(* The client: ensureDaemonRunning.                                        *)
(***************************************************************************)
\* A launch that begins while a server is on its way out may find no socket
\* and no free serve.lock, which counts as trouble.
Begin(c) ==
  /\ client[c] = "new"
  /\ GoTo(c, "ping")
  /\ hit' = IF \E s \in Servers : server[s] \in Leaving THEN hit \cup {c} ELSE hit
  /\ UNCHANGED <<saw, launch, server, serve, socket>>

Ping(c) ==
  /\ client[c] = "ping"
  /\ GoTo(c, IF Answers THEN "ok" ELSE "lock")
  /\ UNCHANGED <<saw, hit, launch, server, serve, socket>>

\* As if launch.lock were only opened.
LaunchOpen == TRUE
LaunchFree == launch = NoOne

Lock(c) ==
  /\ client[c] = "lock" /\ LaunchFree
  /\ launch' = c
  /\ saw' = [saw EXCEPT ![c] = {s \in Servers : server[s] = "serve"}]
  /\ GoTo(c, "again")
  /\ UNCHANGED <<hit, server, serve, socket>>

\* As if the answer of the first ping were good enough.
NotAnswered == FALSE
AnswersAgain == Answers

PingAgain(c) ==
  /\ client[c] = "again"
  /\ IF AnswersAgain THEN GoTo(c, "ok") /\ launch' = NoOne
                     ELSE GoTo(c, "spawn") /\ UNCHANGED launch
  /\ UNCHANGED <<saw, hit, server, serve, socket>>

Spawn(c, s) ==
  /\ client[c] = "spawn"
  /\ s \in Servers \ ByHand /\ server[s] = "off"
  /\ Step(s, "boot")
  /\ GoTo(c, "wait")
  /\ UNCHANGED <<saw, hit, launch, serve, socket>>

WaitAnswered(c) ==
  /\ client[c] = "wait" /\ Answers
  /\ GoTo(c, "ok") /\ launch' = NoOne
  /\ UNCHANGED <<saw, hit, server, serve, socket>>

\* As if waitForDaemon had no deadline.
NeverExpires == FALSE
\* Its three seconds outlast the start of a server that starts.
Expires == ~Answers /\ \A s \in Servers : server[s] \notin Booting

WaitExpires(c) ==
  /\ client[c] = "wait" /\ Expires
  /\ GoTo(c, "failed") /\ launch' = NoOne
  /\ UNCHANGED <<saw, hit, server, serve, socket>>

\* A ping that takes longer than its 150 ms, as one of a loaded server may.
SlowPing(c) ==
  /\ client[c] \in {"ping", "again"} /\ Answers
  /\ GoTo(c, IF client[c] = "ping" THEN "lock" ELSE "spawn")
  /\ Trouble
  /\ UNCHANGED <<saw, launch, server, serve, socket>>

\* The command is killed or cancelled, a file cannot be opened, the server not
\* started, or its start takes longer than the wait.
GiveUp(c) ==
  /\ client[c] \in Working
  /\ GoTo(c, "failed")
  /\ launch' = IF launch = c THEN NoOne ELSE launch
  /\ Trouble
  /\ UNCHANGED <<saw, server, serve, socket>>
-----------------------------------------------------------------------------
(***************************************************************************)
(* The server: runDaemonServe.                                             *)
(***************************************************************************)
StartByHand(s) ==
  /\ s \in ByHand /\ server[s] = "off"
  /\ Step(s, "boot")
  /\ Trouble
  /\ UNCHANGED <<client, saw, launch, serve, socket>>

\* LOCK_EX with LOCK_NB: a second server leaves everything as it is.
TakeServeLock(s) ==
  /\ server[s] = "boot"
  /\ IF serve = NoOne THEN serve' = s /\ Step(s, "locked")
                      ELSE Step(s, "off") /\ UNCHANGED serve
  /\ UNCHANGED <<client, saw, hit, launch, socket>>

\* As if a socket that a killed server left behind were kept.
StaleKept == socket
StaleRemoved == NoOne

RemoveStale(s) ==
  /\ server[s] = "locked"
  /\ socket' = StaleRemoved
  /\ Step(s, "clear")
  /\ UNCHANGED <<client, saw, hit, launch, serve>>

\* bind makes the name, and fails if there is one.
Listen(s) ==
  /\ server[s] = "clear" /\ socket = NoOne
  /\ socket' = s
  /\ Step(s, "bound")
  /\ UNCHANGED <<client, saw, hit, launch, serve>>

Accept(s) ==
  /\ server[s] = "bound"
  /\ Step(s, "serve")
  /\ UNCHANGED <<client, saw, hit, launch, serve, socket>>

Signal(s) ==
  /\ server[s] = "serve"
  /\ Step(s, "drain")
  /\ Trouble
  /\ UNCHANGED <<client, saw, launch, serve, socket>>

\* The deferred calls run in reverse: the lock goes last.
\* As if it went when the listener is closed.
UnlocksEarly(s) == server[s] = "drain"
Unlocks(s)      == server[s] = "removed"
LockAfter(s)    == IF Unlocks(s) /\ serve = s THEN NoOne ELSE serve

\* Sessions are closed (DaemonGate); closing the listener removes its name.
CloseListener(s) ==
  /\ server[s] = "drain"
  /\ socket' = NoOne /\ serve' = LockAfter(s)
  /\ Step(s, "closed")
  /\ UNCHANGED <<client, saw, hit, launch>>

\* The name is removed once more, whatever is behind it.
RemoveSocket(s) ==
  /\ server[s] = "closed"
  /\ socket' = NoOne /\ serve' = LockAfter(s)
  /\ Step(s, "removed")
  /\ UNCHANGED <<client, saw, hit, launch>>

Exit(s) ==
  /\ server[s] = "removed"
  /\ serve' = LockAfter(s)
  /\ Step(s, "off")
  /\ UNCHANGED <<client, saw, hit, launch, socket>>

\* A step of the start fails; the deferred calls made so far run.
StartFails(s) ==
  /\ server[s] \in Booting
  /\ CASE server[s] = "boot"             -> Step(s, "off") /\ UNCHANGED socket
       [] server[s] \in {"locked", "clear"} -> Step(s, "removed") /\ UNCHANGED socket
       [] server[s] = "bound"            -> Step(s, "closed") /\ socket' = NoOne
  /\ Trouble
  /\ UNCHANGED <<client, saw, launch, serve>>

\* SIGKILL: the kernel gives the lock back, the name stays.
Kill(s) ==
  /\ server[s] # "off"
  /\ serve' = IF serve = s THEN NoOne ELSE serve
  /\ Step(s, "off")
  /\ Trouble
  /\ UNCHANGED <<client, saw, launch, socket>>
-----------------------------------------------------------------------------
ClientStep(c) == \/ Ping(c) \/ Lock(c) \/ PingAgain(c) \/ WaitAnswered(c) \/ WaitExpires(c)
                 \/ \E s \in Servers : Spawn(c, s)
ServerStep(s) == \/ TakeServeLock(s) \/ RemoveStale(s) \/ Listen(s) \/ Accept(s)
                 \/ CloseListener(s) \/ RemoveSocket(s) \/ Exit(s)

Next == \/ \E c \in Clients : Begin(c) \/ ClientStep(c) \/ SlowPing(c) \/ GiveUp(c)
        \/ \E s \in Servers : StartByHand(s) \/ ServerStep(s) \/ Signal(s)
                              \/ StartFails(s) \/ Kill(s)

\* Processes run.  Polling for launch.lock is not first come, first served,
\* but each command holds it once only.  The deadline of a wait passes in the
\* end, however often servers are started and killed meanwhile.
Fairness == /\ \A c \in Clients : WF_vars(ClientStep(c)) /\ SF_vars(WaitExpires(c))
            /\ \A s \in Servers : WF_vars(ServerStep(s))

Spec == Init /\ [][Next]_vars
FairSpec == Spec /\ Fairness
-----------------------------------------------------------------------------
HasServeLock == {"locked", "clear", "bound", "serve", "drain", "closed", "removed"}

\* The type invariant.  The locks are held exactly by those who are at work
\* under them.
TypeOK ==
  /\ client \in [Clients -> {"new", "ok", "failed"} \cup Working]
  /\ saw \in [Clients -> SUBSET Servers]
  /\ hit \subseteq Clients
  /\ launch \in Clients \cup {NoOne}
  /\ server \in [Servers -> {"off", "boot"} \cup HasServeLock]
  /\ serve \in Servers \cup {NoOne}
  /\ socket \in Servers \cup {NoOne}
  /\ \A c \in Clients : client[c] \in Launching <=> launch = c

\* A server that has bound its socket can be reached under its name until it
\* closes it: "a lifetime lock prevents a second server from unlinking an
\* active socket" (README.md), whichever way the one before it ended.
Reachable == \A s \in Servers : server[s] \in {"bound", "serve", "drain"} => socket = s

\* A client spawns no server next to one that served before it got the launch
\* lock, unless its ping was too slow or the server is on its way out.
NoNeedlessSpawn ==
  [][\A c \in Clients :
       client[c] = "spawn" /\ client'[c] = "wait" /\ c \notin hit =>
         \A s \in saw[c] : server[s] # "serve"]_vars

\* A launch in whose time no process is killed, signalled, slow or started by
\* hand ends with an answer: a socket left by a killed server, a server still
\* starting or the launch of another client does not keep it from one.
LaunchSucceeds ==
  \A c \in Clients : client[c] = "ping" ~> client[c] = "ok" \/ c \in hit

\* Every launch ends, whatever is killed.
LaunchEnds == \A c \in Clients : client[c] = "ping" ~> client[c] \in {"ok", "failed"}
=============================================================================
