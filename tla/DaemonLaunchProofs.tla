------------------------- MODULE DaemonLaunchProofs -------------------------
(***************************************************************************)
(* The theorems about DaemonLaunch: who holds the two locks, that a bound  *)
(* server is behind the socket's name, that no client spawns a server next *)
(* to one that serves, that one daemon works at a time, and that a client  *)
(* never tries again.                                                      *)
(***************************************************************************)
EXTENDS DaemonLaunch, TLAPS

\* serve.lock is held from TakeServeLock to the last deferred call.
ServeLocked == \A s \in Servers : server[s] \in HasServeLock <=> serve = s

\* Until something goes wrong in its time, the servers that a client saw when
\* it got launch.lock go on serving, and there are none when it spawns.
SawServing ==
  \A c \in Clients : c \notin hit =>
    /\ client[c] = "again" => \A s \in saw[c] : server[s] = "serve"
    /\ client[c] = "spawn" => saw[c] = {}

IInv == TypeOK /\ ServeLocked /\ Reachable /\ SawServing

LEMMA InitInv == ASSUME Init PROVE IInv
<1>1. TypeOK
  BY LaunchAssumption DEF LaunchAssumption, Init, TypeOK, Working, Launching
<1>2. ServeLocked /\ Reachable /\ SawServing
  BY LaunchAssumption DEF LaunchAssumption, Init, ServeLocked, Reachable, SawServing,
     HasServeLock
<1> QED BY <1>1, <1>2 DEF IInv

\* The invariant's parts when only a client takes a step.
LEMMA ClientStepKeeps ==
  ASSUME IInv, NEW c \in Clients, NEW x \in {"ok", "failed"} \cup Working,
         GoTo(c, x), UNCHANGED <<server, serve, socket>>,
         saw' \in [Clients -> SUBSET Servers], hit' \in SUBSET Clients, hit \subseteq hit',
         \A d \in Clients \ {c} : saw'[d] = saw[d],
         launch' \in Clients \cup {NoOne},
         x \in Launching <=> launch' = c,
         \A d \in Clients \ {c} : launch' = d <=> launch = d,
         c \notin hit' => /\ x = "again" => \A s \in saw'[c] : server[s] = "serve"
                          /\ x = "spawn" => saw'[c] = {}
  PROVE  IInv'
<1> USE DEF IInv
<1>1. /\ client' \in [Clients -> {"new", "ok", "failed"} \cup Working]
      /\ client'[c] = x /\ \A d \in Clients \ {c} : client'[d] = client[d]
  BY DEF GoTo, TypeOK
<1>2. TypeOK'
  BY <1>1 DEF TypeOK
<1>3. ServeLocked' /\ Reachable'
  BY DEF ServeLocked, Reachable
<1>4. SawServing'
  BY <1>1 DEF SawServing
<1> QED BY <1>2, <1>3, <1>4

LEMMA TroubleIs ==
  ASSUME TypeOK, Trouble
  PROVE  /\ hit' \in SUBSET Clients /\ hit \subseteq hit'
         /\ \A c \in Clients : client[c] \in Working => c \in hit'
<1> QED BY DEF TypeOK, Trouble

\* By Reachable a server that serves answers.
LEMMA ServingAnswers == ASSUME IInv, ~Answers PROVE \A s \in Servers : server[s] # "serve"
<1> QED BY DEF IInv, Reachable, Answers, Answering

LEMMA ClientKeeps ==
  ASSUME IInv, NEW c \in Clients, Begin(c) \/ ClientStep(c) \/ SlowPing(c) \/ GiveUp(c)
  PROVE  IInv'
<1> USE DEF IInv
<1>1. /\ hit \in SUBSET Clients /\ saw \in [Clients -> SUBSET Servers]
      /\ launch \in Clients \cup {NoOne}
      /\ client[c] \in Launching <=> launch = c
      /\ NoOne \notin Clients
  BY LaunchAssumption DEF LaunchAssumption, TypeOK
<1>2. CASE Begin(c)
  BY <1>1, <1>2, ClientStepKeeps DEF Begin, Launching, Working
<1>3. CASE Ping(c)
  <2>1. PICK x \in {"ok", "lock"} : GoTo(c, x)
    BY <1>3 DEF Ping
  <2> QED BY <1>1, <1>3, <2>1, ClientStepKeeps DEF Ping, Launching, Working
<1>4. CASE Lock(c)
  <2>1. saw' \in [Clients -> SUBSET Servers]
    BY <1>1, <1>4 DEF Lock
  <2>2. \A s \in saw'[c] : server[s] = "serve"
    BY <1>1, <1>4 DEF Lock
  <2>3. \A d \in Clients \ {c} : saw'[d] = saw[d]
    BY <1>1, <1>4 DEF Lock
  <2>4. \A d \in Clients \ {c} : launch' = d <=> launch = d
    BY <1>1, <1>4 DEF Lock, LaunchFree
  <2> QED BY <1>1, <1>4, <2>1, <2>2, <2>3, <2>4, ClientStepKeeps DEF Lock, Launching, Working
<1>5. CASE PingAgain(c)
  <2>1. CASE AnswersAgain
    BY <1>1, <1>5, <2>1, ClientStepKeeps DEF PingAgain, Launching, Working
  <2>2. CASE ~AnswersAgain
    <3>1. c \notin hit => saw[c] = {}
      BY <1>1, <1>5, <2>2, ServingAnswers DEF PingAgain, AnswersAgain, SawServing
    <3> QED BY <1>1, <1>5, <2>2, <3>1, ClientStepKeeps DEF PingAgain, Launching, Working
  <2> QED BY <2>1, <2>2
<1>6. CASE WaitAnswered(c)
  BY <1>1, <1>6, ClientStepKeeps DEF WaitAnswered, Launching, Working
<1>7. CASE WaitExpires(c)
  BY <1>1, <1>7, ClientStepKeeps DEF WaitExpires, Launching, Working
<1>8. CASE \E s \in Servers : Spawn(c, s)
  <2>1. PICK s \in Servers : Spawn(c, s)
    BY <1>8
  <2>2. /\ client' = [client EXCEPT ![c] = "wait"] /\ server' = [server EXCEPT ![s] = "boot"]
        /\ server[s] = "off" /\ client[c] = "spawn"
        /\ UNCHANGED <<saw, hit, launch, serve, socket>>
    BY <2>1 DEF Spawn, GoTo, Step
  <2>3. TypeOK'
    BY <2>2 DEF TypeOK, Launching, Working
  <2>4. ServeLocked' /\ Reachable'
    BY <2>2 DEF ServeLocked, Reachable, TypeOK, HasServeLock
  <2>5. SawServing'
    BY <2>2 DEF SawServing, TypeOK
  <2> QED BY <2>3, <2>4, <2>5
<1>9. CASE SlowPing(c)
  <2>1. PICK x \in {"lock", "spawn"} : GoTo(c, x) /\ (x = "lock" <=> client[c] = "ping")
    BY <1>9 DEF SlowPing
  <2>2. client[c] \in Working
    BY <1>9 DEF SlowPing, Working, Launching
  <2> QED BY <1>1, <1>9, <2>1, <2>2, TroubleIs, ClientStepKeeps DEF SlowPing, Launching, Working
<1>10. CASE GiveUp(c)
  BY <1>1, <1>10, TroubleIs, ClientStepKeeps DEF GiveUp, Launching, Working
<1> QED BY <1>2, <1>3, <1>4, <1>5, <1>6, <1>7, <1>8, <1>9, <1>10 DEF ClientStep

\* The invariant's parts when only a server takes a step: one that serves goes
\* on, or there is trouble.
LEMMA ServerStepKeeps ==
  ASSUME IInv, NEW s \in Servers, NEW x \in {"off", "boot"} \cup HasServeLock,
         Step(s, x), UNCHANGED <<client, saw, launch>>,
         hit' \in SUBSET Clients, hit \subseteq hit',
         server[s] = "serve" /\ x # "serve" =>
           \A c \in Clients : client[c] \in Working => c \in hit',
         serve' \in Servers \cup {NoOne}, socket' \in Servers \cup {NoOne},
         x \in HasServeLock <=> serve' = s,
         \A t \in Servers \ {s} : serve' = t <=> serve = t,
         x \in {"bound", "serve", "drain"} => socket' = s,
         socket' # socket => serve = s
  PROVE  IInv'
<1> USE DEF IInv
<1>1. /\ server' \in [Servers -> {"off", "boot"} \cup HasServeLock]
      /\ server'[s] = x /\ \A t \in Servers \ {s} : server'[t] = server[t]
  BY DEF Step, TypeOK
<1>2. TypeOK'
  BY <1>1 DEF TypeOK
<1>3. ServeLocked'
  BY <1>1 DEF ServeLocked
<1>4. Reachable'
  BY <1>1 DEF Reachable, ServeLocked, HasServeLock
<1>5. SawServing'
  BY <1>1 DEF SawServing, TypeOK, Working, Launching
<1> QED BY <1>2, <1>3, <1>4, <1>5

LEMMA ServerKeeps ==
  ASSUME IInv, NEW s \in Servers,
         StartByHand(s) \/ ServerStep(s) \/ Signal(s) \/ StartFails(s) \/ Kill(s)
  PROVE  IInv'
<1> USE DEF IInv
<1>1. /\ hit \in SUBSET Clients /\ serve \in Servers \cup {NoOne}
      /\ socket \in Servers \cup {NoOne} /\ NoOne \notin Servers
      /\ server[s] \in HasServeLock <=> serve = s
      /\ server[s] \in {"bound", "serve", "drain"} => socket = s
  BY LaunchAssumption DEF LaunchAssumption, TypeOK, ServeLocked, Reachable
<1>2. CASE StartByHand(s)
  BY <1>1, <1>2, TroubleIs, ServerStepKeeps DEF StartByHand, HasServeLock
<1>3. CASE TakeServeLock(s)
  <2>1. CASE serve = NoOne
    BY <1>1, <1>3, <2>1, ServerStepKeeps DEF TakeServeLock, HasServeLock
  <2>2. CASE serve # NoOne
    BY <1>1, <1>3, <2>2, ServerStepKeeps DEF TakeServeLock, HasServeLock
  <2> QED BY <2>1, <2>2
<1>4. CASE RemoveStale(s)
  BY <1>1, <1>4, ServerStepKeeps DEF RemoveStale, StaleRemoved, HasServeLock
<1>5. CASE Listen(s)
  BY <1>1, <1>5, ServerStepKeeps DEF Listen, HasServeLock
<1>6. CASE Accept(s)
  BY <1>1, <1>6, ServerStepKeeps DEF Accept, HasServeLock
<1>7. CASE CloseListener(s)
  BY <1>1, <1>7, ServerStepKeeps DEF CloseListener, LockAfter, Unlocks, HasServeLock
<1>8. CASE RemoveSocket(s)
  BY <1>1, <1>8, ServerStepKeeps DEF RemoveSocket, LockAfter, Unlocks, HasServeLock
<1>9. CASE Exit(s)
  BY <1>1, <1>9, ServerStepKeeps DEF Exit, LockAfter, Unlocks, HasServeLock
<1>10. CASE Signal(s)
  BY <1>1, <1>10, TroubleIs, ServerStepKeeps DEF Signal, HasServeLock
<1>11. CASE StartFails(s)
  <2>1. CASE server[s] = "boot"
    BY <1>1, <1>11, <2>1, TroubleIs, ServerStepKeeps DEF StartFails, HasServeLock
  <2>2. CASE server[s] \in {"locked", "clear"}
    BY <1>1, <1>11, <2>2, TroubleIs, ServerStepKeeps DEF StartFails, HasServeLock
  <2>3. CASE server[s] = "bound"
    BY <1>1, <1>11, <2>3, TroubleIs, ServerStepKeeps DEF StartFails, HasServeLock
  <2> QED BY <1>11, <2>1, <2>2, <2>3 DEF StartFails, Booting
<1>12. CASE Kill(s)
  BY <1>1, <1>12, TroubleIs, ServerStepKeeps DEF Kill, HasServeLock
<1> QED BY <1>2, <1>3, <1>4, <1>5, <1>6, <1>7, <1>8, <1>9, <1>10, <1>11, <1>12
        DEF ServerStep

LEMMA NextKeeps == ASSUME IInv, [Next]_vars PROVE IInv'
<1>1. CASE UNCHANGED vars
  BY <1>1 DEF IInv, vars, TypeOK, ServeLocked, Reachable, SawServing
<1> QED BY <1>1, ClientKeeps, ServerKeeps DEF Next

\* The invariant.
THEOREM Invariance == Spec => []IInv
<1>1. Init => IInv
  BY InitInv
<1>2. IInv /\ [Next]_vars => IInv'
  BY NextKeeps
<1> QED BY <1>1, <1>2, PTL DEF Spec

\* launch.lock is held exactly by the client that launches.
THEOREM TypeCorrect == Spec => []TypeOK
<1>1. IInv => TypeOK
  BY DEF IInv
<1> QED BY <1>1, Invariance, PTL

\* No server unlinks the socket of another that is still in use.
THEOREM SocketLeadsToServer == Spec => []Reachable
<1>1. IInv => Reachable
  BY DEF IInv
<1> QED BY <1>1, Invariance, PTL

\* A client that spawns a server saw none that served.
THEOREM SpawnsWhenNeeded == Spec => NoNeedlessSpawn
<1>1. IInv /\ [Next]_vars =>
        [\A c \in Clients :
           client[c] = "spawn" /\ client'[c] = "wait" /\ c \notin hit =>
             \A s \in saw[c] : server[s] # "serve"]_vars
  BY DEF IInv, SawServing
<1> QED BY <1>1, Invariance, PTL DEF Spec, NoNeedlessSpawn
-----------------------------------------------------------------------------
\* A server process that has the lifetime lock: it may open, change or close
\* sessions only between taking it and giving it back.
OneDaemon == \A s, t \in Servers :
               server[s] \in HasServeLock /\ server[t] \in HasServeLock => s = t

(***************************************************************************)
(* At most one daemon is at work on the sessions of a repository at any    *)
(* moment, from before it binds the socket until after it has closed the   *)
(* sessions, also when the one before it was killed.  DaemonSession takes  *)
(* this for granted, which has one daemon at a time.                       *)
(***************************************************************************)
THEOREM DaemonsAreAlone == Spec => []OneDaemon
<1>1. IInv => OneDaemon
  BY DEF IInv, ServeLocked, OneDaemon
<1> QED BY <1>1, Invariance, PTL

\* The stages of a launch that are left; spawning is one of them.
Left(x) == IF x = "new" THEN 6 ELSE IF x = "ping" THEN 5 ELSE IF x = "lock" THEN 4
           ELSE IF x = "again" THEN 3 ELSE IF x = "spawn" THEN 2 ELSE IF x = "wait" THEN 1 ELSE 0
ClientsMoveOn == \A c \in Clients : client'[c] # client[c] => Left(client'[c]) < Left(client[c])

(***************************************************************************)
(* Whatever the servers do, a client pings twice and spawns once at most:  *)
(* each of its steps leads on, none back to an earlier one, and its end is *)
(* final.                                                                  *)
(***************************************************************************)
THEOREM LaunchesMoveOn == Spec => [][ClientsMoveOn]_vars
<1>1. ASSUME TypeOK, NEW c \in Clients, NEW x, GoTo(c, x), Left(x) < Left(client[c])
      PROVE  ClientsMoveOn
  BY <1>1 DEF TypeOK, GoTo, ClientsMoveOn
<1>2. ASSUME TypeOK, NEW c \in Clients, Begin(c) \/ ClientStep(c) \/ SlowPing(c) \/ GiveUp(c)
      PROVE  ClientsMoveOn
  <2>1. PICK x : GoTo(c, x) /\ Left(x) < Left(client[c])
    BY <1>2 DEF Begin, ClientStep, Ping, Lock, PingAgain, WaitAnswered, WaitExpires, Spawn,
       SlowPing, GiveUp, Working, Launching, Left
  <2> QED BY <1>1, <1>2, <2>1
<1>3. ASSUME NEW s \in Servers,
             StartByHand(s) \/ ServerStep(s) \/ Signal(s) \/ StartFails(s) \/ Kill(s)
      PROVE  ClientsMoveOn
  <2>1. UNCHANGED client
    BY <1>3 DEF StartByHand, ServerStep, Signal, StartFails, Kill, TakeServeLock, RemoveStale,
       Listen, Accept, CloseListener, RemoveSocket, Exit
  <2> QED BY <2>1 DEF ClientsMoveOn
<1>4. ASSUME TypeOK, [Next]_vars PROVE [ClientsMoveOn]_vars
  BY <1>2, <1>3, <1>4 DEF Next
<1> QED BY <1>4, TypeCorrect, PTL DEF Spec
=============================================================================
