----------------------------- MODULE DaemonGate -----------------------------
(***************************************************************************)
(* The daemon's registry of sessions and the gate of each session key      *)
(* (cmd/persona/daemon_state.go), with the requests that pass the gates    *)
(* and the shutdown goroutine that drains and then closes every session.   *)
(*                                                                         *)
(* DaemonSession models one key in depth and lets at most one handler at   *)
(* it.  This module models why that is so, for several keys: the map of    *)
(* gates under the state's mutex, the wait for a gate outside the mutex,   *)
(* and the two checks of `closing` around that wait.  A section of code    *)
(* that holds the mutex is one action.  What a handler does to its key     *)
(* while inside is one or two actions with every outcome it may have.      *)
(***************************************************************************)
EXTENDS Naturals, FiniteSets

CONSTANTS
  Keys,      \* session keys
  Requests,  \* request slots: goroutines that serve one connection each
  NoKey,     \* the key of a request that has none yet
  Nobody,    \* the holder of a free gate
  Main,      \* the shutdown goroutine
  OpsOf,     \* the operations that arrive on each slot
  Restorable,\* keys with a session's metadata file left by an earlier daemon
  MaxGates   \* bound: gates (Go channels) ever made

\* Requests with one key, and requests that visit every key.  flush, mark,
\* attach and recover pass the gate as ensure does and register no more.
KeyOps == {"ensure", "acquire", "end", "release"}
AllOps == {"list", "prune"}

ASSUME GateAssumption ==
  /\ NoKey \notin Keys
  /\ Nobody \notin Requests /\ Main \notin Requests /\ Nobody # Main
  /\ OpsOf \in [Requests -> SUBSET (KeyOps \cup AllOps)]
  /\ Restorable \subseteq Keys
  /\ MaxGates \in Nat

VARIABLES
  closing,  \* daemonState.closing
  gate,     \* daemonState.gates: the channel of each key, 0 when none is made
  made,     \* channels made so far
  holder,   \* who has sent into each channel and not yet received
  sess,     \* each key's entry in sessions and cached, and its metadata file
  req,      \* the requests at work
  main      \* the shutdown goroutine

vars == <<closing, gate, made, holder, sess, req, main>>

Gates == 1 .. MaxGates

Busy     == {"no", "live", "dead"}   \* no lease, its owner alive, owner gone
Unknown  == [reg |-> FALSE, cached |-> FALSE, saved |-> FALSE, busy |-> "no"]
Idle     == [at |-> "idle", op |-> "none", key |-> NoKey, chan |-> 0, todo |-> {}]

\* sessionGateLocked: the key's channel, made when it has none.
ChanOf(k)  == IF gate[k] = 0 THEN made + 1 ELSE gate[k]
UseGate(k) == /\ ChanOf(k) \in Gates
              /\ gate' = [gate EXCEPT ![k] = ChanOf(k)]
              /\ made' = IF gate[k] = 0 THEN made + 1 ELSE made

\* As if unlock dropped the entry of a key nobody seems to use any more.
GatesDropped(k) == [gate EXCEPT ![k] = 0]
\* unlock receives from the channel; the map keeps it.
GatesAfter(k) == gate
Unlock(k, c)  == /\ holder' = [holder EXCEPT ![c] = Nobody]
                 /\ gate' = GatesAfter(k)

\* As if the shutdown asked sessionKeys.
RegisteredKeys == {k \in Keys : sess[k].reg}
\* operationKeys: keys with a gate and keys with a session.
OperationKeys == {k \in Keys : gate[k] # 0 \/ sess[k].reg}
-----------------------------------------------------------------------------
Init ==
  /\ closing = FALSE
  /\ gate = [k \in Keys |-> 0] /\ made = 0
  /\ holder = [c \in Gates |-> Nobody]
  /\ sess = [k \in Keys |-> [Unknown EXCEPT !.saved = k \in Restorable]]
  /\ req = [r \in Requests |-> Idle]
  /\ main = [at |-> "serve", todo |-> {}, key |-> NoKey, chan |-> 0, pending |-> FALSE]

Become(r, x) == req' = [req EXCEPT ![r] = x]
At(r, s)     == req[r].at = s

\* lockSessionDuringDrain up to the wait: refused while closing, except for a
\* release, before the gate is looked up under the same mutex.
Call(r, op, k) ==
  /\ At(r, "idle") /\ main.at # "stopped"
  /\ ~closing \/ op = "release"
  /\ UseGate(k)
  /\ Become(r, [at |-> "wait", op |-> op, key |-> k, chan |-> ChanOf(k), todo |-> {}])
  /\ UNCHANGED <<closing, holder, sess, main>>

\* listSessions and pruneSessions collect registered keys and metadata files.
CallAll(r, op) ==
  /\ At(r, "idle") /\ main.at # "stopped"
  /\ Become(r, [at |-> "next", op |-> op, key |-> NoKey, chan |-> 0,
                todo |-> {k \in Keys : sess[k].reg \/ sess[k].saved}])
  /\ UNCHANGED <<closing, gate, made, holder, sess, main>>

\* The visit ends, or fails because the daemon closes.
AllDone(r) ==
  /\ At(r, "next") /\ (req[r].todo = {} \/ closing)
  /\ Become(r, Idle)
  /\ UNCHANGED <<closing, gate, made, holder, sess, main>>

\* trySession, gate free: taken under the mutex, closing cannot intervene.
ListEnter(r, k) ==
  /\ At(r, "next") /\ req[r].op = "list" /\ k \in req[r].todo /\ ~closing
  /\ UseGate(k)
  /\ holder[ChanOf(k)] = Nobody
  /\ holder' = [holder EXCEPT ![ChanOf(k)] = r]
  /\ Become(r, [req[r] EXCEPT !.at = "in", !.key = k, !.chan = ChanOf(k)])
  /\ UNCHANGED <<closing, sess, main>>

\* trySession, gate taken: the cached snapshot is the answer for this key.
ListCached(r, k) ==
  /\ At(r, "next") /\ req[r].op = "list" /\ k \in req[r].todo /\ ~closing
  /\ UseGate(k)
  /\ holder[ChanOf(k)] # Nobody /\ sess[k].cached
  /\ Become(r, [req[r] EXCEPT !.todo = @ \ {k}])
  /\ UNCHANGED <<closing, holder, sess, main>>

\* trySession without a snapshot, and prune: wait for the gate.
AllWait(r, k) ==
  /\ At(r, "next") /\ k \in req[r].todo /\ ~closing
  /\ UseGate(k)
  /\ req[r].op = "list" => holder[ChanOf(k)] # Nobody /\ ~sess[k].cached
  /\ Become(r, [req[r] EXCEPT !.at = "wait", !.key = k, !.chan = ChanOf(k)])
  /\ UNCHANGED <<closing, holder, sess, main>>

\* The request's deadline passes, or its client has gone away.
Cancel(r) ==
  /\ At(r, "wait")
  /\ Become(r, Idle)
  /\ UNCHANGED <<closing, gate, made, holder, sess, main>>

Take(r) ==
  /\ At(r, "wait") /\ holder[req[r].chan] = Nobody
  /\ holder' = [holder EXCEPT ![req[r].chan] = r]
  /\ Become(r, [req[r] EXCEPT !.at = "got"])
  /\ UNCHANGED <<closing, gate, made, sess, main>>

\* As if the check before the wait were enough.
NeverRefused(r)  == FALSE
\* With the gate in hand, closing is looked at once more.
RefusedAtGate(r) == closing /\ req[r].op # "release"

Refuse(r) ==
  /\ At(r, "got") /\ RefusedAtGate(r)
  /\ Unlock(req[r].key, req[r].chan)
  /\ Become(r, Idle)
  /\ UNCHANGED <<closing, made, sess, main>>

Enter(r) ==
  /\ At(r, "got") /\ ~RefusedAtGate(r)
  /\ Become(r, [req[r] EXCEPT !.at = "in"])
  /\ UNCHANGED <<closing, gate, made, holder, sess, main>>
-----------------------------------------------------------------------------
(***************************************************************************)
(* Inside a gate.  Each operator gives the states in which its step may    *)
(* leave the key's entry; leaving it as it is stands for an error.         *)
(***************************************************************************)
\* As if putSession did not fill the cache.
RegisteredOnly(s) == [s EXCEPT !.reg = TRUE]
Registered(s) == [s EXCEPT !.reg = TRUE, !.cached = TRUE]   \* putSession
Lookup(s)  == IF s.reg \/ ~s.saved THEN {s} ELSE {s, Registered(s)}
Recover(s) == {s} \cup IF s.reg /\ s.busy = "dead" THEN {[s EXCEPT !.busy = "no"]} ELSE {}
Grant(s)   == {s} \cup IF s.reg /\ s.busy = "no" THEN {[s EXCEPT !.busy = "live"]} ELSE {}
Release(s) == {s} \cup IF s.reg /\ s.busy # "no" THEN {[s EXCEPT !.busy = "no"]} ELSE {}
EndSession(s) == {s} \cup IF s.reg /\ s.busy = "no" THEN {Unknown} ELSE {}

Found(s)   == UNION {Recover(t) : t \in Lookup(s)}
Outcomes(op, s) ==
  CASE op = "ensure"  -> Lookup(s)
    [] op = "acquire" -> UNION {Grant(t) : t \in Found(s)}
    [] op = "release" -> Release(s)
    [] op = "end"     -> UNION {EndSession(t) : t \in Found(s)}
    [] op = "list"    -> Found(s)
    [] op = "prune"   -> UNION {EndSession(t) : t \in Found(s)}

\* ensure and acquire make a session when there is none: it is cached and its
\* metadata written before it is put in the registry.
MustCreate(r) == /\ req[r].op \in {"ensure", "acquire"}
                 /\ ~sess[req[r].key].reg /\ ~sess[req[r].key].saved
Create(r) ==
  /\ At(r, "in") /\ MustCreate(r)
  /\ \E saved \in BOOLEAN :
       sess' = [sess EXCEPT ![req[r].key].cached = TRUE, ![req[r].key].saved = saved]
  /\ Become(r, [req[r] EXCEPT !.at = "made"])
  /\ UNCHANGED <<closing, gate, made, holder, main>>

\* Leaving the gate: a visit goes to its next key; prune stops at an error.
Left(r)    == IF req[r].op \in AllOps
              THEN [req[r] EXCEPT !.at = "next", !.key = NoKey, !.chan = 0,
                                  !.todo = @ \ {req[r].key}]
              ELSE Idle
\* As if prune returned its error with the gate still locked.
PruneStopsLocked(r) == Become(r, Idle) /\ UNCHANGED <<gate, holder>>
PruneStops(r) == Unlock(req[r].key, req[r].chan) /\ Become(r, Idle)
Leave(r)   == \/ Unlock(req[r].key, req[r].chan) /\ Become(r, Left(r))
              \/ req[r].op = "prune" /\ PruneStops(r)

Work(r) ==
  /\ At(r, "in") /\ ~MustCreate(r)
  /\ \E s \in Outcomes(req[r].op, sess[req[r].key]) :
       sess' = [sess EXCEPT ![req[r].key] = s]
  /\ Leave(r)
  /\ UNCHANGED <<closing, made, main>>

\* The new session is registered (and granted), or its creation failed.
Put(r) ==
  /\ At(r, "made")
  /\ LET s == sess[req[r].key] IN
     \E t \in {s} \cup (IF s.saved
                        THEN IF req[r].op = "acquire" THEN Grant(Registered(s))
                             ELSE {Registered(s)}
                        ELSE {}) :
       sess' = [sess EXCEPT ![req[r].key] = t]
  /\ Leave(r)
  /\ UNCHANGED <<closing, made, main>>

\* The process that owns the key's lease ends.
OwnerDies(k) ==
  /\ sess[k].busy = "live"
  /\ sess' = [sess EXCEPT ![k].busy = "dead"]
  /\ UNCHANGED <<closing, gate, made, holder, req, main>>
-----------------------------------------------------------------------------
(***************************************************************************)
(* The shutdown goroutine: drainMutations, then closeSessions.             *)
(***************************************************************************)
Signal ==
  /\ main.at = "serve"
  /\ closing' = TRUE
  /\ main' = [main EXCEPT !.at = "poll"]
  /\ UNCHANGED <<gate, made, holder, sess, req>>

Poll ==
  /\ main.at = "poll"
  /\ main' = [main EXCEPT !.at = "drain", !.todo = OperationKeys, !.pending = FALSE]
  /\ UNCHANGED <<closing, gate, made, holder, sess, req>>

\* As if a key in use were none of the drain's business.
OwnerPending(k) == holder[ChanOf(k)] = Nobody /\ sess[k].reg /\ sess[k].busy = "live"
\* Whether a polled key keeps the drain waiting: someone is inside, or its
\* mutation owner is alive.
KeyPending(k) == holder[ChanOf(k)] # Nobody \/ (sess[k].reg /\ sess[k].busy = "live")

PollKey(k) ==
  /\ main.at = "drain" /\ k \in main.todo
  /\ UseGate(k)
  /\ main' = [main EXCEPT !.todo = @ \ {k}, !.pending = @ \/ KeyPending(k)]
  /\ UNCHANGED <<closing, holder, sess, req>>

PollAgain ==
  /\ main.at = "drain" /\ main.todo = {} /\ main.pending
  /\ main' = [main EXCEPT !.at = "poll"]
  /\ UNCHANGED <<closing, gate, made, holder, sess, req>>

BeginClose == main' = [main EXCEPT !.at = "close", !.todo = OperationKeys, !.pending = FALSE]

Drained ==
  /\ main.at = "drain" /\ main.todo = {} /\ ~main.pending
  /\ BeginClose
  /\ UNCHANGED <<closing, gate, made, holder, sess, req>>

\* As if the drain had no deadline.
DrainForever == FALSE
DrainTimeout ==
  /\ main.at = "drain" /\ main.todo = {} /\ main.pending
  /\ BeginClose
  /\ UNCHANGED <<closing, gate, made, holder, sess, req>>

\* closeSessions turns to the next key and blocks on its gate.
CloseNext(k) ==
  /\ main.at = "close" /\ k \in main.todo
  /\ UseGate(k)
  /\ main' = [main EXCEPT !.at = "wait", !.key = k, !.chan = ChanOf(k)]
  /\ UNCHANGED <<closing, holder, sess, req>>

CloseTake ==
  /\ main.at = "wait" /\ holder[main.chan] = Nobody
  /\ holder' = [holder EXCEPT ![main.chan] = Main]
  /\ main' = [main EXCEPT !.at = "in"]
  /\ UNCHANGED <<closing, gate, made, sess, req>>

\* Saved and cleaned up or preserved: either way it leaves the registry.
CloseKey ==
  /\ main.at = "in"
  /\ sess' = [sess EXCEPT ![main.key] =
                IF @.reg THEN [@ EXCEPT !.reg = FALSE, !.cached = FALSE] ELSE @]
  /\ Unlock(main.key, main.chan)
  /\ main' = [main EXCEPT !.at = "close", !.key = NoKey, !.chan = 0,
                            !.todo = @ \ {main.key}]
  /\ UNCHANGED <<closing, made, req>>

\* The listener is closed and runDaemonServe returns.
Stop ==
  /\ main.at = "close" /\ main.todo = {}
  /\ main' = [main EXCEPT !.at = "stopped"]
  /\ UNCHANGED <<closing, gate, made, holder, sess, req>>
-----------------------------------------------------------------------------
Visit(r, k) == ListEnter(r, k) \/ ListCached(r, k) \/ AllWait(r, k)
Serve(r) == \/ AllDone(r) \/ Refuse(r) \/ Enter(r)
            \/ Create(r) \/ Work(r) \/ Put(r)
            \/ \E k \in Keys : Visit(r, k)
Shutdown == \/ Poll \/ Drained \/ CloseTake \/ CloseKey \/ Stop \/ PollAgain
            \/ \E k \in Keys : PollKey(k) \/ CloseNext(k)

Next == \/ \E r \in Requests : \/ \E k \in Keys, op \in KeyOps \cap OpsOf[r] : Call(r, op, k)
                               \/ \E op \in AllOps \cap OpsOf[r] : CallAll(r, op)
                               \/ Cancel(r) \/ Take(r) \/ Serve(r)
        \/ Signal \/ Shutdown \/ DrainTimeout
        \/ \E k \in Keys : OwnerDies(k)

\* Handlers go on (each is bounded by its request's deadline); a Go channel
\* serves its blocked senders first come, first served; the drain's deadline
\* passes in the end, and is then seen at the end of a round.
Fairness == /\ \A r \in Requests : WF_vars(Serve(r)) /\ SF_vars(Take(r))
            /\ WF_vars(Shutdown) /\ SF_vars(CloseTake) /\ SF_vars(DrainTimeout)

Spec == Init /\ [][Next]_vars
FairSpec == Spec /\ Fairness
-----------------------------------------------------------------------------
ReqStates == [at : {"idle", "next", "wait", "got", "in", "made"},
              op : KeyOps \cup AllOps \cup {"none"}, key : Keys \cup {NoKey},
              chan : Gates \cup {0}, todo : SUBSET Keys]

AtGate(r) == req[r].at \in {"got", "in", "made"}

\* The type invariant of the registry, the gates and the requests.  A gate is
\* held only by one who is at work behind it: no path leaves it locked.
TypeOK ==
  /\ closing \in BOOLEAN
  /\ gate \in [Keys -> Gates \cup {0}]
  /\ made \in 0 .. MaxGates
  /\ holder \in [Gates -> Requests \cup {Main, Nobody}]
  /\ sess \in [Keys -> [reg : BOOLEAN, cached : BOOLEAN, saved : BOOLEAN, busy : Busy]]
  /\ req \in [Requests -> ReqStates]
  /\ main \in [at : {"serve", "poll", "drain", "close", "wait", "in", "stopped"},
               todo : SUBSET Keys, key : Keys \cup {NoKey}, chan : Gates \cup {0},
               pending : BOOLEAN]
  /\ \A c \in Gates, r \in Requests : holder[c] = r => AtGate(r) /\ req[r].chan = c
  /\ \A c \in Gates : holder[c] = Main => main.at = "in" /\ main.chan = c

Inside(r) == req[r].at \in {"in", "made"}

\* Two requests are never inside the same key, nor a request together with
\* closeSessions: the gate protects the session "including creation"
\* (daemon_state.go), however the map of gates grows meanwhile.
GateExclusive ==
  /\ \A r1, r2 \in Requests :
       Inside(r1) /\ Inside(r2) /\ req[r1].key = req[r2].key => r1 = r2
  /\ \A r \in Requests : Inside(r) /\ main.at = "in" => req[r].key # main.key

Passed(k) == \/ main.at = "stopped"
             \/ main.at \in {"close", "wait", "in"} /\ k \notin main.todo

\* A key that closeSessions has passed, or found without a gate or a session,
\* has no session in the registry and gets none: no request that waited at its
\* gate, or is inside, opens one that nobody would close.
ClosedForGood ==
  \A k \in Keys : Passed(k) =>
    /\ ~sess[k].reg
    /\ \A r \in Requests : Inside(r) /\ req[r].key = k => req[r].op = "release"

\* A drain that ends before its deadline leaves no mutation owner alive and no
\* request inside a gate but releases, although it looked at one key at a time.
QuietDrain ==
  [][main.at = "drain" /\ main.at' = "close" /\ ~main.pending =>
       /\ \A k \in Keys : sess[k].reg => sess[k].busy # "live"
       /\ \A r \in Requests : Inside(r) => req[r].op = "release"]_vars

\* list waits at a gate only for a session that is not registered yet: of a
\* registered one it has a snapshot, however long a command keeps it busy.
ListWaitsOnlyForNew ==
  [][\A r \in Requests :
       req[r].op = "list" /\ req[r].at = "next" /\ req'[r].at = "wait" =>
         ~sess[req'[r].key].reg]_vars

\* Every request ends, also one that waits at a gate when the daemon begins to
\* close, without its deadline having to end it.
RequestsEnd == \A r \in Requests : req[r].at # "idle" ~> req[r].at = "idle"

\* Once a signal has arrived the daemon stops, whoever holds leases or waits.
ShutdownEnds == closing ~> main.at = "stopped"
=============================================================================
