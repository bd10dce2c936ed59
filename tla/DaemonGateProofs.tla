-------------------------- MODULE DaemonGateProofs --------------------------
(***************************************************************************)
(* Proofs about DaemonGate.  A gate works because three things agree at    *)
(* every moment: the map of gates gives every key at most one channel and  *)
(* no two keys the same one, whoever waits for a key waits at that         *)
(* channel, and whoever is past the wait has sent into it.  Closing works  *)
(* because from the signal on only releases get past a gate, and a release *)
(* makes no session and grants no lease.                                   *)
(***************************************************************************)
EXTENDS DaemonGate, FiniteSetTheorems, TLAPS

AtGateStates == {"got", "in", "made"}
InStates     == {"in", "made"}
SessType     == [reg : BOOLEAN, cached : BOOLEAN, saved : BOOLEAN, busy : Busy]

\* What is true of a request, given the gates.
ReqOK(x, g) ==
  /\ x.at # "idle" => x.op \in KeyOps \cup AllOps
  /\ x.at = "made" => x.op \in {"ensure", "acquire"}
  /\ x.at \in AtGateStates \cup {"wait"} =>
       x.key \in Keys /\ x.chan \in Gates /\ g[x.key] = x.chan

MapInv == /\ \A k \in Keys : gate[k] <= made
          /\ \A j, k \in Keys : gate[j] = gate[k] /\ gate[j] # 0 => j = k

ReqInv == \A r \in Requests :
  /\ ReqOK(req[r], gate)
  /\ req[r].at \in AtGateStates => holder[req[r].chan] = r

MainInv ==
  /\ main.at # "serve" => closing
  /\ main.at \in {"wait", "in"} =>
       /\ main.key \in main.todo /\ main.chan \in Gates
       /\ gate[main.key] = main.chan
  /\ main.at = "in" => holder[main.chan] = Main

OnlyReleases(k) ==
  \A r \in Requests : req[r].at \in InStates /\ req[r].key = k => req[r].op = "release"
Quiet(k)  == ~(sess[k].reg /\ sess[k].busy = "live") /\ OnlyReleases(k)
Closed(k) == ~sess[k].reg /\ OnlyReleases(k)

DrainInv == main.at = "drain" /\ ~main.pending => \A k \in Keys \ main.todo : Quiet(k)
CloseInv == \A k \in Keys : Passed(k) => Closed(k)

\* A session in the registry has a snapshot in the cache.
Shown(s) == s.reg => s.cached
CacheInv == \A k \in Keys : Shown(sess[k])

IInv == TypeOK /\ MapInv /\ ReqInv /\ MainInv /\ DrainInv /\ CloseInv /\ CacheInv
-----------------------------------------------------------------------------
(***************************************************************************)
(* What any step of a request may do.                                      *)
(***************************************************************************)
\* The map of gates stays as it is, or one key gets a new channel.
Grows ==
  /\ gate' \in [Keys -> Gates \cup {0}] /\ made' \in 0 .. MaxGates
  /\ \A k \in Keys : gate'[k] <= made'
  /\ \A j, k \in Keys : gate'[j] = gate'[k] /\ gate'[j] # 0 => j = k
  /\ \A k \in Keys : gate[k] # 0 => gate'[k] = gate[k]

Calmer(s, t) == /\ t.reg => s.reg
                /\ t.reg /\ t.busy = "live" => s.reg /\ s.busy = "live"

Holds(r, x) ==
  \/ /\ holder' = holder
     /\ x.at \in AtGateStates <=> req[r].at \in AtGateStates
     /\ x.at \in AtGateStates => x.chan = req[r].chan
  \/ /\ x.at \in AtGateStates /\ req[r].at \notin AtGateStates
     /\ holder[x.chan] = Nobody
     /\ holder' = [holder EXCEPT ![x.chan] = r]
  \/ /\ x.at \notin AtGateStates /\ req[r].at \in AtGateStates
     /\ holder' = [holder EXCEPT ![req[r].chan] = Nobody]

Moves(r, x) ==
  /\ req' = [req EXCEPT ![r] = x]
  /\ ReqOK(x, gate')
  /\ x.at \in InStates =>
       \/ req[r].at \notin InStates /\ (closing => x.op = "release")
       \/ req[r].at \in InStates /\ x.key = req[r].key /\ x.op = req[r].op
  /\ Holds(r, x)

Changes(r, t) ==
  /\ req[r].at \in InStates
  /\ sess' = [sess EXCEPT ![req[r].key] = t]
  /\ req[r].op = "release" => Calmer(sess[req[r].key], t)
  /\ Shown(sess[req[r].key]) => Shown(t)

RequestStep(r) ==
  /\ UNCHANGED <<closing, main>>
  /\ Grows
  /\ \E x \in ReqStates : Moves(r, x)
  /\ sess' = sess \/ \E t \in SessType : Changes(r, t)
-----------------------------------------------------------------------------
LEMMA ConstantFacts ==
  /\ NoKey \notin Keys /\ Nobody \notin Requests /\ Main \notin Requests
  /\ Nobody # Main /\ MaxGates \in Nat
  /\ OpsOf \in [Requests -> SUBSET (KeyOps \cup AllOps)]
BY GateAssumption DEF GateAssumption

LEMMA GatesStay == ASSUME IInv, UNCHANGED <<gate, made>> PROVE Grows
BY DEF IInv, TypeOK, MapInv, Grows

LEMMA UseGateGrows ==
  ASSUME IInv, NEW k \in Keys, UseGate(k)
  PROVE  Grows /\ ChanOf(k) \in Gates /\ gate'[k] = ChanOf(k)
<1>1. /\ gate \in [Keys -> Gates \cup {0}] /\ made \in Nat
      /\ MapInv /\ \A j \in Keys : gate[j] \in Nat
  BY ConstantFacts DEF IInv, TypeOK, Gates
<1>2. CASE gate[k] = 0
  <2>1. made + 1 \in Gates /\ made' = made + 1 /\ gate' = [gate EXCEPT ![k] = made + 1]
    BY <1>2 DEF UseGate, ChanOf
  <2>2. made' \in 0 .. MaxGates
    BY <1>1, <2>1, ConstantFacts DEF Gates
  <2>3. /\ gate'[k] = made + 1 /\ \A j \in Keys \ {k} : gate'[j] = gate[j]
        /\ gate' \in [Keys -> Gates \cup {0}]
    BY <1>1, <2>1
  <2>4. \A j \in Keys \ {k} : gate[j] <= made /\ gate[j] # made + 1
    BY <1>1 DEF MapInv
  <2>5. \A j \in Keys : gate'[j] <= made'
    BY <1>1, <2>1, <2>3, <2>4
  <2>6. \A i, j \in Keys : gate'[i] = gate'[j] /\ gate'[i] # 0 => i = j
    BY <1>1, <2>3, <2>4 DEF MapInv
  <2> QED BY <1>2, <2>1, <2>2, <2>3, <2>5, <2>6 DEF Grows, ChanOf
<1>3. CASE gate[k] # 0
  <2>1. gate' = gate /\ made' = made /\ ChanOf(k) = gate[k]
    BY <1>1, <1>3 DEF UseGate, ChanOf
  <2> QED BY <1>1, <1>3, <2>1, GatesStay
<1> QED BY <1>2, <1>3

\* What a handler leaves of an entry, and that a release only calms it.
LEMMA OutcomeFacts ==
  ASSUME NEW op \in KeyOps \cup AllOps, NEW s \in SessType, NEW t \in Outcomes(op, s)
  PROVE  t \in SessType /\ (op = "release" => Calmer(s, t)) /\ (Shown(s) => Shown(t))
<1>1. /\ Unknown \in SessType
      /\ \A u \in SessType :
           /\ Registered(u) \in SessType
           /\ [u EXCEPT !.busy = "no"] \in SessType
           /\ [u EXCEPT !.busy = "live"] \in SessType
           /\ [u EXCEPT !.busy = "no"].reg = u.reg
           /\ [u EXCEPT !.busy = "no"].busy = "no"
           /\ Shown(Registered(u))
           /\ Shown(u) => Shown([u EXCEPT !.busy = "no"]) /\ Shown([u EXCEPT !.busy = "live"])
      /\ Shown(Unknown)
  BY DEF SessType, Unknown, Registered, Busy, Shown
<1> DEFINE Later(u) == {v \in SessType : Shown(u) => Shown(v)}
<1>2. /\ \A u \in SessType : Lookup(u) \subseteq Later(u)
      /\ \A u \in SessType : Recover(u) \subseteq Later(u)
      /\ \A u \in SessType : Grant(u) \subseteq Later(u)
      /\ \A u \in SessType : EndSession(u) \subseteq Later(u)
      /\ \A u \in SessType : Release(u) \subseteq Later(u)
  BY <1>1 DEF Lookup, Recover, Grant, EndSession, Release
<1>3. \A u \in SessType : Found(u) \subseteq Later(u)
  BY <1>2 DEF Found
<1>4. CASE op = "release"
  <2>1. t \in Release(s)
    BY <1>4 DEF Outcomes
  <2>2. t = s \/ t = [s EXCEPT !.busy = "no"]
    BY <2>1 DEF Release
  <2> QED BY <1>1, <1>4, <2>2 DEF Calmer
<1>5. CASE op \in {"ensure", "acquire", "end", "list", "prune"}
  <2>1. CASE op = "ensure"
    BY <1>2, <2>1 DEF Outcomes
  <2>2. CASE op = "acquire"
    <3>1. PICK u \in Found(s) : t \in Grant(u)
      BY <2>2 DEF Outcomes
    <3> QED BY <1>2, <1>3, <2>2, <3>1
  <2>3. CASE op \in {"end", "prune"}
    <3>1. PICK u \in Found(s) : t \in EndSession(u)
      BY <2>3 DEF Outcomes
    <3> QED BY <1>2, <1>3, <2>3, <3>1
  <2>4. CASE op = "list"
    BY <1>3, <2>4 DEF Outcomes
  <2> QED BY <1>5, <2>1, <2>2, <2>3, <2>4
<1> QED BY <1>4, <1>5 DEF KeyOps, AllOps
-----------------------------------------------------------------------------
(***************************************************************************)
(* A step of a request keeps the invariant.                                *)
(***************************************************************************)
LEMMA RequestKeepsSess ==
  ASSUME IInv, NEW r \in Requests, RequestStep(r)
  PROVE  /\ sess' \in [Keys -> SessType] /\ CacheInv'
         /\ closing => \A k \in Keys : OnlyReleases(k) =>
              OnlyReleases(k)' /\ Calmer(sess[k], sess'[k])
<1>1. /\ sess \in [Keys -> SessType] /\ ReqInv /\ CacheInv
      /\ req \in [Requests -> ReqStates]
  BY DEF IInv, TypeOK, SessType
<1>2. PICK x \in ReqStates : Moves(r, x)
  BY DEF RequestStep
<1>3. req'[r] = x /\ \A q \in Requests \ {r} : req'[q] = req[q]
  BY <1>1, <1>2 DEF Moves
<1>4. ASSUME closing, NEW k \in Keys, OnlyReleases(k) PROVE OnlyReleases(k)'
  BY <1>2, <1>3, <1>4 DEF OnlyReleases, Moves
<1>5. CASE sess' = sess
  BY <1>1, <1>4, <1>5 DEF Calmer, CacheInv
<1>6. ASSUME NEW t \in SessType, Changes(r, t)
      PROVE  /\ sess' \in [Keys -> SessType] /\ CacheInv'
             /\ closing => \A k \in Keys : OnlyReleases(k) => Calmer(sess[k], sess'[k])
  <2>1. req[r].key \in Keys /\ req[r].at \in InStates
    BY <1>1, <1>6 DEF ReqInv, ReqOK, Changes, InStates, AtGateStates
  <2>2. /\ sess' \in [Keys -> SessType] /\ sess'[req[r].key] = t
        /\ \A k \in Keys : k # req[r].key => sess'[k] = sess[k]
    BY <1>1, <1>6, <2>1 DEF Changes
  <2>3. CacheInv'
    BY <1>1, <1>6, <2>1, <2>2 DEF CacheInv, Changes
  <2>4. ASSUME NEW k \in Keys, OnlyReleases(k) PROVE Calmer(sess[k], sess'[k])
    <3>1. CASE k = req[r].key
      <4>1. req[r].op = "release"
        BY <2>1, <2>4, <3>1 DEF OnlyReleases
      <4> QED BY <1>6, <2>2, <3>1, <4>1 DEF Changes
    <3>2. CASE k # req[r].key
      BY <2>2, <3>2 DEF Calmer
    <3> QED BY <3>1, <3>2
  <2> QED BY <2>2, <2>3, <2>4
<1> QED BY <1>4, <1>5, <1>6 DEF RequestStep

LEMMA RequestKeepsGates ==
  ASSUME IInv, NEW r \in Requests, RequestStep(r)
  PROVE  TypeOK' /\ ReqInv' /\ MainInv'
<1>1. PICK x \in ReqStates : Moves(r, x)
  BY DEF RequestStep
<1>2. /\ req' \in [Requests -> ReqStates] /\ req'[r] = x
      /\ \A q \in Requests \ {r} : req'[q] = req[q]
  BY <1>1 DEF Moves, IInv, TypeOK
<1>3. /\ closing' = closing /\ main' = main /\ Grows
      /\ closing \in BOOLEAN /\ ReqInv /\ MainInv
      /\ holder \in [Gates -> Requests \cup {Main, Nobody}]
      /\ \A c \in Gates, q \in Requests :
           holder[c] = q => req[q].at \in AtGateStates /\ req[q].chan = c
      /\ \A c \in Gates : holder[c] = Main => main.at = "in" /\ main.chan = c
  BY DEF RequestStep, IInv, TypeOK, AtGate, AtGateStates
<1>4. /\ x.at \in AtGateStates => x.chan \in Gates
      /\ req[r].at \in AtGateStates => req[r].chan \in Gates /\ holder[req[r].chan] = r
  BY <1>1, <1>3 DEF Moves, ReqOK, ReqInv
<1>5. /\ holder' \in [Gates -> Requests \cup {Main, Nobody}]
      /\ \A c \in Gates : holder'[c] = Main <=> holder[c] = Main
      /\ \A c \in Gates, q \in Requests \ {r} : holder'[c] = q <=> holder[c] = q
      /\ \A c \in Gates : holder'[c] = r <=> x.at \in AtGateStates /\ x.chan = c
  <2>1. CASE /\ holder' = holder
             /\ x.at \in AtGateStates <=> req[r].at \in AtGateStates
             /\ x.at \in AtGateStates => x.chan = req[r].chan
    BY <1>3, <1>4, <2>1
  <2>2. CASE /\ x.at \in AtGateStates /\ req[r].at \notin AtGateStates
             /\ holder[x.chan] = Nobody
             /\ holder' = [holder EXCEPT ![x.chan] = r]
    BY <1>3, <1>4, <2>2, ConstantFacts
  <2>3. CASE /\ x.at \notin AtGateStates /\ req[r].at \in AtGateStates
             /\ holder' = [holder EXCEPT ![req[r].chan] = Nobody]
    BY <1>3, <1>4, <2>3, ConstantFacts
  <2> QED BY <1>1, <2>1, <2>2, <2>3 DEF Moves, Holds
<1>6. \A c \in Gates, q \in Requests :
        holder'[c] = q => req'[q].at \in AtGateStates /\ req'[q].chan = c
  BY <1>2, <1>3, <1>5
<1>7. \A c \in Gates : holder'[c] = Main => main'.at = "in" /\ main'.chan = c
  BY <1>3, <1>5
<1>8. sess' \in [Keys -> SessType]
  BY RequestKeepsSess
<1>9. TypeOK'
  BY <1>2, <1>3, <1>5, <1>6, <1>7, <1>8 DEF TypeOK, IInv, Grows, SessType, AtGate, AtGateStates
<1>10. ReqInv'
  <2>1. ReqOK(x, gate') /\ \A k \in Keys : gate[k] # 0 => gate'[k] = gate[k]
    BY <1>1, <1>3 DEF Moves, Grows
  <2>2. \A q \in Requests \ {r} : ReqOK(req[q], gate')
    BY <1>3, <2>1 DEF ReqInv, ReqOK, Gates
  <2>3. \A q \in Requests : ReqOK(req'[q], gate')
    BY <1>2, <2>1, <2>2
  <2>4. \A q \in Requests : req'[q].at \in AtGateStates => holder'[req'[q].chan] = q
    BY <1>2, <1>3, <1>4, <1>5 DEF ReqInv, ReqOK
  <2> QED BY <2>3, <2>4 DEF ReqInv
<1>11. MainInv'
  <2>1. main.at \in {"wait", "in"} => main.key \in Keys /\ main.chan # 0
    BY <1>3 DEF MainInv, IInv, TypeOK, Gates
  <2> QED BY <1>3, <1>5, <2>1 DEF MainInv, Grows
<1> QED BY <1>9, <1>10, <1>11

LEMMA RequestKeeps ==
  ASSUME IInv, NEW r \in Requests, RequestStep(r) PROVE IInv'
<1>1. TypeOK' /\ ReqInv' /\ MainInv'
  BY RequestKeepsGates
<1>2. MapInv'
  BY DEF RequestStep, Grows, MapInv
<1>3. /\ main' = main /\ closing' = closing
      /\ MainInv /\ DrainInv /\ CloseInv
  BY DEF RequestStep, IInv
<1>4. ASSUME closing, NEW k \in Keys
      PROVE  (Quiet(k) => Quiet(k)') /\ (Closed(k) => Closed(k)')
  BY <1>4, RequestKeepsSess DEF Quiet, Closed, Calmer
<1>5. DrainInv'
  BY <1>3, <1>4 DEF DrainInv, MainInv
<1>6. CloseInv'
  BY <1>3, <1>4 DEF CloseInv, MainInv, Passed
<1> QED BY <1>1, <1>2, <1>5, <1>6, RequestKeepsSess DEF IInv
-----------------------------------------------------------------------------
(***************************************************************************)
(* Each action of a request is such a step.                                *)
(***************************************************************************)
LEMMA ReqFacts ==
  ASSUME IInv, NEW r \in Requests
  PROVE  /\ req[r] \in ReqStates /\ ReqOK(req[r], gate)
         /\ req[r].at \in AtGateStates => holder[req[r].chan] = r
         /\ sess \in [Keys -> SessType] /\ gate \in [Keys -> Gates \cup {0}]
BY DEF IInv, TypeOK, ReqInv, SessType

LEMMA CallSteps ==
  ASSUME IInv, NEW r \in Requests, NEW k \in Keys, NEW op \in KeyOps \cap OpsOf[r],
         Call(r, op, k)
  PROVE  RequestStep(r)
<1>1. Grows /\ ChanOf(k) \in Gates /\ gate'[k] = ChanOf(k)
  BY UseGateGrows DEF Call
<1>2. PICK x \in ReqStates :
        x = [at |-> "wait", op |-> op, key |-> k, chan |-> ChanOf(k), todo |-> {}]
  BY <1>1 DEF ReqStates
<1>3. Moves(r, x)
  BY <1>1, <1>2 DEF Call, Become, At, Moves, ReqOK, Holds, AtGateStates, InStates
<1> QED BY <1>1, <1>3 DEF Call, RequestStep

LEMMA CallAllSteps ==
  ASSUME IInv, NEW r \in Requests, NEW op \in AllOps \cap OpsOf[r], CallAll(r, op)
  PROVE  RequestStep(r)
<1>1. Grows
  BY GatesStay DEF CallAll
<1>2. PICK x \in ReqStates :
        x = [at |-> "next", op |-> op, key |-> NoKey, chan |-> 0,
             todo |-> {k \in Keys : sess[k].reg \/ sess[k].saved}]
  BY DEF ReqStates
<1>3. Moves(r, x)
  BY <1>2 DEF CallAll, Become, At, Moves, ReqOK, Holds, AtGateStates, InStates
<1> QED BY <1>1, <1>3 DEF CallAll, RequestStep

LEMMA IdleSteps ==
  ASSUME IInv, NEW r \in Requests, AllDone(r) \/ Cancel(r)
  PROVE  RequestStep(r)
<1>1. Grows
  BY GatesStay DEF AllDone, Cancel
<1>2. PICK x \in ReqStates : x = Idle
  BY DEF ReqStates, Idle
<1>3. Moves(r, x)
  BY <1>2 DEF AllDone, Cancel, Become, At, Moves, ReqOK, Holds, Idle, AtGateStates, InStates
<1> QED BY <1>1, <1>3 DEF AllDone, Cancel, RequestStep

LEMMA VisitSteps ==
  ASSUME IInv, NEW r \in Requests, NEW k \in Keys, Visit(r, k)
  PROVE  RequestStep(r)
<1>1. UseGate(k) /\ At(r, "next") /\ ~closing
      /\ UNCHANGED <<closing, main, sess>>
  BY DEF Visit, ListEnter, ListCached, AllWait
<1>2. Grows /\ ChanOf(k) \in Gates /\ gate'[k] = ChanOf(k)
  BY <1>1, UseGateGrows
<1>3. req[r] \in ReqStates /\ ReqOK(req[r], gate)
  BY ReqFacts
<1>4. CASE ListEnter(r, k)
  <2>1. PICK x \in ReqStates : x = [req[r] EXCEPT !.at = "in", !.key = k, !.chan = ChanOf(k)]
    BY <1>2, <1>3 DEF ReqStates
  <2>2. /\ x.at = "in" /\ x.op = req[r].op /\ x.key = k /\ x.chan = ChanOf(k)
    BY <1>3, <2>1 DEF ReqStates
  <2>3. Moves(r, x)
    BY <1>1, <1>2, <1>3, <1>4, <2>1, <2>2 DEF ListEnter, Become, At, Moves, ReqOK, Holds,
       AtGateStates, InStates
  <2> QED BY <1>1, <1>2, <2>3 DEF RequestStep
<1>5. CASE ListCached(r, k)
  <2>1. PICK x \in ReqStates : x = [req[r] EXCEPT !.todo = @ \ {k}]
    BY <1>3 DEF ReqStates
  <2>2. x.at = "next" /\ x.op = req[r].op
    BY <1>1, <1>3, <2>1 DEF ReqStates, At
  <2>3. Moves(r, x)
    BY <1>1, <1>3, <1>5, <2>1, <2>2 DEF ListCached, Become, At, Moves, ReqOK, Holds,
       AtGateStates, InStates
  <2> QED BY <1>1, <1>2, <2>3 DEF RequestStep
<1>6. CASE AllWait(r, k)
  <2>1. PICK x \in ReqStates : x = [req[r] EXCEPT !.at = "wait", !.key = k, !.chan = ChanOf(k)]
    BY <1>2, <1>3 DEF ReqStates
  <2>2. /\ x.at = "wait" /\ x.op = req[r].op /\ x.key = k /\ x.chan = ChanOf(k)
    BY <1>3, <2>1 DEF ReqStates
  <2>3. Moves(r, x)
    BY <1>1, <1>2, <1>3, <1>6, <2>1, <2>2 DEF AllWait, Become, At, Moves, ReqOK, Holds,
       AtGateStates, InStates
  <2> QED BY <1>1, <1>2, <2>3 DEF RequestStep
<1> QED BY <1>4, <1>5, <1>6 DEF Visit

LEMMA TakeSteps ==
  ASSUME IInv, NEW r \in Requests, Take(r) PROVE RequestStep(r)
<1>1. Grows
  BY GatesStay DEF Take
<1>2. req[r] \in ReqStates /\ ReqOK(req[r], gate) /\ req[r].at = "wait"
  BY ReqFacts DEF Take, At
<1>3. PICK x \in ReqStates : x = [req[r] EXCEPT !.at = "got"]
  BY <1>2 DEF ReqStates
<1>4. x.at = "got" /\ x.op = req[r].op /\ x.key = req[r].key /\ x.chan = req[r].chan
  BY <1>2, <1>3 DEF ReqStates
<1>5. Moves(r, x)
  BY <1>2, <1>3, <1>4 DEF Take, Become, Moves, ReqOK, Holds, AtGateStates, InStates
<1> QED BY <1>1, <1>5 DEF Take, RequestStep

LEMMA EnterSteps ==
  ASSUME IInv, NEW r \in Requests, Enter(r) PROVE RequestStep(r)
<1>1. Grows
  BY GatesStay DEF Enter
<1>2. req[r] \in ReqStates /\ ReqOK(req[r], gate) /\ req[r].at = "got"
  BY ReqFacts DEF Enter, At
<1>3. PICK x \in ReqStates : x = [req[r] EXCEPT !.at = "in"]
  BY <1>2 DEF ReqStates
<1>4. x.at = "in" /\ x.op = req[r].op /\ x.key = req[r].key /\ x.chan = req[r].chan
  BY <1>2, <1>3 DEF ReqStates
<1>5. Moves(r, x)
  BY <1>2, <1>3, <1>4 DEF Enter, RefusedAtGate, Become, Moves, ReqOK, Holds, AtGateStates,
     InStates
<1> QED BY <1>1, <1>5 DEF Enter, RequestStep

LEMMA CreateSteps ==
  ASSUME IInv, NEW r \in Requests, Create(r) PROVE RequestStep(r)
<1>1. Grows
  BY GatesStay DEF Create
<1>2. /\ req[r] \in ReqStates /\ ReqOK(req[r], gate) /\ req[r].at = "in"
      /\ req[r].op \in {"ensure", "acquire"} /\ req[r].key \in Keys
      /\ sess \in [Keys -> SessType]
  BY ReqFacts DEF Create, At, MustCreate, ReqOK, AtGateStates
<1>3. PICK x \in ReqStates : x = [req[r] EXCEPT !.at = "made"]
  BY <1>2 DEF ReqStates
<1>4. x.at = "made" /\ x.op = req[r].op /\ x.key = req[r].key /\ x.chan = req[r].chan
  BY <1>2, <1>3 DEF ReqStates
<1>5. Moves(r, x)
  <2>1. req' = [req EXCEPT ![r] = x] /\ UNCHANGED <<gate, holder>>
    BY <1>3 DEF Create, Become
  <2> QED BY <1>2, <1>4, <2>1 DEF Moves, ReqOK, Holds, AtGateStates, InStates
<1>6. PICK saved \in BOOLEAN :
        sess' = [sess EXCEPT ![req[r].key].cached = TRUE, ![req[r].key].saved = saved]
  BY DEF Create
<1>7. PICK t \in SessType : t = [sess[req[r].key] EXCEPT !.cached = TRUE, !.saved = saved]
  BY <1>2 DEF SessType
<1>8. Changes(r, t)
  <2>1. Shown(t)
    BY <1>2, <1>7 DEF Shown, SessType
  <2> QED BY <1>2, <1>6, <1>7, <2>1 DEF Changes, InStates
<1> QED BY <1>1, <1>5, <1>8 DEF Create, RequestStep

\* Every way out of a gate unlocks it.
LEMMA Leaving ==
  ASSUME IInv, NEW r \in Requests, req[r].at \in AtGateStates,
         Leave(r) \/ (Unlock(req[r].key, req[r].chan) /\ Become(r, Idle)),
         UNCHANGED made
  PROVE  Grows /\ \E x \in ReqStates : Moves(r, x)
<1>1. req[r] \in ReqStates /\ ReqOK(req[r], gate)
  BY ReqFacts
<1>2. PICK y \in {Left(r), Idle} : Unlock(req[r].key, req[r].chan) /\ Become(r, y)
  BY DEF Leave, PruneStops
<1>3. gate' = gate /\ holder' = [holder EXCEPT ![req[r].chan] = Nobody]
  BY <1>2 DEF Unlock, GatesAfter
<1>4. PICK x \in ReqStates :
        x = y /\ x.at \in {"idle", "next"} /\ (x.at = "next" => x.op \in AllOps)
  <2>1. CASE y = Idle
    <3>1. PICK z \in ReqStates : z = Idle /\ z.at = "idle"
      BY DEF ReqStates, Idle
    <3> QED BY <2>1, <3>1
  <2>2. CASE y = Left(r) /\ req[r].op \in AllOps
    <3>1. PICK z \in ReqStates :
            z = [req[r] EXCEPT !.at = "next", !.key = NoKey, !.chan = 0,
                               !.todo = @ \ {req[r].key}]
      BY <1>1 DEF ReqStates
    <3>2. z.at = "next" /\ z.op = req[r].op
      BY <1>1, <3>1 DEF ReqStates
    <3> QED BY <2>2, <3>1, <3>2 DEF Left
  <2> QED BY <1>2, <2>1, <2>2 DEF Left
<1>5. x.at \notin AtGateStates \cup {"wait"} \cup InStates
  BY <1>4 DEF AtGateStates, InStates
<1>6. Moves(r, x)
  BY <1>2, <1>3, <1>4, <1>5 DEF Become, Moves, ReqOK, Holds
<1> QED BY <1>3, <1>6, GatesStay

LEMMA RefuseSteps ==
  ASSUME IInv, NEW r \in Requests, Refuse(r) PROVE RequestStep(r)
<1>1. Grows /\ \E x \in ReqStates : Moves(r, x)
  BY Leaving DEF Refuse, At, AtGateStates
<1> QED BY <1>1 DEF Refuse, RequestStep

LEMMA WorkSteps ==
  ASSUME IInv, NEW r \in Requests, Work(r) PROVE RequestStep(r)
<1>1. Grows /\ \E x \in ReqStates : Moves(r, x)
  BY Leaving DEF Work, At, AtGateStates
<1>2. /\ req[r].at = "in" /\ req[r].key \in Keys /\ req[r].op \in KeyOps \cup AllOps
      /\ sess[req[r].key] \in SessType
  BY ReqFacts DEF Work, At, ReqOK, AtGateStates
<1>3. PICK t \in Outcomes(req[r].op, sess[req[r].key]) :
        sess' = [sess EXCEPT ![req[r].key] = t]
  BY DEF Work
<1>4. t \in SessType /\ Changes(r, t)
  BY <1>2, <1>3, OutcomeFacts DEF Changes, InStates
<1> QED BY <1>1, <1>4 DEF Work, RequestStep

LEMMA PutSteps ==
  ASSUME IInv, NEW r \in Requests, Put(r) PROVE RequestStep(r)
<1>1. Grows /\ \E x \in ReqStates : Moves(r, x)
  BY Leaving DEF Put, At, AtGateStates
<1>2. /\ req[r].at = "made" /\ req[r].key \in Keys /\ req[r].op \in {"ensure", "acquire"}
      /\ sess[req[r].key] \in SessType
  BY ReqFacts DEF Put, At, ReqOK, AtGateStates
<1>3. PICK t \in SessType : /\ sess' = [sess EXCEPT ![req[r].key] = t]
                            /\ Shown(sess[req[r].key]) => Shown(t)
  <2> DEFINE s == sess[req[r].key]
  <2> DEFINE Later == {u \in SessType : Shown(s) => Shown(u)}
  <2>1. Registered(s) \in SessType /\ Shown(Registered(s))
    BY <1>2 DEF SessType, Registered, Shown
  <2>2. Grant(Registered(s)) \subseteq Later
    BY <2>1 DEF SessType, Grant, Busy, Shown
  <2> DEFINE T == {s} \cup (IF s.saved
                            THEN IF req[r].op = "acquire" THEN Grant(Registered(s))
                                 ELSE {Registered(s)}
                            ELSE {})
  <2>3. T \subseteq Later
    BY <1>2, <2>1, <2>2
  <2>4. \E t \in T : sess' = [sess EXCEPT ![req[r].key] = t]
    BY Zenon DEF Put
  <2> QED BY <2>3, <2>4
<1>4. Changes(r, t)
  BY <1>2, <1>3 DEF Changes, InStates
<1> QED BY <1>1, <1>4 DEF Put, RequestStep
-----------------------------------------------------------------------------
(***************************************************************************)
(* The other steps.                                                        *)
(***************************************************************************)
LEMMA InitInv == ASSUME Init PROVE IInv
<1> USE DEF Init
<1>1. TypeOK
  <2>1. Idle \in ReqStates /\ Idle.at = "idle"
    BY DEF Idle, ReqStates
  <2>2. sess \in [Keys -> SessType]
    <3>1. \A b \in BOOLEAN : [Unknown EXCEPT !.saved = b] \in SessType
      BY DEF Unknown, SessType, Busy
    <3>2. \A k \in Keys : (k \in Restorable) \in BOOLEAN
      OBVIOUS
    <3>3. \A k \in Keys : [Unknown EXCEPT !.saved = k \in Restorable] \in SessType
      BY <3>1, <3>2
    <3> QED BY <3>3
  <2>3. made \in 0 .. MaxGates
    BY ConstantFacts
  <2> QED BY <2>1, <2>2, <2>3, ConstantFacts DEF TypeOK, SessType
<1>2. MapInv /\ ReqInv /\ MainInv
  BY DEF MapInv, ReqInv, ReqOK, MainInv, Idle, AtGateStates
<1>3. DrainInv /\ CloseInv /\ CacheInv
  BY DEF DrainInv, CloseInv, Passed, CacheInv, Shown, Unknown
<1> QED BY <1>1, <1>2, <1>3 DEF IInv

LEMMA OwnerDiesKeeps ==
  ASSUME IInv, NEW k \in Keys, OwnerDies(k) PROVE IInv'
<1> USE DEF IInv
<1>1. /\ sess' = [sess EXCEPT ![k].busy = "dead"]
      /\ UNCHANGED <<closing, gate, made, holder, req, main>>
      /\ sess \in [Keys -> SessType]
  BY DEF OwnerDies, TypeOK, SessType
<1>2. PICK t \in SessType : t = [sess[k] EXCEPT !.busy = "dead"]
  BY <1>1 DEF SessType, Busy
<1>3. t.reg = sess[k].reg /\ t.cached = sess[k].cached /\ t.busy = "dead"
  BY <1>1, <1>2 DEF SessType
<1>4. /\ sess' \in [Keys -> SessType] /\ sess'[k] = t
      /\ \A j \in Keys \ {k} : sess'[j] = sess[j]
  BY <1>1, <1>2
<1>5. TypeOK'
  BY <1>1, <1>4 DEF TypeOK, SessType, AtGate
<1>6. MapInv' /\ ReqInv' /\ MainInv'
  BY <1>1 DEF MapInv, ReqInv, MainInv
<1>7. \A j \in Keys : (Quiet(j) => Quiet(j)') /\ (Closed(j) => Closed(j)')
  BY <1>1, <1>3, <1>4 DEF Quiet, Closed, OnlyReleases
<1>8. CacheInv'
  BY <1>3, <1>4 DEF CacheInv, Shown
<1> QED BY <1>1, <1>5, <1>6, <1>7, <1>8 DEF DrainInv, CloseInv, Passed

MainType == [at : {"serve", "poll", "drain", "close", "wait", "in", "stopped"},
             todo : SUBSET Keys, key : Keys \cup {NoKey}, chan : Gates \cup {0},
             pending : BOOLEAN]

\* The invariant but for what it says of the shutdown goroutine, when that
\* takes a step without a gate: only the map of gates may grow.
LEMMA MainStepKeeps ==
  ASSUME IInv, Grows, NEW m \in MainType, main' = m, main.at # "in", m.at # "in",
         UNCHANGED <<holder, sess, req>>, closing' \in BOOLEAN,
         m.at # "serve" => closing',
         m.at = "wait" => m.key \in m.todo /\ m.chan \in Gates /\ gate'[m.key] = m.chan
  PROVE  TypeOK' /\ MapInv' /\ ReqInv' /\ MainInv' /\ CacheInv'
<1> USE DEF IInv
<1>1. \A c \in Gates : holder[c] # Main
  BY DEF TypeOK
<1>2. TypeOK'
  <2>1. \A c \in Gates, r \in Requests : holder[c] = r =>
           req[r].at \in AtGateStates /\ req[r].chan = c
    BY DEF TypeOK, AtGate, AtGateStates
  <2> QED BY <1>1, <2>1 DEF TypeOK, Grows, MainType, AtGate, AtGateStates
<1>3. MapInv'
  BY DEF MapInv, Grows
<1>4. ReqInv'
  <2>1. \A r \in Requests : ReqOK(req[r], gate')
    BY DEF ReqInv, ReqOK, Grows, Gates
  <2> QED BY <2>1 DEF ReqInv
<1>5. MainInv'
  BY DEF MainInv
<1>6. CacheInv'
  BY DEF CacheInv
<1> QED BY <1>2, <1>3, <1>4, <1>5, <1>6

LEMMA SignalKeeps == ASSUME IInv, Signal PROVE IInv'
<1> USE DEF IInv
<1>1. PICK m \in MainType : m = [main EXCEPT !.at = "poll"]
  BY DEF TypeOK, MainType
<1>2. /\ main' = m /\ m.at = "poll" /\ main.at = "serve" /\ closing' = TRUE
      /\ UNCHANGED <<gate, made, holder, sess, req>>
  BY <1>1 DEF Signal, TypeOK
<1>3. TypeOK' /\ MapInv' /\ ReqInv' /\ MainInv' /\ CacheInv'
  BY <1>2, GatesStay, MainStepKeeps
<1> QED BY <1>2, <1>3 DEF DrainInv, CloseInv, Passed

\* A key that nobody uses is quiet and has no session.
LEMMA UnusedKeys ==
  ASSUME IInv, NEW k \in Keys, k \notin OperationKeys PROVE Closed(k) /\ Quiet(k)
<1>1. gate[k] = 0 /\ ~sess[k].reg
  BY DEF OperationKeys
<1>2. OnlyReleases(k)
  BY <1>1 DEF IInv, ReqInv, ReqOK, OnlyReleases, InStates, AtGateStates, Gates
<1> QED BY <1>1, <1>2 DEF Closed, Quiet

LEMMA PollKeeps == ASSUME IInv, Poll PROVE IInv'
<1>1. PICK m \in MainType :
        m = [main EXCEPT !.at = "drain", !.todo = OperationKeys, !.pending = FALSE]
  BY DEF IInv, TypeOK, MainType, OperationKeys
<1>2. /\ main' = m /\ m.at = "drain" /\ m.todo = OperationKeys /\ main.at = "poll"
      /\ UNCHANGED <<closing, gate, made, holder, sess, req>>
  BY <1>1 DEF Poll, IInv, TypeOK
<1>3. closing \in BOOLEAN /\ closing
  BY <1>2 DEF IInv, TypeOK, MainInv
<1>4. TypeOK' /\ MapInv' /\ ReqInv' /\ MainInv' /\ CacheInv'
  BY <1>2, <1>3, GatesStay, MainStepKeeps
<1>5. \A k \in Keys \ m.todo : Quiet(k)'
  BY <1>2, UnusedKeys DEF Quiet, OnlyReleases
<1> QED BY <1>2, <1>4, <1>5 DEF IInv, DrainInv, CloseInv, Passed

LEMMA PollKeyKeeps ==
  ASSUME IInv, NEW k \in Keys, PollKey(k) PROVE IInv'
<1>1. PICK m \in MainType : m = [main EXCEPT !.todo = @ \ {k}, !.pending = @ \/ KeyPending(k)]
  <2>1. (main.pending \/ KeyPending(k)) \in BOOLEAN /\ main \in MainType
    BY DEF IInv, TypeOK, MainType
  <2> QED BY <2>1 DEF MainType
<1>2. /\ main' = m /\ m.at = "drain" /\ m.todo = main.todo \ {k} /\ main.at = "drain"
      /\ ~m.pending => ~main.pending /\ ~KeyPending(k)
      /\ UNCHANGED <<closing, holder, sess, req>> /\ UseGate(k)
  BY <1>1 DEF PollKey, IInv, TypeOK
<1>3. closing \in BOOLEAN /\ closing /\ Grows
  BY <1>2, UseGateGrows DEF IInv, TypeOK, MainInv
<1>4. TypeOK' /\ MapInv' /\ ReqInv' /\ MainInv' /\ CacheInv'
  BY <1>2, <1>3, MainStepKeeps
<1>5. ~KeyPending(k) => Quiet(k)
  <2>1. ASSUME holder[ChanOf(k)] = Nobody, NEW r \in Requests, req[r].at \in InStates,
               req[r].key = k
        PROVE  FALSE
    <3>1. holder[gate[k]] = r /\ gate[k] # 0
      BY <2>1 DEF IInv, ReqInv, ReqOK, InStates, AtGateStates, Gates
    <3> QED BY <2>1, <3>1, ConstantFacts DEF ChanOf
  <2> QED BY <2>1 DEF KeyPending, Quiet, OnlyReleases
<1>6. ~m.pending => \A j \in Keys \ m.todo : Quiet(j)
  BY <1>2, <1>5 DEF IInv, DrainInv
<1>7. DrainInv'
  BY <1>2, <1>6 DEF DrainInv, Quiet, OnlyReleases
<1>8. CloseInv'
  BY <1>2 DEF CloseInv, Passed
<1> QED BY <1>4, <1>7, <1>8 DEF IInv

LEMMA BeginCloseKeeps ==
  ASSUME IInv, Drained \/ DrainTimeout PROVE IInv'
<1>1. PICK m \in MainType :
        m = [main EXCEPT !.at = "close", !.todo = OperationKeys, !.pending = FALSE]
  BY DEF IInv, TypeOK, MainType, OperationKeys
<1>2. /\ main' = m /\ m.at = "close" /\ m.todo = OperationKeys /\ main.at = "drain"
      /\ UNCHANGED <<closing, gate, made, holder, sess, req>>
  BY <1>1 DEF Drained, DrainTimeout, BeginClose, IInv, TypeOK
<1>3. closing \in BOOLEAN /\ closing
  BY <1>2 DEF IInv, TypeOK, MainInv
<1>4. TypeOK' /\ MapInv' /\ ReqInv' /\ MainInv' /\ CacheInv'
  BY <1>2, <1>3, GatesStay, MainStepKeeps
<1>5. \A k \in Keys \ m.todo : Closed(k)'
  BY <1>2, UnusedKeys DEF Closed, OnlyReleases
<1> QED BY <1>2, <1>4, <1>5 DEF IInv, DrainInv, CloseInv, Passed

LEMMA PollAgainKeeps == ASSUME IInv, PollAgain PROVE IInv'
<1>1. PICK m \in MainType : m = [main EXCEPT !.at = "poll"]
  BY DEF IInv, TypeOK, MainType
<1>2. /\ main' = m /\ m.at = "poll" /\ main.at = "drain"
      /\ UNCHANGED <<closing, gate, made, holder, sess, req>>
  BY <1>1 DEF PollAgain, IInv, TypeOK
<1>3. closing \in BOOLEAN /\ closing
  BY <1>2 DEF IInv, TypeOK, MainInv
<1>4. TypeOK' /\ MapInv' /\ ReqInv' /\ MainInv' /\ CacheInv'
  BY <1>2, <1>3, GatesStay, MainStepKeeps
<1> QED BY <1>2, <1>4 DEF IInv, DrainInv, CloseInv, Passed

LEMMA StopKeeps == ASSUME IInv, Stop PROVE IInv'
<1>1. PICK m \in MainType : m = [main EXCEPT !.at = "stopped"]
  BY DEF IInv, TypeOK, MainType
<1>2. /\ main' = m /\ m.at = "stopped" /\ main.at = "close" /\ main.todo = {}
      /\ UNCHANGED <<closing, gate, made, holder, sess, req>>
  BY <1>1 DEF Stop, IInv, TypeOK
<1>3. closing \in BOOLEAN /\ closing
  BY <1>2 DEF IInv, TypeOK, MainInv
<1>4. TypeOK' /\ MapInv' /\ ReqInv' /\ MainInv' /\ CacheInv'
  BY <1>2, <1>3, GatesStay, MainStepKeeps
<1>5. \A k \in Keys : Closed(k)'
  BY <1>2 DEF IInv, CloseInv, Passed, Closed, OnlyReleases
<1> QED BY <1>2, <1>4, <1>5 DEF IInv, DrainInv, CloseInv

LEMMA CloseNextKeeps ==
  ASSUME IInv, NEW k \in Keys, CloseNext(k) PROVE IInv'
<1>1. Grows /\ ChanOf(k) \in Gates /\ gate'[k] = ChanOf(k)
  BY UseGateGrows DEF CloseNext
<1>2. PICK m \in MainType : m = [main EXCEPT !.at = "wait", !.key = k, !.chan = ChanOf(k)]
  BY <1>1 DEF IInv, TypeOK, MainType
<1>3. /\ main' = m /\ m.at = "wait" /\ m.todo = main.todo /\ m.key = k
      /\ m.chan = ChanOf(k) /\ main.at = "close" /\ k \in main.todo
      /\ UNCHANGED <<closing, holder, sess, req>>
  BY <1>2 DEF CloseNext, IInv, TypeOK
<1>4. closing \in BOOLEAN /\ closing
  BY <1>3 DEF IInv, TypeOK, MainInv
<1>5. TypeOK' /\ MapInv' /\ ReqInv' /\ MainInv' /\ CacheInv'
  BY <1>1, <1>3, <1>4, MainStepKeeps
<1>6. \A j \in Keys \ m.todo : Closed(j)'
  BY <1>3 DEF IInv, CloseInv, Passed, Closed, OnlyReleases
<1> QED BY <1>3, <1>5, <1>6 DEF IInv, DrainInv, CloseInv, Passed

LEMMA CloseTakeKeeps == ASSUME IInv, CloseTake PROVE IInv'
<1>1. PICK m \in MainType : m = [main EXCEPT !.at = "in"]
  BY DEF IInv, TypeOK, MainType
<1>2. /\ main' = m /\ m.at = "in" /\ m.todo = main.todo /\ m.key = main.key
      /\ m.chan = main.chan /\ main.at = "wait"
      /\ holder[main.chan] = Nobody /\ holder' = [holder EXCEPT ![main.chan] = Main]
      /\ UNCHANGED <<closing, gate, made, sess, req>>
  BY <1>1 DEF CloseTake, IInv, TypeOK
<1>3. /\ main.chan \in Gates /\ gate[main.key] = main.chan /\ main.key \in main.todo
      /\ holder \in [Gates -> Requests \cup {Main, Nobody}] /\ ReqInv /\ closing
      /\ \A c \in Gates, r \in Requests :
           holder[c] = r => req[r].at \in AtGateStates /\ req[r].chan = c
      /\ \A c \in Gates : holder[c] # Main
  BY <1>2 DEF IInv, MainInv, TypeOK, AtGate, AtGateStates
<1>4. /\ holder' \in [Gates -> Requests \cup {Main, Nobody}]
      /\ \A c \in Gates : holder'[c] = Main => c = main.chan
      /\ \A c \in Gates, r \in Requests : holder'[c] = r <=> holder[c] = r
      /\ holder'[main.chan] = Main
  BY <1>2, <1>3, ConstantFacts
<1>5. TypeOK'
  BY <1>2, <1>3, <1>4 DEF IInv, TypeOK, MainType, AtGate, AtGateStates
<1>6. MapInv' /\ MainInv' /\ CacheInv'
  BY <1>2, <1>3, <1>4 DEF IInv, MapInv, MainInv, CacheInv
<1>7. ReqInv'
  BY <1>2, <1>3, <1>4 DEF ReqInv, ReqOK
<1>8. \A j \in Keys \ m.todo : Closed(j)'
  BY <1>2 DEF IInv, CloseInv, Passed, Closed, OnlyReleases
<1> QED BY <1>2, <1>5, <1>6, <1>7, <1>8 DEF IInv, DrainInv, CloseInv, Passed

LEMMA CloseKeyKeeps == ASSUME IInv, CloseKey PROVE IInv'
<1> DEFINE k == main.key
<1>1. PICK m \in MainType : m = [main EXCEPT !.at = "close", !.key = NoKey, !.chan = 0,
                                             !.todo = @ \ {main.key}]
  BY DEF IInv, TypeOK, MainType
<1>2. /\ main' = m /\ m.at = "close" /\ m.todo = main.todo \ {k} /\ main.at = "in"
      /\ holder' = [holder EXCEPT ![main.chan] = Nobody]
      /\ UNCHANGED <<closing, gate, made, req>>
  BY <1>1 DEF CloseKey, Unlock, GatesAfter, IInv, TypeOK
<1>3. /\ main.chan \in Gates /\ gate[k] = main.chan /\ k \in main.todo /\ k \in Keys
      /\ holder[main.chan] = Main
      /\ holder \in [Gates -> Requests \cup {Main, Nobody}] /\ ReqInv /\ closing
      /\ sess \in [Keys -> SessType]
      /\ \A c \in Gates, r \in Requests :
           holder[c] = r => req[r].at \in AtGateStates /\ req[r].chan = c
      /\ \A c \in Gates : holder[c] = Main => c = main.chan
  BY <1>2 DEF IInv, MainInv, TypeOK, AtGate, AtGateStates, SessType
<1>4. /\ holder' \in [Gates -> Requests \cup {Main, Nobody}]
      /\ \A c \in Gates : holder'[c] # Main
      /\ \A c \in Gates, r \in Requests : holder'[c] = r <=> holder[c] = r
  BY <1>2, <1>3, ConstantFacts
<1>5. /\ sess' \in [Keys -> SessType] /\ ~sess'[k].reg
      /\ \A j \in Keys \ {k} : sess'[j] = sess[j]
  <2> DEFINE u == [sess[k] EXCEPT !.reg = FALSE, !.cached = FALSE]
  <2>1. PICK t \in SessType : ~t.reg /\ t = (IF sess[k].reg THEN u ELSE sess[k])
    <3>1. sess[k] \in SessType
      BY <1>3
    <3>2. \A v \in SessType : /\ [v EXCEPT !.reg = FALSE, !.cached = FALSE] \in SessType
                              /\ ~[v EXCEPT !.reg = FALSE, !.cached = FALSE].reg
      BY DEF SessType
    <3>3. u \in SessType /\ ~u.reg
      BY <3>1, <3>2
    <3> QED BY <3>1, <3>3
  <2>2. sess' = [sess EXCEPT ![k] = t]
    BY <1>3, <2>1 DEF CloseKey
  <2> QED BY <1>3, <2>1, <2>2
<1>6. TypeOK'
  BY <1>2, <1>3, <1>4, <1>5 DEF IInv, TypeOK, MainType, SessType, AtGate, AtGateStates
<1>7. MapInv' /\ MainInv' /\ CacheInv'
  BY <1>2, <1>3, <1>5 DEF IInv, MapInv, MainInv, CacheInv, Shown
<1>8. ReqInv'
  BY <1>2, <1>3, <1>4 DEF ReqInv, ReqOK
<1>9. OnlyReleases(k)
  BY <1>3, ConstantFacts DEF OnlyReleases, ReqInv, ReqOK, InStates, AtGateStates
<1>10. \A j \in Keys \ m.todo : Closed(j)'
  <2>1. ASSUME NEW j \in Keys \ m.todo PROVE ~sess'[j].reg /\ OnlyReleases(j)
    BY <1>2, <1>5, <1>9 DEF IInv, CloseInv, Passed, Closed
  <2> QED BY <1>2, <2>1 DEF Closed, OnlyReleases
<1> QED BY <1>2, <1>6, <1>7, <1>8, <1>10 DEF IInv, DrainInv, CloseInv, Passed

LEMMA StepKeeps == ASSUME IInv, [Next]_vars PROVE IInv'
<1>1. CASE UNCHANGED vars
  BY <1>1 DEF vars, IInv, TypeOK, MapInv, ReqInv, MainInv, DrainInv, CloseInv, Passed,
     CacheInv, Quiet, Closed, OnlyReleases, AtGate, KeyPending, ChanOf
<1>2. ASSUME NEW r \in Requests,
             \/ \E k \in Keys, op \in KeyOps \cap OpsOf[r] : Call(r, op, k)
             \/ \E op \in AllOps \cap OpsOf[r] : CallAll(r, op)
             \/ Cancel(r) \/ Take(r) \/ Serve(r)
      PROVE  IInv'
  <2>1. RequestStep(r)
    BY <1>2, CallSteps, CallAllSteps, IdleSteps, VisitSteps, TakeSteps, EnterSteps,
       CreateSteps, RefuseSteps, WorkSteps, PutSteps DEF Serve
  <2> QED BY <2>1, RequestKeeps
<1>3. CASE Signal \/ Shutdown \/ DrainTimeout
  BY <1>3, SignalKeeps, PollKeeps, PollKeyKeeps, BeginCloseKeeps, PollAgainKeeps, StopKeeps,
     CloseNextKeeps, CloseTakeKeeps, CloseKeyKeeps DEF Shutdown
<1>4. CASE \E k \in Keys : OwnerDies(k)
  BY <1>4, OwnerDiesKeeps
<1> QED BY <1>1, <1>2, <1>3, <1>4 DEF Next
-----------------------------------------------------------------------------
(***************************************************************************)
(* The theorems.                                                           *)
(***************************************************************************)
\* The inductive invariant: one channel for each key, everyone at the channel
\* of its key, and only releases past a gate of a key that is quiet or closed.
THEOREM Invariance == Spec => []IInv
<1>1. Init => IInv
  BY InitInv
<1>2. IInv /\ [Next]_vars => IInv'
  BY StepKeeps
<1> QED BY <1>1, <1>2, PTL DEF Spec

\* The types, and no gate is left locked (lockSessionDuringDrain and every
\* return after it).
THEOREM TypeCorrect == Spec => []TypeOK
<1>1. IInv => TypeOK
  BY DEF IInv
<1> QED BY <1>1, Invariance, PTL

\* Mutual exclusion by session key, of requests and closeSessions.
THEOREM GatesExclude == Spec => []GateExclusive
<1>1. ASSUME IInv PROVE GateExclusive
  <2>1. ASSUME NEW r \in Requests, Inside(r)
        PROVE  holder[gate[req[r].key]] = r /\ holder[gate[req[r].key]] # Main
    BY <1>1, <2>1, ConstantFacts DEF IInv, ReqInv, ReqOK, Inside, AtGateStates
  <2>2. main.at = "in" => holder[gate[main.key]] = Main
    BY <1>1 DEF IInv, MainInv
  <2> QED BY <2>1, <2>2 DEF GateExclusive
<1> QED BY <1>1, Invariance, PTL

\* No session appears behind closeSessions.
THEOREM ClosesForGood == Spec => []ClosedForGood
<1>1. ASSUME IInv PROVE ClosedForGood
  BY <1>1 DEF IInv, CloseInv, Closed, OnlyReleases, ClosedForGood, Inside, InStates
<1> QED BY <1>1, Invariance, PTL

\* drainMutations returns before its deadline only when nobody mutates.
THEOREM DrainsQuietly == Spec => QuietDrain
<1>1. ASSUME IInv, Next, main.at = "drain", main'.at = "close", ~main.pending
      PROVE  /\ \A k \in Keys : sess[k].reg => sess[k].busy # "live"
             /\ \A r \in Requests : Inside(r) => req[r].op = "release"
  <2>1. main.todo = {}
    <3>1. main' # main /\ main \in MainType
      BY <1>1 DEF IInv, TypeOK, MainType
    <3>2. \A r \in Requests : ~RequestStep(r)
      BY <3>1 DEF RequestStep
    <3>3. \A r \in Requests :
            /\ \A k \in Keys, op \in KeyOps \cap OpsOf[r] : ~Call(r, op, k)
            /\ \A op \in AllOps \cap OpsOf[r] : ~CallAll(r, op)
            /\ ~Cancel(r) /\ ~Take(r) /\ ~Serve(r)
      BY <1>1, <3>2, CallSteps, CallAllSteps, IdleSteps, VisitSteps, TakeSteps, EnterSteps,
         CreateSteps, RefuseSteps, WorkSteps, PutSteps DEF Serve
    <3>4. Signal \/ Shutdown \/ DrainTimeout
      BY <1>1, <3>1, <3>3 DEF Next, OwnerDies
    <3>5. \A k \in Keys : ~PollKey(k)
      BY <1>1, <3>1 DEF PollKey, MainType
    <3> QED BY <1>1, <3>4, <3>5 DEF Signal, Shutdown, Poll, Drained, CloseTake, CloseKey, Stop,
               PollAgain, CloseNext, DrainTimeout
  <2>2. \A k \in Keys : Quiet(k)
    BY <1>1, <2>1 DEF IInv, DrainInv
  <2>3. \A r \in Requests : Inside(r) => req[r].key \in Keys
    BY <1>1 DEF IInv, ReqInv, ReqOK, Inside, AtGateStates
  <2> QED BY <2>2, <2>3 DEF Quiet, OnlyReleases, Inside, InStates
<1>2. IInv /\ [Next]_vars =>
        [main.at = "drain" /\ main.at' = "close" /\ ~main.pending =>
           /\ \A k \in Keys : sess[k].reg => sess[k].busy # "live"
           /\ \A r \in Requests : Inside(r) => req[r].op = "release"]_vars
  BY <1>1
<1> QED BY <1>2, Invariance, PTL DEF Spec, QuietDrain

\* list never waits behind a command that uses a registered session.
THEOREM ListAnswers == Spec => ListWaitsOnlyForNew
<1>1. ASSUME IInv, Next, NEW r \in Requests, req[r].op = "list", req[r].at = "next",
             req'[r].at = "wait"
      PROVE  ~sess[req'[r].key].reg
  <2>1. /\ req \in [Requests -> ReqStates] /\ sess \in [Keys -> SessType] /\ CacheInv
    BY <1>1 DEF IInv, TypeOK, SessType
  <2>2. ASSUME NEW q \in Requests, NEW x, Become(q, x) PROVE q = r /\ x.at = "wait"
    <3>1. req'[q] = x /\ \A p \in Requests \ {q} : req'[p] = req[p]
      BY <2>1, <2>2 DEF Become
    <3> QED BY <1>1, <3>1
  <2>3. PICK k \in Keys : AllWait(r, k)
    <3>1. req' # req
      BY <1>1
    <3>2. PICK q \in Requests :
            \/ \E k \in Keys, op \in KeyOps \cap OpsOf[q] : Call(q, op, k)
            \/ \E op \in AllOps \cap OpsOf[q] : CallAll(q, op)
            \/ Cancel(q) \/ Take(q) \/ Serve(q)
      BY <1>1, <3>1 DEF Next, Signal, Shutdown, DrainTimeout, OwnerDies, Poll, Drained,
         CloseTake, CloseKey, Stop, PollAgain, PollKey, CloseNext
    <3>3. q = r
      BY <2>2, <3>2 DEF Call, CallAll, Cancel, Take, Serve, AllDone, Refuse, Enter, Create,
         Work, Put, Visit, ListEnter, ListCached, AllWait, Leave, PruneStops
    <3>4. ~Become(r, Idle)
      BY <2>2 DEF Idle
    <3>5. PICK k \in Keys : Visit(r, k)
      BY <1>1, <3>2, <3>3, <3>4 DEF Call, CallAll, Cancel, Take, Serve, AllDone, Refuse, Enter,
         Create, Work, Put, At
    <3>6. ~ListEnter(r, k)
      <4>1. [req[r] EXCEPT !.at = "in", !.key = k, !.chan = ChanOf(k)].at = "in"
        BY <2>1 DEF ReqStates
      <4> QED BY <2>2, <4>1 DEF ListEnter
    <3>7. ~ListCached(r, k)
      <4>1. [req[r] EXCEPT !.todo = @ \ {k}].at = "next"
        BY <1>1, <2>1 DEF ReqStates
      <4> QED BY <2>2, <4>1 DEF ListCached
    <3> QED BY <3>5, <3>6, <3>7 DEF Visit
  <2>4. ~sess[k].cached
    BY <1>1, <2>3 DEF AllWait
  <2>5. req'[r].key = k
    <3>1. req'[r] = [req[r] EXCEPT !.at = "wait", !.key = k, !.chan = ChanOf(k)]
      BY <2>1, <2>3 DEF AllWait, Become
    <3> QED BY <2>1, <3>1 DEF ReqStates
  <2> QED BY <2>1, <2>4, <2>5 DEF CacheInv, Shown
<1>2. IInv /\ [Next]_vars =>
        [\A r \in Requests :
           req[r].op = "list" /\ req[r].at = "next" /\ req'[r].at = "wait" =>
             ~sess[req'[r].key].reg]_vars
  BY <1>1
<1> QED BY <1>2, Invariance, PTL DEF Spec, ListWaitsOnlyForNew
-----------------------------------------------------------------------------
(***************************************************************************)
(* The gate of one key.                                                    *)
(***************************************************************************)
In(r, k) == Inside(r) /\ req[r].key = k

\* Who is behind the gate of k, as KeyGate sees it.
InsideOf(k) ==
  IF main.at = "in" /\ main.key = k THEN "shutdown"
  ELSE IF \E r \in Requests : In(r, k)
       THEN IF \E r \in Requests : In(r, k) /\ req[r].op = "release"
            THEN "release" ELSE "request"
       ELSE "none"

Gate(k) == INSTANCE KeyGate WITH inside <- InsideOf(k)

\* Exclusion, in the words of the gate.
LEMMA Alone ==
  ASSUME GateExclusive, NEW k, NEW r \in Requests, In(r, k)
  PROVE  /\ ~(main.at = "in" /\ main.key = k)
         /\ \A q \in Requests \ {r} : ~In(q, k)
BY DEF GateExclusive, In

\* A request that moves goes in, comes out, or stays where it is.
LEMMA RequestRefines ==
  ASSUME IInv, IInv', GateExclusive, GateExclusive', NEW k \in Keys,
         NEW r \in Requests, RequestStep(r)
  PROVE  [Gate(k)!Next]_(Gate(k)!vars)
<1>1. PICK x \in ReqStates : Moves(r, x)
  BY DEF RequestStep
<1>2. /\ req'[r] = x /\ \A q \in Requests \ {r} : req'[q] = req[q]
      /\ UNCHANGED <<closing, main>>
  BY <1>1 DEF RequestStep, Moves, IInv, TypeOK
<1>3. \A q \in Requests \ {r} : In(q, k)' <=> In(q, k)
  BY <1>2 DEF In, Inside
<1>4. CASE In(r, k) /\ In(r, k)'
  <2>1. x.op = req[r].op
    BY <1>1, <1>2, <1>4 DEF In, Inside, Moves, InStates
  <2> QED BY <1>2, <1>3, <1>4, <2>1 DEF InsideOf, Gate!vars
<1>5. CASE In(r, k) /\ ~In(r, k)'
  <2>1. ~\E q \in Requests : In(q, k)'
    BY <1>3, <1>5, Alone
  <2>2. InsideOf(k)' = "none"
    BY <1>2, <1>5, <2>1, Alone DEF InsideOf
  <2> QED BY <1>2, <2>2 DEF Gate!Next, Gate!Leave
<1>6. CASE ~In(r, k) /\ In(r, k)'
  <2>1. ~(main.at = "in" /\ main.key = k)' /\ \A q \in Requests \ {r} : ~In(q, k)'
    BY <1>6 DEF GateExclusive, In
  <2>2. InsideOf(k) = "none"
    BY <1>2, <1>3, <1>6, <2>1 DEF InsideOf
  <2>3. closing => x.op = "release"
    BY <1>1, <1>2, <1>6 DEF In, Inside, Moves, InStates
  <2>4. InsideOf(k)' = IF x.op = "release" THEN "release" ELSE "request"
    BY <1>2, <1>6, <2>1 DEF InsideOf
  <2> QED BY <1>2, <2>2, <2>3, <2>4 DEF Gate!Next, Gate!Enter, Gate!Works
<1>7. CASE ~In(r, k) /\ ~In(r, k)'
  BY <1>2, <1>3, <1>7 DEF InsideOf, Gate!vars
<1> QED BY <1>4, <1>5, <1>6, <1>7

\* The shutdown goes in when the daemon closes; nothing else moves anyone.
LEMMA MainRefines ==
  ASSUME IInv, IInv', GateExclusive, GateExclusive', NEW k \in Keys,
         \/ Signal \/ Shutdown \/ DrainTimeout \/ \E j \in Keys : OwnerDies(j)
  PROVE  [Gate(k)!Next]_(Gate(k)!vars)
<1>1. UNCHANGED req
  BY DEF Signal, Shutdown, Poll, Drained, BeginClose, CloseTake, CloseKey, Stop, PollAgain,
     PollKey, CloseNext, DrainTimeout, OwnerDies
<1>2. \A r \in Requests : In(r, k)' <=> In(r, k)
  BY <1>1 DEF In, Inside
<1>3. main \in MainType /\ main' \in MainType
  BY DEF IInv, TypeOK, MainType
<1>4. CASE CloseTake
  <2>1. /\ main.at = "wait" /\ main'.at = "in" /\ main'.key = main.key
        /\ UNCHANGED closing /\ closing
    BY <1>3, <1>4 DEF CloseTake, IInv, MainInv, MainType
  <2>2. CASE main.key = k
    <3>1. InsideOf(k)' = "shutdown"
      BY <2>1, <2>2 DEF InsideOf
    <3>2. \A r \in Requests : ~In(r, k)'
      BY <2>1, <2>2 DEF GateExclusive, In
    <3>3. InsideOf(k) = "none"
      BY <1>2, <2>1, <3>2 DEF InsideOf
    <3> QED BY <2>1, <3>1, <3>3 DEF Gate!Next, Gate!Enter, Gate!Works
  <2>3. CASE main.key # k
    BY <1>1, <1>2, <2>1, <2>3 DEF InsideOf, Gate!vars
  <2> QED BY <2>2, <2>3
<1>5. CASE CloseKey
  <2>1. /\ main.at = "in" /\ main'.at = "close" /\ UNCHANGED closing
    BY <1>3, <1>5 DEF CloseKey, MainType
  <2>2. CASE main.key = k
    <3>1. \A r \in Requests : ~In(r, k)'
      BY <1>2, <2>1, <2>2, Alone
    <3>2. InsideOf(k)' = "none"
      BY <2>1, <3>1 DEF InsideOf
    <3> QED BY <2>1, <3>2 DEF Gate!Next, Gate!Leave
  <2>3. CASE main.key # k
    BY <1>1, <1>2, <2>1, <2>3 DEF InsideOf, Gate!vars
  <2> QED BY <2>2, <2>3
<1>6. CASE Signal
  <2>1. main.at # "in" /\ main'.at # "in" /\ closing' = TRUE
    BY <1>3, <1>6 DEF Signal, MainType
  <2> QED BY <1>1, <1>2, <2>1 DEF InsideOf, Gate!Next, Gate!Close
<1>7. CASE \/ Poll \/ Drained \/ Stop \/ PollAgain \/ DrainTimeout
           \/ \E j \in Keys : PollKey(j) \/ CloseNext(j)
  <2>1. main.at # "in" /\ main'.at # "in" /\ UNCHANGED closing
    BY <1>3, <1>7 DEF Poll, Drained, BeginClose, Stop, PollAgain, DrainTimeout, PollKey,
       CloseNext, MainType
  <2> QED BY <1>1, <1>2, <2>1 DEF InsideOf, Gate!vars
<1>8. CASE \E j \in Keys : OwnerDies(j)
  <2>1. UNCHANGED <<main, closing>>
    BY <1>8 DEF OwnerDies
  <2> QED BY <1>1, <1>2, <2>1 DEF InsideOf, Gate!vars
<1> QED BY <1>4, <1>5, <1>6, <1>7, <1>8 DEF Shutdown

(***************************************************************************)
(* Each key's gate, made of a map, channels and two checks of closing, is  *)
(* the gate that DaemonSession takes for granted: one at a time, releases  *)
(* only once the daemon closes, and the shutdown not before.               *)
(***************************************************************************)
THEOREM GateOfKey == ASSUME NEW k \in Keys PROVE Spec => Gate(k)!Spec
<1>1. ASSUME Init PROVE Gate(k)!Init
  BY <1>1 DEF Init, Idle, InsideOf, In, Inside, Gate!Init
<1>2. ASSUME IInv, IInv', GateExclusive, GateExclusive', Next
      PROVE  [Gate(k)!Next]_(Gate(k)!vars)
  <2>1. ASSUME NEW r \in Requests,
               \/ \E j \in Keys, op \in KeyOps \cap OpsOf[r] : Call(r, op, j)
               \/ \E op \in AllOps \cap OpsOf[r] : CallAll(r, op)
               \/ Cancel(r) \/ Take(r) \/ Serve(r)
        PROVE  RequestStep(r)
    BY <1>2, <2>1, CallSteps, CallAllSteps, IdleSteps, VisitSteps, TakeSteps, EnterSteps,
       CreateSteps, RefuseSteps, WorkSteps, PutSteps DEF Serve
  <2> QED BY <1>2, <2>1, RequestRefines, MainRefines DEF Next
<1>3. ASSUME UNCHANGED vars PROVE UNCHANGED Gate(k)!vars
  BY <1>3 DEF vars, Gate!vars, InsideOf, In, Inside
<1> QED BY <1>1, <1>2, <1>3, Invariance, GatesExclude, PTL DEF Spec, Gate!Spec
-----------------------------------------------------------------------------
(***************************************************************************)
(* How many steps a request and the shutdown may take.                     *)
(***************************************************************************)
\* A request that visits every key has before it the key at whose gate it is.
Ahead(x) == x.op \in AllOps /\ x.at \in AtGateStates \cup {"wait"} => x.key \in x.todo
VisitInv == \A r \in Requests : Ahead(req[r])

\* What is left of a request: four steps for each key before it (the wait, the
\* gate, the second look at closing, the work), and those of the key it is at.
Stage(s)   == IF s = "next" THEN 5 ELSE IF s = "wait" THEN 4 ELSE IF s = "got" THEN 3
              ELSE IF s = "in" THEN 2 ELSE 1
StepsOf(x) == IF x.at = "idle" THEN 0 ELSE 4 * Cardinality(x.todo) + Stage(x.at)
LongestRequest == 4 * Cardinality(Keys) + 5

\* Of closing the sessions: three steps for each key that is left, and the end.
CloseLeft == IF main.at = "stopped" THEN 0
             ELSE IF main.at = "close" THEN 3 * Cardinality(main.todo) + 1
             ELSE IF main.at = "wait" THEN 3 * Cardinality(main.todo)
             ELSE 3 * Cardinality(main.todo) - 1
Closes    == main.at \in {"close", "wait", "in"}

LEMMA SetsAre ==
  ASSUME IsFiniteSet(Keys), NEW s \in SUBSET Keys
  PROVE  /\ Cardinality(s) \in Nat /\ Cardinality(s) <= Cardinality(Keys)
         /\ \A k \in s : /\ s \ {k} \in SUBSET Keys
                         /\ Cardinality(s) > 0 /\ Cardinality(s \ {k}) = Cardinality(s) - 1
<1>1. IsFiniteSet(s) /\ Cardinality(s) <= Cardinality(Keys)
  BY FS_Subset
<1>2. Cardinality(s) \in Nat
  BY <1>1, FS_CardinalityType
<1>3. ASSUME NEW k \in s
      PROVE  /\ s \ {k} \in SUBSET Keys
             /\ Cardinality(s) > 0 /\ Cardinality(s \ {k}) = Cardinality(s) - 1
  <2>1. IsFiniteSet(s \ {k}) /\ Cardinality(s \ {k}) = Cardinality(s) - 1
    BY <1>1, FS_RemoveElement
  <2>2. Cardinality(s \ {k}) \in Nat
    BY <2>1, FS_CardinalityType
  <2> QED BY <1>2, <2>1, <2>2
<1> QED BY <1>1, <1>2, <1>3

LEMMA StepsAre ==
  ASSUME IsFiniteSet(Keys), NEW x \in ReqStates
  PROVE  /\ StepsOf(x) \in Nat /\ StepsOf(x) <= LongestRequest
         /\ x.at # "idle" => StepsOf(x) > 0
<1> DEFINE n == Cardinality(x.todo)
           m == Cardinality(Keys)
           s == Stage(x.at)
<1>1. n \in Nat /\ n <= m /\ m \in Nat
  BY SetsAre, FS_CardinalityType DEF ReqStates
<1>2. s \in 1 .. 5
  BY DEF Stage
<1>3. StepsOf(x) = (IF x.at = "idle" THEN 0 ELSE 4 * n + s) /\ LongestRequest = 4 * m + 5
  BY DEF StepsOf, LongestRequest
<1> HIDE DEF n, m, s
<1>4. 4 * n + s \in Nat /\ 4 * n + s > 0 /\ 4 * n + s <= 4 * m + 5
  BY <1>1, <1>2
<1> QED BY <1>3, <1>4

\* What a step of a request may do for its visit to come to an end.
MovesOn(r) == \E x \in ReqStates : Become(r, x) /\ Ahead(x) /\ StepsOf(x) < StepsOf(req[r])

LEMMA StageMoves ==
  ASSUME IsFiniteSet(Keys), IInv, NEW r \in Requests, NEW x \in ReqStates, Become(r, x),
         x.at # "idle", req[r].at # "idle",
         Ahead(x), x.todo = req[r].todo, Stage(x.at) < Stage(req[r].at)
  PROVE  MovesOn(r)
<1> DEFINE n == Cardinality(x.todo)
           s == Stage(x.at)
           t == Stage(req[r].at)
<1>1. n \in Nat
  BY SetsAre DEF ReqStates
<1>2. s \in 1 .. 5 /\ t \in 1 .. 5 /\ s < t
  BY DEF Stage
<1>3. StepsOf(x) = 4 * n + s /\ StepsOf(req[r]) = 4 * n + t
  BY DEF StepsOf
<1> HIDE DEF n, s, t
<1>4. 4 * n + s < 4 * n + t
  BY <1>1, <1>2
<1> QED BY <1>3, <1>4 DEF MovesOn

LEMMA EndMoves ==
  ASSUME IsFiniteSet(Keys), IInv, NEW r \in Requests, req[r].at # "idle", Become(r, Idle)
  PROVE  MovesOn(r)
<1>1. PICK x \in ReqStates : x = Idle /\ x.at = "idle"
  BY DEF ReqStates, Idle
<1>2. StepsOf(x) = 0 /\ Ahead(x)
  BY <1>1 DEF StepsOf, Ahead, AtGateStates
<1>3. StepsOf(req[r]) \in Nat /\ StepsOf(req[r]) > 0
  BY StepsAre, ReqFacts
<1> QED BY <1>1, <1>2, <1>3 DEF MovesOn

\* A key is done: the next one is counted as four steps less.
LEMMA KeyMoves ==
  ASSUME IsFiniteSet(Keys), IInv, NEW r \in Requests, NEW x \in ReqStates, Become(r, x),
         x.at = "next", req[r].at \in {"next", "in"},
         NEW k \in req[r].todo, x.todo = req[r].todo \ {k}
  PROVE  MovesOn(r)
<1> DEFINE n == Cardinality(req[r].todo)
           t == Stage(req[r].at)
<1>1. req[r] \in ReqStates
  BY ReqFacts
<1>2. n \in Nat /\ n > 0 /\ Cardinality(x.todo) = n - 1
  BY <1>1, SetsAre DEF ReqStates
<1>3. t \in {2, 5}
  BY DEF Stage
<1>4. StepsOf(x) = 4 * (n - 1) + 5 /\ StepsOf(req[r]) = 4 * n + t
  BY <1>2 DEF StepsOf, Stage
<1>5. Ahead(x)
  BY DEF Ahead, AtGateStates
<1> HIDE DEF n, t
<1>6. 4 * (n - 1) + 5 < 4 * n + t
  BY <1>2, <1>3
<1> QED BY <1>4, <1>5, <1>6 DEF MovesOn

LEMMA VisitMoves ==
  ASSUME IsFiniteSet(Keys), IInv, NEW r \in Requests, NEW k \in Keys, Visit(r, k)
  PROVE  MovesOn(r)
<1>1. /\ UseGate(k) /\ req[r].at = "next" /\ k \in req[r].todo
      /\ req[r] \in ReqStates /\ ChanOf(k) \in Gates
  BY ReqFacts, UseGateGrows DEF Visit, ListEnter, ListCached, AllWait, At
<1>2. CASE ListCached(r, k)
  <2>1. PICK x \in ReqStates : x = [req[r] EXCEPT !.todo = @ \ {k}]
    BY <1>1 DEF ReqStates
  <2>2. Become(r, x) /\ x.at = "next" /\ x.todo = req[r].todo \ {k}
    BY <1>1, <1>2, <2>1 DEF ListCached, ReqStates
  <2> QED BY <1>1, <2>2, KeyMoves
<1>3. CASE ListEnter(r, k) \/ AllWait(r, k)
  <2>1. PICK s \in {"in", "wait"} :
          Become(r, [req[r] EXCEPT !.at = s, !.key = k, !.chan = ChanOf(k)])
    BY <1>3 DEF ListEnter, AllWait
  <2>2. PICK x \in ReqStates : x = [req[r] EXCEPT !.at = s, !.key = k, !.chan = ChanOf(k)]
    BY <1>1 DEF ReqStates
  <2>3. x.at = s /\ x.key = k /\ x.todo = req[r].todo
    BY <1>1, <2>2 DEF ReqStates
  <2>4. Ahead(x) /\ Stage(x.at) < Stage(req[r].at)
    BY <1>1, <2>3 DEF Ahead, Stage
  <2> QED BY <1>1, <2>1, <2>2, <2>3, <2>4, StageMoves
<1> QED BY <1>2, <1>3 DEF Visit

LEMMA GateMoves ==
  ASSUME IsFiniteSet(Keys), IInv, VisitInv, NEW r \in Requests,
         Take(r) \/ Enter(r) \/ Create(r)
  PROVE  MovesOn(r)
<1>1. PICK s \in {"got", "in", "made"} :
        /\ Become(r, [req[r] EXCEPT !.at = s])
        /\ <<req[r].at, s>> \in {<<"wait", "got">>, <<"got", "in">>, <<"in", "made">>}
  BY DEF Take, Enter, Create, At
<1>2. req[r] \in ReqStates /\ Ahead(req[r])
  BY ReqFacts DEF VisitInv
<1>3. PICK x \in ReqStates : x = [req[r] EXCEPT !.at = s]
  BY <1>2 DEF ReqStates
<1>4. x.at = s /\ x.key = req[r].key /\ x.op = req[r].op /\ x.todo = req[r].todo
  BY <1>2, <1>3 DEF ReqStates
<1>5. Ahead(x)
  BY <1>1, <1>2, <1>4 DEF Ahead, AtGateStates
<1>6. Stage(x.at) < Stage(req[r].at) /\ x.at # "idle" /\ req[r].at # "idle"
  BY <1>1, <1>4 DEF Stage
<1> QED BY <1>1, <1>3, <1>4, <1>5, <1>6, StageMoves

LEMMA LeaveMoves ==
  ASSUME IsFiniteSet(Keys), IInv, VisitInv, NEW r \in Requests,
         req[r].at \in {"in", "made"}, Leave(r)
  PROVE  MovesOn(r)
<1>1. req[r] \in ReqStates /\ Ahead(req[r]) /\ ReqOK(req[r], gate)
  BY ReqFacts DEF VisitInv
<1>2. CASE Become(r, Idle)
  BY <1>2, EndMoves
<1>3. CASE req[r].op \in AllOps /\ Become(r, Left(r))
  <2>1. req[r].key \in req[r].todo /\ req[r].at = "in"
    BY <1>1, <1>3 DEF Ahead, AtGateStates, ReqOK, AllOps
  <2>2. PICK x \in ReqStates :
          x = [req[r] EXCEPT !.at = "next", !.key = NoKey, !.chan = 0,
                             !.todo = @ \ {req[r].key}]
    BY <1>1 DEF ReqStates
  <2>3. x = Left(r) /\ x.at = "next" /\ x.todo = req[r].todo \ {req[r].key}
    BY <1>1, <1>3, <2>2 DEF Left, ReqStates
  <2> QED BY <1>3, <2>1, <2>3, KeyMoves
<1> QED BY <1>2, <1>3 DEF Leave, Left, PruneStops

LEMMA RequestMoves ==
  ASSUME IsFiniteSet(Keys), IInv, VisitInv, NEW r \in Requests, Cancel(r) \/ Take(r) \/ Serve(r)
  PROVE  MovesOn(r)
<1>1. CASE Cancel(r) \/ AllDone(r) \/ Refuse(r)
  BY <1>1, EndMoves DEF Cancel, AllDone, Refuse, At
<1>2. CASE Work(r) \/ Put(r)
  BY <1>2, LeaveMoves DEF Work, Put, At
<1>3. CASE Take(r) \/ Enter(r) \/ Create(r)
  BY <1>3, GateMoves
<1>4. CASE \E k \in Keys : Visit(r, k)
  BY <1>4, VisitMoves
<1> QED BY <1>1, <1>2, <1>3, <1>4 DEF Serve

LEMMA CallStarts ==
  ASSUME IInv, NEW r \in Requests,
         \/ \E k \in Keys, op \in KeyOps \cap OpsOf[r] : Call(r, op, k)
         \/ \E op \in AllOps \cap OpsOf[r] : CallAll(r, op)
  PROVE  \E x : Become(r, x) /\ Ahead(x) /\ req[r].at = "idle"
<1>1. KeyOps \cap AllOps = {}
  BY DEF KeyOps, AllOps
<1> QED BY <1>1 DEF Call, CallAll, At, Ahead, AtGateStates

\* Only requests that are called begin anew.
Moved(r) == req'[r] # req[r] /\ req[r].at # "idle"
RequestsNear == \A r \in Requests : Moved(r) => StepsOf(req'[r]) < StepsOf(req[r])

LEMMA OthersLeave ==
  ASSUME IInv, Signal \/ Shutdown \/ DrainTimeout \/ \E k \in Keys : OwnerDies(k)
  PROVE  UNCHANGED req
BY DEF Signal, Shutdown, DrainTimeout, OwnerDies, Poll, Drained, CloseTake, CloseKey, Stop,
   PollAgain, PollKey, CloseNext

LEMMA VisitNext ==
  ASSUME IsFiniteSet(Keys), IInv, VisitInv, Next PROVE VisitInv' /\ RequestsNear
<1>1. req \in [Requests -> ReqStates]
  BY DEF IInv, TypeOK
<1>2. CASE UNCHANGED req
  BY <1>2 DEF VisitInv, RequestsNear, Moved
<1>3. ASSUME NEW r \in Requests, MovesOn(r) PROVE VisitInv' /\ RequestsNear
  BY <1>1, <1>3 DEF MovesOn, Become, VisitInv, RequestsNear, Moved
<1>4. ASSUME NEW r \in Requests, NEW x, Become(r, x), Ahead(x), req[r].at = "idle"
      PROVE  VisitInv' /\ RequestsNear
  BY <1>1, <1>4 DEF Become, VisitInv, RequestsNear, Moved
<1> QED BY <1>2, <1>3, <1>4, RequestMoves, CallStarts, OthersLeave DEF Next

RequestsBounded == \A r \in Requests : StepsOf(req[r]) \in 0 .. LongestRequest

(***************************************************************************)
(* A request is at most LongestRequest steps from its end, and each of its *)
(* steps brings it nearer: list and prune visit a key once, however the    *)
(* registry changes meanwhile, and whatever refuses a request or cancels   *)
(* it does not have it try again.                                          *)
(***************************************************************************)
THEOREM RequestsAreBounded ==
  ASSUME IsFiniteSet(Keys) PROVE Spec => []RequestsBounded /\ [][RequestsNear]_vars
<1>1. Init => VisitInv
  BY DEF Init, VisitInv, Ahead, Idle, AtGateStates
<1>2. IInv => RequestsBounded
  <2> SUFFICES ASSUME IInv, NEW r \in Requests PROVE StepsOf(req[r]) \in 0 .. LongestRequest
    BY DEF RequestsBounded
  <2>1. LongestRequest \in Int
    BY FS_CardinalityType DEF LongestRequest
  <2> QED BY <2>1, StepsAre, ReqFacts
<1>3. ASSUME IInv, VisitInv, [Next]_vars PROVE VisitInv'
  BY <1>3, VisitNext DEF vars, VisitInv
<1>4. ASSUME IInv, VisitInv, Next PROVE RequestsNear
  BY <1>4, VisitNext
<1> QED BY <1>1, <1>2, <1>3, <1>4, Invariance, PTL DEF Spec

\* Nobody but the shutdown goroutine itself touches what it has to close.
ClosesOn == Closes /\ main' # main =>
  /\ (Closes \/ main.at = "stopped")' /\ main'.todo \subseteq main.todo
  /\ CloseLeft' < CloseLeft

LEMMA RequestsLeaveMain ==
  ASSUME Next, main' # main PROVE Signal \/ Shutdown \/ DrainTimeout
BY DEF Next, Call, CallAll, Cancel, Take, Serve, AllDone, Refuse, Enter, Create, Work, Put,
   Visit, ListEnter, ListCached, AllWait, OwnerDies

(***************************************************************************)
(* closeSessions takes three steps for each of the keys that it collected, *)
(* and never turns to one that it did not collect or back to an earlier    *)
(* phase, whatever requests do at the gates meanwhile.                     *)
(***************************************************************************)
THEOREM ClosesInTurn == ASSUME IsFiniteSet(Keys) PROVE Spec => [][ClosesOn]_vars
<1>1. ASSUME IInv, Next, Closes, main' # main
      PROVE  /\ (Closes \/ main.at = "stopped")' /\ main'.todo \subseteq main.todo
             /\ CloseLeft' < CloseLeft
  <2> DEFINE n == Cardinality(main.todo)
  <2>1. main \in MainType
    BY <1>1 DEF IInv, TypeOK, MainType
  <2>2. n \in Nat /\ main.todo \in SUBSET Keys
    BY <2>1, SetsAre DEF MainType
  <2>3. main.at \in {"wait", "in"} =>
          n > 0 /\ Cardinality(main.todo \ {main.key}) = n - 1
    BY <1>1, <2>2, SetsAre DEF IInv, MainInv
  <2>4. CASE Stop
    <3>1. main.at = "close" /\ main'.at = "stopped" /\ main'.todo = main.todo
      BY <2>1, <2>4 DEF Stop, MainType
    <3> QED BY <2>2, <3>1 DEF CloseLeft
  <2>5. CASE \E k \in Keys : CloseNext(k)
    <3>1. main.at = "close" /\ main'.at = "wait" /\ main'.todo = main.todo
      BY <2>1, <2>5 DEF CloseNext, MainType
    <3> QED BY <2>2, <3>1 DEF CloseLeft, Closes
  <2>6. CASE CloseTake
    <3>1. main.at = "wait" /\ main'.at = "in" /\ main'.todo = main.todo
      BY <2>1, <2>6 DEF CloseTake, MainType
    <3> QED BY <2>2, <3>1 DEF CloseLeft, Closes
  <2>7. CASE CloseKey
    <3>1. main.at = "in" /\ main'.at = "close" /\ main'.todo = main.todo \ {main.key}
      BY <2>1, <2>7 DEF CloseKey, MainType
    <3> QED BY <2>2, <2>3, <3>1 DEF CloseLeft, Closes
  <2>8. Stop \/ CloseTake \/ CloseKey \/ \E k \in Keys : CloseNext(k)
    BY <1>1, RequestsLeaveMain DEF Closes, Shutdown, Signal, Poll, Drained, PollAgain, PollKey,
       DrainTimeout
  <2> QED BY <2>4, <2>5, <2>6, <2>7, <2>8
<1>2. ASSUME IInv, [Next]_vars PROVE [ClosesOn]_vars
  BY <1>1, <1>2 DEF ClosesOn
<1> QED BY <1>2, Invariance, PTL DEF Spec
=============================================================================
