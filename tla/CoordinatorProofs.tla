-------------------------- MODULE CoordinatorProofs --------------------------
(* Theorems about Coordinator, for any number of hosts, of timesteps, of   *)
(* signals and of lost connections.                                        *)
EXTENDS Coordinator, TLAPS

USE CoordinatorAssumption

LEMMA CallFacts ==
  /\ \A x \in Calls : /\ Orphan(x) \in Calls /\ Running(x) \in Calls
                      /\ x.kind \in Rounds /\ x.step \in 0..LastStep
                      /\ Orphan(x).kind = x.kind /\ Orphan(x).step = x.step
                      /\ Running(x).kind = x.kind /\ Running(x).step = x.step
                      /\ Running(x).heard = x.heard
  /\ TypeOK /\ pc \in Rounds => /\ NewCall \in Calls /\ NewCall.kind = pc
                                /\ NewCall.step = step /\ NewCall.heard
  <1>1. \A x \in Calls : /\ Orphan(x) \in Calls /\ Running(x) \in Calls
                         /\ x.kind \in Rounds /\ x.step \in 0..LastStep
    BY DEF Calls, Orphan, Running
  <1>2. \A x : /\ Orphan(x).kind = x.kind /\ Orphan(x).step = x.step
               /\ Running(x).kind = x.kind /\ Running(x).step = x.step
               /\ Running(x).heard = x.heard
    BY DEF Orphan, Running
  <1>3. TypeOK /\ pc \in Rounds => NewCall \in Calls
    BY DEF TypeOK, NewCall, Calls, Rounds
  <1>4. NewCall.kind = pc /\ NewCall.step = step /\ NewCall.heard
    BY DEF NewCall
  <1>5. QED BY <1>1, <1>2, <1>3, <1>4

-----------------------------------------------------------------------------
LEMMA HandlerType ==
  ASSUME TypeOK, NEW h \in Hosts, NEW x \in handlers[h],
         Received(h, x) \/ Return(h, x)
  PROVE  /\ keys' \subseteq Hosts /\ handlers' \in [Hosts -> SUBSET Calls]
         /\ server' \in [Hosts -> {"up", "released", "down"}]
         /\ init' \in [Hosts -> {"none", "ok", "failed"}]
         /\ applied' \in [Hosts -> SUBSET (0..LastStep)]
         /\ missed' \subseteq Hosts /\ lost' \subseteq Hosts
  <1>1. x \in Calls
    BY DEF TypeOK
  <1>2. CASE Received(h, x)
    BY <1>1, <1>2, CallFacts DEF Received, Down, TypeOK
  <1>3. CASE Return(h, x)
    <2>1. handlers' \in [Hosts -> SUBSET Calls] /\ lost' \subseteq Hosts
      BY <1>3 DEF Return, TypeOK
    <2>2. CASE EndRegister(h, x)
      BY <2>1, <2>2 DEF EndRegister, TypeOK
    <2>3. CASE EndInit(h, x)
      BY <2>1, <2>3 DEF EndInit, TypeOK
    <2>4. CASE EndUpdate(h, x)
      BY <1>1, <2>1, <2>4, CallFacts DEF EndUpdate, TypeOK
    <2>5. CASE EndStop(h, x)
      BY <2>1, <2>5 DEF EndStop, TypeOK
    <2>6. QED BY <1>3, <2>2, <2>3, <2>4, <2>5 DEF Return
  <1>4. QED BY <1>2, <1>3

LEMMA TypeStep == TypeOK /\ [Next]_vars => TypeOK'
  <1> SUFFICES ASSUME TypeOK, [Next]_vars PROVE TypeOK'
    OBVIOUS
  <1>1. CASE Submit
    <2>1. sent + 1 \in Hosts
      BY <1>1 DEF Submit, TypeOK, Hosts
    <2>2. NewCall \in Calls
      BY <1>1, CallFacts DEF Submit
    <2>3. handlers' \in [Hosts -> SUBSET Calls]
      BY <1>1, <2>1, <2>2 DEF Submit, TypeOK
    <2>4. sent' \in 0..NumHosts /\ asked' \subseteq Hosts
      BY <1>1, <2>1 DEF Submit, TypeOK
    <2>5. QED BY <1>1, <2>3, <2>4 DEF Submit, TypeOK
  <1>2. CASE After
    <2>1. UNCHANGED <<signals, asked, hostVars>> /\ sent' \in 0..NumHosts /\ cut' = "no"
      BY <1>2 DEF After, AfterRegister, AfterInit, Start, AfterUpdate, AfterStop, NextRound
    <2>2. pc' \in Rounds \union Ended \union {"ready"}
      BY <1>2 DEF After, AfterRegister, AfterInit, Start, AfterUpdate, AfterStop,
                  NextRound, Rounds, Ended
    <2>3. step' \in 0..LastStep
      BY <1>2 DEF After, AfterRegister, AfterInit, Start, AfterUpdate, AfterStop, TypeOK
    <2>4. QED BY <2>1, <2>2, <2>3 DEF TypeOK, hostVars
  <1>3. CASE Signal
    <2>1. signals' \in 0..MaxSignals
      BY <1>3 DEF Signal, TypeOK
    <2>2. handlers' \in [Hosts -> SUBSET Calls]
      BY <1>3, CallFacts DEF Signal, SignalKills, SignalInLoop, SignalInJoin, TypeOK
    <2>3. /\ pc' \in Rounds \union Ended \union {"ready"}
          /\ sent' \in 0..NumHosts /\ cut' \in {"no", "yes"}
      BY <1>3 DEF Signal, SignalKills, SignalInLoop, SignalInJoin, TypeOK, NextRound,
                  Rounds, Ended
    <2>4. QED BY <1>3, <2>1, <2>2, <2>3 DEF Signal, TypeOK
  <1>4. ASSUME NEW h \in Hosts, Handler(h) PROVE TypeOK'
    BY <1>4, HandlerType DEF Handler, coordVars, TypeOK
  <1>5. ASSUME NEW h \in Hosts, Exit(h) PROVE TypeOK'
    BY <1>5 DEF Exit, Down, coordVars, TypeOK
  <1>6. ASSUME NEW h \in Hosts, Lose(h) PROVE TypeOK'
    BY <1>6, CallFacts DEF Lose, coordVars, TypeOK
  <1>7. CASE Done \/ UNCHANGED vars
    BY <1>7 DEF Done, vars, coordVars, hostVars, TypeOK
  <1>8. QED BY <1>1, <1>2, <1>3, <1>4, <1>5, <1>6, <1>7 DEF Next

(* Every variable keeps its type, whatever signals and losses come.        *)
THEOREM TypeCorrect == Spec => []TypeOK
  <1>1. Init => TypeOK
    BY DEF Init, TypeOK, Rounds
  <1>2. QED BY <1>1, TypeStep, PTL DEF Spec
-----------------------------------------------------------------------------
(* A host whose connection holds runs at most one call of the current      *)
(* round, which the coordinator waits for; what else may run there is an   *)
(* Update whose wait a signal has ended.                                   *)
CallOk(h, x) ==
  /\ pc \notin {"ready", "crashed"}
  /\ pc \in Rounds =>
       x.heard /\ (x.kind = pc \/ (pc = "stop" /\ x.kind = "update" /\ signals > 0))
  /\ pc = "finished" => x.kind \in {"stop", "update"} /\ signals > 0
  /\ x.kind = "update" => x.step = step
  /\ x.kind = pc => h <= sent

OnlyOne(x, y) == x.kind = y.kind \/ pc = "killed" => x = y

RoundInv ==
  \A h \in Hosts \ lost : \A x \in handlers[h] :
    CallOk(h, x) /\ \A y \in handlers[h] : OnlyOne(x, y)

(* When the pool has waited, no call of its round is left at such a host.  *)
LEMMA JoinedIsQuiet ==
  ASSUME TypeOK, RoundInv, Joined, pc \in Rounds, NEW h \in Hosts \ lost,
         NEW x \in handlers[h]
  PROVE  pc = "stop" /\ x.kind = "update" /\ signals > 0 /\ x.step = step
  <1>1. h \notin Outstanding
    BY DEF Joined
  <1>2. ~(x.heard /\ x.kind = pc)
    BY <1>1 DEF Outstanding
  <1>3. QED BY <1>2 DEF RoundInv, CallOk

(* What a step of a server does to the calls of its host.                  *)
LEMMA HandlerCalls ==
  ASSUME TypeOK, NEW h \in Hosts, Handler(h) \/ Exit(h), NEW g \in Hosts,
         NEW y \in handlers'[g]
  PROVE  \/ y \in handlers[g]
         \/ g = h /\ \E x \in handlers[g] : y = Running(x) /\ y \notin handlers[g]
              /\ x \notin handlers'[g] /\ handlers'[g] \subseteq handlers[g] \union {y}
  <1>1. CASE Exit(h)
    BY <1>1 DEF Exit, Down, TypeOK
  <1>2. CASE Handler(h)
    <2>1. PICK x \in handlers[h] : Received(h, x) \/ Return(h, x)
      BY <1>2 DEF Handler
    <2>2. CASE Return(h, x)
      BY <2>2 DEF Return, TypeOK
    <2>3. CASE Received(h, x) /\ handlers' = [handlers EXCEPT ![h] = {}]
      BY <2>3 DEF TypeOK
    <2>4. CASE /\ x.stage = "receive"
               /\ handlers' = [handlers EXCEPT ![h] = (@ \ {x}) \union {Running(x)}]
      <3>1. Running(x).stage = "run"
        BY DEF Running
      <3>2. QED BY <2>4, <3>1 DEF TypeOK
    <2>5. QED BY <2>1, <2>2, <2>3, <2>4 DEF Received, Down
  <1>3. QED BY <1>1, <1>2

LEMMA RoundStep == TypeOK /\ RoundInv /\ [Next]_vars => RoundInv'
  <1> SUFFICES ASSUME TypeOK, RoundInv, [Next]_vars,
                      NEW h \in Hosts \ lost', NEW x \in handlers'[h]
               PROVE  CallOk(h, x)' /\ \A y \in handlers'[h] : OnlyOne(x, y)'
    BY DEF RoundInv
  <1>l. h \notin lost
    BY DEF Next, Submit, After, AfterRegister, AfterInit, Start, AfterUpdate, AfterStop,
           Signal, Handler, Received, Return, Exit, Down, Lose, Done, vars, hostVars
  <1>n. h \in Nat /\ sent \in Nat
    BY DEF Hosts, TypeOK
  <1>1. CASE Submit
    <2>1. /\ pc \in Rounds /\ UNCHANGED <<pc, step, signals>> /\ sent' = sent + 1
          /\ \/ handlers'[h] = handlers[h]
             \/ h = sent + 1 /\ handlers'[h] = handlers[h] \union {NewCall}
      BY <1>1 DEF Submit, TypeOK
    <2>2. CASE handlers'[h] = handlers[h]
      BY <1>l, <1>n, <2>1, <2>2 DEF RoundInv, CallOk, OnlyOne
    <2>3. CASE h = sent + 1 /\ handlers'[h] = handlers[h] \union {NewCall}
      <3>1. NewCall.kind = pc /\ NewCall.step = step /\ NewCall.heard
        BY <2>1, CallFacts
      <3>2. \A y \in handlers[h] : y.kind # pc
        BY <1>l, <1>n, <2>3 DEF RoundInv, CallOk
      <3>3. pc \notin {"ready", "crashed", "finished", "killed"}
        BY <2>1 DEF Rounds
      <3>4. QED
        BY <1>l, <1>n, <2>1, <2>3, <3>1, <3>2, <3>3 DEF RoundInv, CallOk, OnlyOne
    <2>4. QED BY <2>1, <2>2, <2>3
  <1>2. CASE After
    <2>1. UNCHANGED <<signals, hostVars>>
      BY <1>2 DEF After, AfterRegister, AfterInit, Start, AfterUpdate, AfterStop
    <2>2. CASE Start
      BY <1>l, <2>1, <2>2 DEF Start, RoundInv, CallOk, hostVars
    <2>3. CASE ~Start
      <3>1. Joined /\ pc \in Rounds
        BY <1>2, <2>3 DEF After, AfterRegister, AfterInit, AfterUpdate, AfterStop, Rounds
      <3>2. \A y \in handlers[h] :
              pc = "stop" /\ y.kind = "update" /\ signals > 0 /\ y.step = step
        BY <1>l, <3>1, JoinedIsQuiet
      <3>3. AfterStop /\ x \in handlers[h]
        BY <1>2, <2>1, <2>3, <3>2 DEF After, AfterRegister, AfterInit, AfterUpdate, hostVars
      <3>4. pc' = "finished" /\ step' = step /\ handlers' = handlers
        BY <3>3 DEF AfterStop, NextRound, hostVars
      <3>5. QED BY <1>l, <2>1, <3>2, <3>3, <3>4 DEF RoundInv, CallOk, OnlyOne, Rounds
    <2>4. QED BY <2>2, <2>3
  <1>3. CASE Signal
    <2>1. signals' = signals + 1 /\ signals \in Nat /\ step' = step
      BY <1>3 DEF Signal, TypeOK
    <2>2. CASE SignalKills
      <3>1. pc' = "killed" /\ pc \in {"register", "init", "ready"}
            /\ handlers'[h] = {Orphan(y) : y \in handlers[h]}
        BY <2>2 DEF SignalKills, NextRound
      <3>2. \A y, z \in handlers[h] : y = z /\ y.kind \in {"register", "init"}
        BY <1>l, <3>1 DEF RoundInv, CallOk, OnlyOne, Rounds
      <3>3. PICK y \in handlers[h] : x = Orphan(y)
        BY <3>1
      <3>4. x.kind \in {"register", "init"}
        BY <3>2, <3>3 DEF Orphan
      <3>5. \A z \in handlers'[h] : x = z
        BY <3>1, <3>2
      <3>6. QED BY <3>1, <3>4, <3>5 DEF CallOk, OnlyOne, Rounds
    <2>3. CASE SignalInLoop
      BY <1>l, <2>1, <2>3 DEF SignalInLoop, RoundInv, CallOk, OnlyOne
    <2>4. CASE SignalInJoin
      <3>1. handlers' = handlers /\ sent' = 0
            /\ \/ pc = "update" /\ pc' = "stop"
               \/ pc = "stop" /\ pc' = "finished"
        BY <2>4 DEF SignalInJoin, NextRound
      <3>2. QED BY <1>l, <2>1, <3>1 DEF RoundInv, CallOk, OnlyOne, Rounds
    <2>5. QED BY <1>3, <2>2, <2>3, <2>4 DEF Signal
  <1>4. ASSUME NEW g \in Hosts, Handler(g) \/ Exit(g)
        PROVE  CallOk(h, x)' /\ \A y \in handlers'[h] : OnlyOne(x, y)'
    <2>1. UNCHANGED coordVars
      BY <1>4 DEF Handler, Exit
    <2>2. \A y \in handlers'[h] :
            \/ y \in handlers[h]
            \/ \E z \in handlers[h] : /\ y = Running(z) /\ z \notin handlers'[h]
                                      /\ handlers'[h] \subseteq handlers[h] \union {y}
      BY <1>4, HandlerCalls
    <2>3. \A z \in handlers[h] : /\ Running(z).kind = z.kind
                                 /\ Running(z).step = z.step
                                 /\ Running(z).heard = z.heard
      BY CallFacts DEF TypeOK
    <2>4. CallOk(h, x)'
      BY <1>l, <2>1, <2>2, <2>3 DEF RoundInv, CallOk, coordVars
    <2>5. \A y \in handlers'[h] : OnlyOne(x, y)'
      BY <1>l, <2>1, <2>2, <2>3 DEF RoundInv, OnlyOne, coordVars
    <2>6. QED BY <2>4, <2>5
  <1>5. ASSUME NEW g \in Hosts, Lose(g)
        PROVE  CallOk(h, x)' /\ \A y \in handlers'[h] : OnlyOne(x, y)'
    <2>1. h # g /\ UNCHANGED coordVars
      BY <1>5 DEF Lose
    <2>2. handlers'[h] = handlers[h]
      BY <1>5, <2>1 DEF Lose, TypeOK
    <2>3. QED BY <1>l, <2>1, <2>2 DEF RoundInv, CallOk, OnlyOne, coordVars
  <1>6. CASE Done \/ UNCHANGED vars
    BY <1>l, <1>6 DEF Done, vars, coordVars, hostVars, RoundInv, CallOk, OnlyOne
  <1>7. QED BY <1>1, <1>2, <1>3, <1>4, <1>5, <1>6 DEF Next

LEMMA RoundHolds == Spec => [](TypeOK /\ RoundInv)
  <1>1. Init => RoundInv
    BY DEF Init, RoundInv
  <1>2. QED BY <1>1, TypeCorrect, RoundStep, PTL DEF Spec

(* Two calls at a host whose connection holds are an Update that a signal  *)
(* abandoned and the Stop that follows.                                    *)
THEOREM OneHandler == Spec => []OneHandlerPerHost
  <1>1. TypeOK /\ RoundInv => OneHandlerPerHost
    <2> SUFFICES ASSUME TypeOK, RoundInv, NEW h \in Hosts \ lost,
                        NEW x \in handlers[h], NEW y \in handlers[h], x # y
                 PROVE  signals > 0 /\ {x.kind, y.kind} = {"update", "stop"}
      BY DEF OneHandlerPerHost
    <2>1. x.kind # y.kind /\ pc # "killed"
      BY DEF RoundInv, OnlyOne
    <2>2. QED BY <2>1 DEF RoundInv, CallOk, TypeOK, Rounds, Ended
  <1>2. QED BY <1>1, RoundHolds, PTL
-----------------------------------------------------------------------------
(* What holds at every host, a lost one too: a Stop only comes in the last *)
(* round, so before it a host that is down failed an Update on its way.    *)
HostOk(h) ==
  /\ \A x \in handlers[h] :
       /\ x.step <= step
       /\ x.kind = "stop" => pc \in {"stop", "finished"}
  /\ applied[h] \subseteq 0..step
  /\ server[h] = "released" => pc \in {"stop", "finished"}
  /\ server[h] = "down" => h \in missed \/ pc \in {"stop", "finished"}

(* A host at which no Update has failed has applied every earlier one, and *)
(* the one of this timestep as well unless it is on its way or to be sent. *)
AppliedOk(h) ==
  /\ 0..(step - 1) \subseteq applied[h]
  /\ pc = "update" /\ h <= sent =>
       step \in applied[h] \/ \E x \in handlers[h] : x.kind = "update"

StepInv == \A h \in Hosts : HostOk(h) /\ (h \notin lost \union missed => AppliedOk(h))

(* A step of a host concerns only what the coordinator knows of that host. *)
LEMMA HostStep ==
  ASSUME TypeOK, TypeOK', RoundInv, StepInv, NEW g \in Hosts,
         Handler(g) \/ Exit(g) \/ Lose(g), NEW h \in Hosts
  PROVE  (HostOk(h) /\ (h \notin lost \union missed => AppliedOk(h)))'
  <1>1. UNCHANGED coordVars
    BY DEF Handler, Exit, Lose
  <1>2. CASE h # g
    <2>1. /\ handlers'[h] = handlers[h] /\ applied'[h] = applied[h]
          /\ server'[h] = server[h] /\ (h \in missed => h \in missed')
          /\ (h \in lost \union missed => h \in (lost \union missed)')
      BY <1>2 DEF Handler, Received, Return, EndRegister, EndInit, EndUpdate, EndStop,
                  Exit, Down, Lose, TypeOK
    <2>2. QED BY <1>1, <2>1 DEF StepInv, HostOk, AppliedOk, coordVars
  <1>3. CASE h = g /\ Lose(g)
    <2>1. /\ h \in lost' /\ UNCHANGED <<applied, server>> /\ missed \subseteq missed'
          /\ \A y \in handlers'[h] : \E x \in handlers[h] :
               y.kind = x.kind /\ y.step = x.step
      <3>1. PICK x \in handlers[h] :
              /\ \/ handlers' = [handlers EXCEPT ![h] = @ \ {x}]
                 \/ handlers' = [handlers EXCEPT ![h] = (@ \ {x}) \union {Orphan(x)}]
              /\ missed \subseteq missed'
        BY <1>3 DEF Lose
      <3>2. handlers'[h] \subseteq handlers[h] \union {Orphan(x)}
        BY <3>1 DEF TypeOK
      <3>3. Orphan(x).kind = x.kind /\ Orphan(x).step = x.step
        BY DEF Orphan
      <3>4. QED BY <1>3, <3>1, <3>2, <3>3 DEF Lose
    <2>2. QED BY <1>1, <2>1 DEF StepInv, HostOk, coordVars
  <1>4. CASE h = g /\ Exit(g)
    <2>1. pc \in {"stop", "finished"}
      BY <1>4 DEF Exit, StepInv, HostOk
    <2>2. /\ handlers'[h] = {} /\ UNCHANGED <<applied, lost>> /\ missed \subseteq missed'
      BY <1>4 DEF Exit, Down, TypeOK
    <2>3. QED BY <1>1, <2>1, <2>2 DEF StepInv, HostOk, AppliedOk, coordVars
  <1>5. CASE h = g /\ Handler(g)
    <2>0. PICK x \in handlers[h] : Received(h, x) \/ Return(h, x)
      BY <1>5 DEF Handler
    <2>x. x.step <= step /\ x.step \in Nat /\ step \in Nat
      <3>1. x \in Calls /\ step \in Nat
        BY DEF TypeOK
      <3>2. x.step \in Nat
        BY <3>1, CallFacts
      <3>3. QED BY <3>1, <3>2 DEF StepInv, HostOk
    <2>1. CASE Down(h) /\ x.kind = "update"
      BY <1>1, <2>1 DEF Down, StepInv, HostOk, AppliedOk, coordVars, TypeOK
    <2>2. CASE /\ handlers' = [handlers EXCEPT ![h] = (@ \ {x}) \union {Running(x)}]
               /\ UNCHANGED <<keys, server, init, applied, missed, lost>>
      <3>1. handlers'[h] = (handlers[h] \ {x}) \union {Running(x)}
        BY <2>2 DEF TypeOK
      <3>2. Running(x).kind = x.kind /\ Running(x).step = x.step
        BY DEF Running
      <3>3. HostOk(h)'
        BY <1>1, <2>2, <3>1, <3>2 DEF StepInv, HostOk, coordVars
      <3>4. h \notin (lost \union missed)' => AppliedOk(h)'
        BY <1>1, <2>2, <3>1, <3>2 DEF StepInv, AppliedOk, coordVars
      <3>5. QED BY <3>3, <3>4
    <2>3. CASE Return(h, x)
      <3>1. handlers'[h] = handlers[h] \ {x} /\ lost' = lost
        BY <2>3 DEF Return, TypeOK
      <3>2. CASE x.kind # "update" /\ ~EndUpdate(h, x)
        <4>1. /\ UNCHANGED <<applied, missed>>
              /\ server'[h] # server[h] => server'[h] = "released" /\ x.kind = "stop"
          BY <2>3, <3>2 DEF Return, EndRegister, EndInit, EndStop, TypeOK
        <4>2. HostOk(h)'
          BY <1>1, <3>1, <4>1 DEF StepInv, HostOk, coordVars
        <4>3. h \notin (lost \union missed)' => AppliedOk(h)'
          BY <1>1, <3>1, <3>2, <4>1 DEF StepInv, AppliedOk, coordVars
        <4>4. QED BY <4>2, <4>3
      <3>3. CASE EndUpdate(h, x)
        <4>1. /\ server' = server /\ x.kind = "update"
              /\ \/ applied'[h] = applied[h] \union {x.step} /\ missed' = missed
                 \/ applied' = applied /\ missed' = missed \union {h}
          BY <3>3 DEF EndUpdate, TypeOK
        <4>2. HostOk(h)'
          <5>1. applied'[h] \subseteq 0..step
            <6>1. x.step \in 0..step
              BY <2>x
            <6>2. QED BY <4>1, <6>1 DEF StepInv, HostOk
          <5>2. QED BY <1>1, <3>1, <4>1, <5>1 DEF StepInv, HostOk, coordVars
        <4>3. h \notin (lost \union missed)' => AppliedOk(h)'
          <5>1. h \notin lost => x.step = step
            BY <4>1 DEF RoundInv, CallOk
          <5>2. QED BY <1>1, <3>1, <4>1, <5>1 DEF StepInv, AppliedOk, coordVars
        <4>4. QED BY <4>2, <4>3
      <3>4. QED
        BY <2>3, <3>2, <3>3 DEF Return, EndRegister, EndInit, EndUpdate, EndStop
    <2>4. QED BY <2>0, <2>1, <2>2, <2>3 DEF Received
  <1>6. QED BY <1>2, <1>3, <1>4, <1>5

LEMMA StepStep == TypeOK /\ TypeOK' /\ RoundInv /\ StepInv /\ [Next]_vars => StepInv'
  <1> SUFFICES ASSUME TypeOK, TypeOK', RoundInv, StepInv, [Next]_vars, NEW h \in Hosts
               PROVE  (HostOk(h) /\ (h \notin lost \union missed => AppliedOk(h)))'
    BY DEF StepInv
  <1>h. /\ HostOk(h) /\ (h \notin lost \union missed => AppliedOk(h))
        /\ h \in 1..NumHosts /\ step \in Nat /\ sent \in Nat
    BY DEF StepInv, Hosts, TypeOK
  <1>1. CASE Submit
    <2>1. /\ pc \in Rounds /\ UNCHANGED <<pc, step, server, applied, missed, lost>>
          /\ sent' = sent + 1
          /\ \/ h # sent + 1 /\ handlers'[h] = handlers[h]
             \/ h = sent + 1 /\ server[h] = "down" /\ handlers'[h] = handlers[h]
             \/ h = sent + 1 /\ handlers'[h] = handlers[h] \union {NewCall}
      BY <1>1 DEF Submit, TypeOK
    <2>2. NewCall.kind = pc /\ NewCall.step = step
      BY <2>1, CallFacts
    <2>3. HostOk(h)'
      BY <1>h, <2>1, <2>2 DEF HostOk
    <2>4. h \notin (lost \union missed)' => AppliedOk(h)'
      BY <1>h, <2>1, <2>2 DEF HostOk, AppliedOk
    <2>5. QED BY <2>3, <2>4
  <1>2. CASE After
    <2>1. UNCHANGED hostVars
      BY <1>2 DEF After, AfterRegister, AfterInit, Start, AfterUpdate, AfterStop
    <2>2. CASE pc' = "update" /\ step' = step + 1
      <3>1. Joined /\ pc = "update" /\ cut = "no" /\ sent' = 0
        BY <1>2, <1>h, <2>2 DEF After, AfterRegister, AfterInit, Start, AfterUpdate,
                                AfterStop, NextRound, TypeOK
      <3>2. HostOk(h)'
        <4>1. \A x \in handlers[h] : x.step \in Nat
          BY CallFacts DEF TypeOK
        <4>2. 0..step \subseteq 0..(step + 1)
          BY <1>h
        <4>3. QED BY <1>h, <2>1, <2>2, <3>1, <4>1, <4>2 DEF HostOk, hostVars
      <3>3. ASSUME h \notin lost \union missed PROVE AppliedOk(h)'
        <4>1. \A x \in handlers[h] : x.kind # "update"
          BY <3>1, <3>3, JoinedIsQuiet DEF Rounds
        <4>2. h <= sent
          BY <1>h, <3>1 DEF Joined, Submitted
        <4>3. 0..step \subseteq applied[h]
          BY <1>h, <3>1, <3>3, <4>1, <4>2 DEF AppliedOk
        <4>4. QED BY <1>h, <2>1, <2>2, <3>1, <4>3 DEF AppliedOk, hostVars
      <3>4. QED BY <2>1, <3>2, <3>3 DEF hostVars
    <2>3. CASE step' = step /\ sent' = 0
      <3>1. pc \in {"stop", "finished"} => pc' \in {"stop", "finished"}
        BY <1>2 DEF After, AfterRegister, AfterInit, Start, AfterUpdate, AfterStop, NextRound
      <3>2. HostOk(h)'
        BY <1>h, <2>1, <2>3, <3>1 DEF HostOk, hostVars
      <3>3. h \notin (lost \union missed)' => AppliedOk(h)'
        BY <1>h, <2>1, <2>3 DEF AppliedOk, hostVars
      <3>4. QED BY <3>2, <3>3
    <2>4. QED
      BY <1>2, <2>2, <2>3 DEF After, AfterRegister, AfterInit, Start, AfterUpdate,
                              AfterStop, NextRound
  <1>3. CASE Signal
    <2>1. UNCHANGED <<step, server, applied, missed, lost>>
      BY <1>3 DEF Signal
    <2>2. CASE SignalKills
      <3>1. pc' = "killed" /\ pc \in {"register", "init", "ready"}
            /\ handlers'[h] = {Orphan(y) : y \in handlers[h]}
        BY <2>2 DEF SignalKills, NextRound
      <3>2. \A y : Orphan(y).kind = y.kind /\ Orphan(y).step = y.step
        BY DEF Orphan
      <3>3. HostOk(h)'
        BY <1>h, <2>1, <3>1, <3>2 DEF HostOk
      <3>4. QED BY <1>h, <2>1, <3>1, <3>3 DEF AppliedOk
    <2>3. CASE SignalInLoop
      BY <1>h, <2>1, <2>3 DEF SignalInLoop, HostOk, AppliedOk
    <2>4. CASE SignalInJoin
      <3>1. handlers' = handlers /\ pc \in {"update", "stop"}
            /\ pc' \in {"stop", "finished"}
        BY <2>4 DEF SignalInJoin, NextRound
      <3>2. QED BY <1>h, <2>1, <3>1 DEF HostOk, AppliedOk
    <2>5. QED BY <1>3, <2>2, <2>3, <2>4 DEF Signal
  <1>4. ASSUME NEW g \in Hosts, Handler(g) \/ Exit(g) \/ Lose(g)
        PROVE  (HostOk(h) /\ (h \notin lost \union missed => AppliedOk(h)))'
    BY <1>4, HostStep
  <1>5. CASE Done \/ UNCHANGED vars
    BY <1>h, <1>5 DEF Done, vars, coordVars, hostVars, HostOk, AppliedOk
  <1>6. QED BY <1>1, <1>2, <1>3, <1>4, <1>5 DEF Next

(* No host runs ahead of another by more than the Update in hand: the pool *)
(* is a barrier, whichever calls fail.                                     *)
THEOREM InStep == Spec => []HostsInStep
  <1>1. Init => StepInv
    BY DEF Init, StepInv, HostOk, AppliedOk
  <1>2. TypeOK /\ RoundInv /\ StepInv => HostsInStep
    <2> SUFFICES ASSUME TypeOK, RoundInv, StepInv, NEW h \in Hosts \ lost,
                        NEW g \in Hosts \ (lost \union missed), NEW x \in handlers[h],
                        x.kind = "update"
                 PROVE  0..(x.step - 1) \subseteq applied[g] /\ applied[g] \subseteq 0..x.step
      BY DEF HostsInStep
    <2>1. x.step = step
      BY DEF RoundInv, CallOk
    <2>2. QED BY <2>1 DEF StepInv, HostOk, AppliedOk
  <1>3. QED BY <1>1, <1>2, RoundHolds, TypeCorrect, StepStep, PTL DEF Spec
-----------------------------------------------------------------------------
(* A run ends from its `finally` only, and with a Stop sent to every host  *)
(* unless a signal cut that round short.                                   *)
StopInv == pc = "stop" => 1..sent \subseteq asked

THEOREM AllAreStopped == Spec => EveryHostIsStopped
  <1>1. Init => StopInv
    BY DEF Init, StopInv
  <1>2. TypeOK /\ StopInv /\ [Next]_vars => StopInv'
    <2> SUFFICES ASSUME TypeOK, StopInv, [Next]_vars PROVE StopInv'
      OBVIOUS
    <2>1. CASE Submit
      BY <2>1 DEF Submit, StopInv, TypeOK
    <2>2. CASE After
      <3>1. sent' = 0
        BY <2>2 DEF After, AfterRegister, AfterInit, Start, AfterUpdate, AfterStop,
                    NextRound
      <3>2. QED BY <3>1 DEF StopInv
    <2>3. CASE Signal
      BY <2>3 DEF Signal, SignalKills, SignalInLoop, SignalInJoin, NextRound, StopInv
    <2>4. ASSUME NEW h \in Hosts, Handler(h) \/ Exit(h) \/ Lose(h) PROVE StopInv'
      BY <2>4 DEF Handler, Exit, Lose, coordVars, StopInv
    <2>5. CASE Done \/ UNCHANGED vars
      BY <2>5 DEF Done, vars, coordVars, StopInv
    <2>6. QED BY <2>1, <2>2, <2>3, <2>4, <2>5 DEF Next
  <1>3. TypeOK /\ StopInv /\ [Next]_vars =>
          [pc' = "finished" /\ pc # "finished" =>
             pc = "stop" /\ (asked' = Hosts \/ cut = "yes")]_vars
    <2> SUFFICES ASSUME TypeOK, StopInv, [Next]_vars, pc' = "finished", pc # "finished"
                 PROVE  pc = "stop" /\ (asked' = Hosts \/ cut = "yes")
      OBVIOUS
    <2>1. pc = "stop" /\ Submitted /\ asked' = asked
      BY DEF Next, Submit, After, AfterRegister, AfterInit, Start, AfterUpdate, AfterStop,
             Signal, SignalKills, SignalInLoop, SignalInJoin, NextRound, Joined, Handler,
             Exit, Lose, Done, vars, coordVars, Rounds
    <2>2. QED BY <2>1 DEF Submitted, StopInv, TypeOK, Hosts
  <1>4. QED BY <1>1, <1>2, <1>3, TypeCorrect, PTL DEF Spec, EveryHostIsStopped
=============================================================================
