---------------------------- MODULE Coordinator -----------------------------
(***************************************************************************)
(* A Celestial emulation run: the coordinator (celestial.py with           *)
(* celestial/host.py) and the gRPC server of every host (pkg/server).      *)
(*                                                                         *)
(* The coordinator goes through rounds: it submits one call per host to a  *)
(* thread pool and leaves the pool's `with` block when all of them have    *)
(* returned, whatever they returned.  SIGTERM raises SystemExit in the     *)
(* main thread once its handler is installed: inside the loop that         *)
(* submits, the block still waits for the calls; while the block waits,    *)
(* the exception ends the wait and leaves the calls running.               *)
(*                                                                         *)
(* A server handler runs to its end even if the connection of its call is  *)
(* lost, except an Update that has not received its whole stream.  What    *)
(* the handlers do to a host is the subject of Virt and Orchestrator.      *)
(***************************************************************************)
EXTENDS Naturals, FiniteSets

CONSTANTS
  NumHosts,    \* hosts on the command line
  LastStep,    \* number of the last timestep: duration / resolution
  MaxSignals,  \* bound: SIGTERMs the coordinator gets
  MaxLost      \* bound: hosts whose connection may be lost

ASSUME CoordinatorAssumption ==
  /\ NumHosts \in Nat \ {0} /\ LastStep \in Nat
  /\ MaxSignals \in Nat /\ MaxLost \in Nat

Hosts == 1..NumHosts

VARIABLES
  pc,        \* where the coordinator's main thread is
  step,      \* number of the current timestep
  sent,      \* hosts the current round has submitted a call for: 1..sent
  cut,       \* "yes" once a signal has ended the loop that submits
  signals,   \* SIGTERMs so far
  keys,      \* hosts whose Register the coordinator has the answer of
  asked,     \* hosts a Stop was submitted for
  handlers,  \* the calls running at a host; `heard` if the coordinator waits
  server,    \* "up"; "released" after Stop, s.o = nil; "down"
  init,      \* how the Init of a host ended
  applied,   \* the timesteps whose Update has succeeded at a host
  missed,    \* history: hosts that an Update failed at
  lost       \* history: hosts whose connection was lost

coordVars == <<pc, step, sent, cut, signals, asked>>
hostVars == <<keys, handlers, server, init, applied, missed, lost>>
vars == <<coordVars, hostVars>>

Rounds == {"register", "init", "update", "stop"}
Ended == {"finished", "crashed", "killed"}
Calls == [kind : Rounds, step : 0..LastStep, stage : {"receive", "run"},
          heard : BOOLEAN]

Orphan(x) == [kind |-> x.kind, step |-> x.step, stage |-> x.stage, heard |-> FALSE]
Running(x) == [kind |-> x.kind, step |-> x.step, stage |-> "run", heard |-> x.heard]
-----------------------------------------------------------------------------
Init ==
  /\ pc = "register" /\ step = 0 /\ sent = 0 /\ cut = "no" /\ signals = 0
  /\ keys = {} /\ asked = {}
  /\ handlers = [h \in Hosts |-> {}]
  /\ server = [h \in Hosts |-> "up"]
  /\ init = [h \in Hosts |-> "none"]
  /\ applied = [h \in Hosts |-> {}]
  /\ missed = {} /\ lost = {}

(* e.submit, for the next host; a call to a host that is down fails.       *)
NewCall == [kind |-> pc, step |-> step, heard |-> TRUE,
            stage |-> IF pc = "update" THEN "receive" ELSE "run"]

Submit ==
  /\ pc \in Rounds /\ sent < NumHosts /\ cut = "no"
  /\ sent' = sent + 1
  /\ LET h == sent + 1
     IN /\ asked' = IF pc = "stop" THEN asked \union {h} ELSE asked
        /\ handlers' = IF server[h] = "down" THEN handlers
                       ELSE [handlers EXCEPT ![h] = @ \union {NewCall}]
  /\ UNCHANGED <<pc, step, cut, signals, keys, server, init, applied, missed, lost>>

(* The calls of this round that the thread pool waits for.                 *)
Outstanding == {h \in Hosts : \E x \in handlers[h] : x.heard /\ x.kind = pc}
Submitted == sent = NumHosts \/ cut = "yes"

(* Mutant: the pool does not wait for its threads.                         *)
JoinedMutant == Submitted
Joined == Submitted /\ Outstanding = {}

NextRound(round) == pc' = round /\ sent' = 0 /\ cut' = "no"

(* Mutant: a host that has not registered is waited for.                   *)
AfterRegisterMutant ==
  /\ pc = "register" /\ Joined /\ keys = Hosts
  /\ NextRound("init")
  /\ UNCHANGED <<step, signals, asked, hostVars>>

(* make_init_request needs the key of every host: without one it raises,   *)
(* and no `finally` is there yet.                                          *)
AfterRegister ==
  /\ pc = "register" /\ Joined
  /\ NextRound(IF keys = Hosts THEN "init" ELSE "crashed")
  /\ UNCHANGED <<step, signals, asked, hostVars>>

AfterInit ==
  /\ pc = "init" /\ Joined
  /\ NextRound("ready")
  /\ UNCHANGED <<step, signals, asked, hostVars>>

(* The first diff is computed, and the handler of SIGTERM installed.       *)
Start ==
  /\ pc = "ready"
  /\ NextRound("update")
  /\ UNCHANGED <<step, signals, asked, hostVars>>

(* Mutant: SystemExit leaves the loop without the `finally`.               *)
AfterUpdateMutant ==
  /\ pc = "update" /\ Joined
  /\ IF cut = "yes" THEN NextRound("finished") /\ UNCHANGED step
     ELSE IF step = LastStep THEN NextRound("stop") /\ UNCHANGED step
     ELSE NextRound("update") /\ step' = step + 1
  /\ UNCHANGED <<signals, asked, hostVars>>

(* Mutant: the loop ends after the first timestep beyond the duration.     *)
AfterUpdateLateMutant ==
  /\ pc = "update" /\ Joined
  /\ IF cut = "yes" \/ step > LastStep
     THEN NextRound("stop") /\ UNCHANGED step
     ELSE NextRound("update") /\ step' = step + 1
  /\ UNCHANGED <<signals, asked, hostVars>>

(* The next timestep, however late, or the `finally`.                      *)
AfterUpdate ==
  /\ pc = "update" /\ Joined
  /\ IF cut = "yes" \/ step = LastStep
     THEN NextRound("stop") /\ UNCHANGED step
     ELSE NextRound("update") /\ step' = step + 1
  /\ UNCHANGED <<signals, asked, hostVars>>

AfterStop ==
  /\ pc = "stop" /\ Joined
  /\ NextRound("finished")
  /\ UNCHANGED <<step, signals, asked, hostVars>>

-----------------------------------------------------------------------------
(* SIGTERM kills the coordinator until its handler is installed.           *)
SignalKills ==
  /\ pc \in {"register", "init", "ready"}
  /\ NextRound("killed")
  /\ handlers' = [h \in Hosts |-> {Orphan(x) : x \in handlers[h]}]

(* Raised before or in the loop that submits.                              *)
SignalInLoop ==
  /\ pc \in {"update", "stop"} /\ cut = "no"
  /\ cut' = "yes"
  /\ UNCHANGED <<pc, sent, handlers>>

(* Raised in the wait for the threads of the pool.                         *)
SignalInJoin ==
  /\ pc \in {"update", "stop"} /\ Submitted
  /\ NextRound(IF pc = "update" THEN "stop" ELSE "finished")
  /\ UNCHANGED handlers

Signal ==
  /\ signals < MaxSignals /\ signals' = signals + 1
  /\ SignalKills \/ SignalInLoop \/ SignalInJoin
  /\ UNCHANGED <<step, asked, keys, server, init, applied, missed, lost>>

-----------------------------------------------------------------------------
(* The server of a host.                                                   *)

(* A panic in a handler ends the process, and with it every call.          *)
Down(h) ==
  /\ server' = [server EXCEPT ![h] = "down"]
  /\ handlers' = [handlers EXCEPT ![h] = {}]
  /\ missed' = IF \E x \in handlers[h] : x.kind = "update"
               THEN missed \union {h} ELSE missed
  /\ UNCHANGED <<keys, init, applied, lost>>

(* The stream has ended and o.Update is called, on a nil Orchestrator if   *)
(* Stop has released it, on one without links if Init has not succeeded.   *)
Received(h, x) ==
  /\ x.kind = "update" /\ x.stage = "receive"
  /\ \/ server[h] = "up"
        /\ handlers' = [handlers EXCEPT ![h] =
                          (@ \ {x}) \union {Running(x)}]
        /\ UNCHANGED <<keys, server, init, applied, missed, lost>>
     \/ (server[h] = "released" \/ init[h] # "ok") /\ Down(h)

EndRegister(h, x) ==
  /\ x.kind = "register"
  /\ \/ keys' = keys \union {g \in {h} : x.heard}
     \/ UNCHANGED keys
  /\ UNCHANGED <<server, init, applied, missed>>

EndInit(h, x) ==
  /\ x.kind = "init"
  /\ init' \in {[init EXCEPT ![h] = e] : e \in {"ok", "failed"}}
  /\ UNCHANGED <<keys, server, applied, missed>>

EndUpdate(h, x) ==
  /\ x.kind = "update"
  /\ \/ applied' = [applied EXCEPT ![h] = @ \union {x.step}] /\ UNCHANGED missed
     \/ missed' = missed \union {h} /\ UNCHANGED applied
  /\ UNCHANGED <<keys, server, init>>

EndStop(h, x) ==
  /\ x.kind = "stop"
  /\ server' \in {server, [server EXCEPT ![h] = "released"]}
  /\ UNCHANGED <<keys, init, applied, missed>>

Return(h, x) ==
  /\ x.stage = "run"
  /\ handlers' = [handlers EXCEPT ![h] = @ \ {x}]
  /\ EndRegister(h, x) \/ EndInit(h, x) \/ EndUpdate(h, x) \/ EndStop(h, x)
  /\ UNCHANGED lost

Handler(h) ==
  /\ \E x \in handlers[h] : Received(h, x) \/ Return(h, x)
  /\ UNCHANGED coordVars

(* os.Exit, five seconds after a Stop.                                     *)
Exit(h) == server[h] = "released" /\ Down(h) /\ UNCHANGED coordVars

(* A connection is lost: the call fails, its handler never began, or is    *)
(* aborted while it receives, or goes on unheard.                          *)
Lose(h) ==
  /\ h \in lost \/ Cardinality(lost) < MaxLost
  /\ lost' = lost \union {h}
  /\ \E x \in handlers[h] :
       /\ x.heard
       /\ \/ handlers' = [handlers EXCEPT ![h] = @ \ {x}]
          \/ x.stage = "run"
             /\ handlers' = [handlers EXCEPT ![h] = (@ \ {x}) \union {Orphan(x)}]
       /\ missed' = IF x.kind = "update" THEN missed \union {h} ELSE missed
  /\ UNCHANGED <<coordVars, keys, server, init, applied>>

(* The coordinator has exited, and no call is running.                     *)
Done == pc \in Ended /\ (\A h \in Hosts : handlers[h] = {}) /\ UNCHANGED vars

After == AfterRegister \/ AfterInit \/ Start \/ AfterUpdate \/ AfterStop

Next ==
  \/ Submit \/ After \/ Signal
  \/ \E h \in Hosts : Handler(h) \/ Exit(h) \/ Lose(h)
  \/ Done

(* The main thread runs, and a handler that has its host for itself ends   *)
(* (Virt's CallsReturn).  A Stop that meets an Update may hang with it.    *)
Alone(h) == Cardinality(handlers[h]) = 1
Fairness ==
  /\ WF_vars(Submit) /\ WF_vars(After)
  /\ \A h \in Hosts : WF_vars(Alone(h) /\ Handler(h))

Spec == Init /\ [][Next]_vars /\ Fairness
-----------------------------------------------------------------------------
(* Every variable has its type; the calls that run at a host are Calls.    *)
TypeOK ==
  /\ pc \in Rounds \union Ended \union {"ready"}
  /\ step \in 0..LastStep /\ sent \in 0..NumHosts /\ cut \in {"no", "yes"}
  /\ signals \in 0..MaxSignals
  /\ keys \subseteq Hosts /\ asked \subseteq Hosts
  /\ handlers \in [Hosts -> SUBSET Calls]
  /\ server \in [Hosts -> {"up", "released", "down"}]
  /\ init \in [Hosts -> {"none", "ok", "failed"}]
  /\ applied \in [Hosts -> SUBSET (0..LastStep)]
  /\ missed \subseteq Hosts /\ lost \subseteq Hosts

(* Two handlers never run at a host at once, for which neither the server  *)
(* nor the orchestrator has a lock, unless the connection was lost or a    *)
(* signal ended the wait for an Update; then they are an Update and a Stop. *)
OneHandlerPerHost ==
  \A h \in Hosts \ lost : \A x, y \in handlers[h] :
    x # y => signals > 0 /\ {x.kind, y.kind} = {"update", "stop"}

(* Hosts stay in step: while any host handles the Update of a timestep, a  *)
(* host at which no Update has failed and whose connection holds has       *)
(* applied every earlier one and none after it.                            *)
HostsInStep ==
  \A h, g \in Hosts : \A x \in handlers[h] :
    x.kind = "update" /\ h \notin lost /\ g \notin lost \union missed =>
      /\ 0..(x.step - 1) \subseteq applied[g]
      /\ applied[g] \subseteq 0..x.step

(* A run only finishes from its `finally`, and only a further signal there *)
(* keeps it from submitting a Stop for every host, whatever calls failed.  *)
EveryHostIsStopped ==
  [][pc' = "finished" /\ pc # "finished" =>
       pc = "stop" /\ (asked' = Hosts \/ cut = "yes")]_vars

(* A run comes to an end, unless a Stop meets an Update at some host.      *)
RunEnds ==
  <>(pc \in Ended \/ \E h \in Hosts : Cardinality(handlers[h]) > 1)
=============================================================================
