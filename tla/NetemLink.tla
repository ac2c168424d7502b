----------------------------- MODULE NetemLink ------------------------------
(***************************************************************************)
(* One directed link of the netem emulation backend (pkg/netem): whether   *)
(* the target's network is in the ipset of blocked networks, and the htb   *)
(* class and netem qdisc that checkLink creates when the link is first     *)
(* used.  Every operation runs the ip, ipset or tc command and reports its *)
(* exit status; a command that fails has changed nothing.                  *)
(***************************************************************************)
EXTENDS Naturals

DefaultRate == 80000000  \* DEFAULTRATE "10.0Gbps", tc's giga bytes, in kbit/s

Link == [created: BOOLEAN, blocked: BOOLEAN, rate: Nat, delay: Nat]

NewLink == [created |-> FALSE, blocked |-> FALSE, rate |-> DefaultRate, delay |-> 0]

Ok(link) == [link |-> link, ok |-> TRUE]
Failed(link) == [link |-> link, ok |-> FALSE]

(* checkLink, then the command: the new class stays if the command fails.  *)
Created(blocked, rate, delay) ==
  [created |-> TRUE, blocked |-> blocked, rate |-> rate, delay |-> delay]
CheckLink(link) == Created(link.blocked, link.rate, link.delay)
Command(link, done) == {Ok(done), Failed(CheckLink(link)), Failed(link)}

(* ipset add ... -exist                                                    *)
BlockLink(link) == Command(link, Created(TRUE, link.rate, link.delay))

(* ipset del, which fails if the network is not in the set.                *)
UnblockLink(link) ==
  IF link.blocked
  THEN Command(link, Created(FALSE, link.rate, link.delay))
  ELSE {Failed(CheckLink(link)), Failed(link)}

(* updateDelay formats x = us / 1000 and y = us % 1000 / 10 as "x.yms", and *)
(* tc reads y as a decimal fraction: tenths if it has one digit, else      *)
(* hundredths of a millisecond.                                            *)
AsRead(us) ==
  LET y == ((us % 1000) \div 10)
  IN (us \div 1000) * 1000 + (IF y < 10 THEN y * 100 ELSE y * 10)

SetLatency(link, us) == Command(link, Created(link.blocked, link.rate, AsRead(us)))

(* Mutant: the class of a blocked link is replaced, not changed.           *)
SetBandwidthMutant(link, kbps) ==
  Command(link, Created(link.blocked, kbps, 0))

(* htb has no class of rate 0: tc refuses it.                              *)
SetBandwidth(link, kbps) ==
  IF kbps = 0 THEN {Failed(CheckLink(link)), Failed(link)}
  ELSE Command(link, Created(link.blocked, kbps, link.delay))

Drops(link) == link.blocked
Rate(link)  == link.rate
Delay(link) == link.delay
=============================================================================
