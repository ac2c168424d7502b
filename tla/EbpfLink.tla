------------------------------ MODULE EbpfLink ------------------------------
(***************************************************************************)
(* One directed link of the eBPF emulation backend (pkg/ebpfem): the entry *)
(* of the kernel map IP_HANDLE_KBPS_DELAY for an address of the target's   *)
(* network, and the record hbd that the backend keeps beside it.           *)
(*                                                                         *)
(* An operation has a set of outcomes, each the link it leaves and whether *)
(* it returned nil.  Put writes the addresses of the target's network one  *)
(* by one, so a Put that fails may or may not have written this address.   *)
(***************************************************************************)
EXTENDS Naturals

DefaultRate == 1000000
BlockedDelay == 1000000000

Link == [mapped: BOOLEAN, rate: Nat, delay: Nat, hbdRate: Nat, hbdDelay: Nat]

(* Register attaches the program to an empty map: nothing is shaped yet.   *)
NewLink == [mapped |-> FALSE, rate |-> 0, delay |-> 0,
            hbdRate |-> DefaultRate, hbdDelay |-> 0]

Ok(link) == [link |-> link, ok |-> TRUE]
Failed(link) == [link |-> link, ok |-> FALSE]

(* Put(ip, value) after hbd has been changed to that of `link`.            *)
Written(link, rate, delay) ==
  [mapped |-> TRUE, rate |-> rate, delay |-> delay,
   hbdRate |-> link.hbdRate, hbdDelay |-> link.hbdDelay]

Put(link, rate, delay) ==
  {Ok(Written(link, rate, delay)), Failed(Written(link, rate, delay)),
   Failed(link)}

(* Rate 0 drops every packet; hbd keeps the shape for the next unblock.    *)
BlockLink(link) == Put(link, 0, BlockedDelay)

(* Mutant: the link is opened with the default shape.                      *)
UnblockLinkMutant(link) == Put(link, DefaultRate, 0)

UnblockLink(link) == Put(link, link.hbdRate, link.hbdDelay)

(* hbd is changed before Put is called, and stays changed if it fails.     *)
WithHbd(link, rate, delay) ==
  [mapped |-> link.mapped, rate |-> link.rate, delay |-> link.delay,
   hbdRate |-> rate, hbdDelay |-> delay]

SetLatency(link, us) == Put(WithHbd(link, link.hbdRate, us), link.hbdRate, us)

SetBandwidth(link, kbps) == Put(WithHbd(link, kbps, link.hbdDelay), kbps, link.hbdDelay)

(* What the tc program does with a packet of this link: throttle_flow      *)
(* drops it when the rate is 0, a link without an entry passes unshaped.   *)
Drops(link) == link.mapped /\ link.rate = 0

(* The shape an open link has, and the one a blocked link will have again. *)
Rate(link)  == IF link.mapped /\ link.rate # 0 THEN link.rate ELSE link.hbdRate
Delay(link) == IF link.mapped /\ link.rate # 0 THEN link.delay ELSE link.hbdDelay
=============================================================================
