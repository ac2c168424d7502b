---------------------------- MODULE AddressPlan -----------------------------
(***************************************************************************)
(* The addresses a Celestial host gives to the machines it registers       *)
(* (getNet and getID of pkg/virt): every machine gets a /30 network of its *)
(* own inside 10.0.0.0/8, a MAC address, and is found again by the         *)
(* addresses of its network when it asks the information service who it    *)
(* is.  Both emulation backends know a link only by the target's network,  *)
(* so two machines with one network would share their links.               *)
(***************************************************************************)
EXTENDS Naturals

(* The limit that getNet enforces.                                         *)
Permitted(m) == m.id <= 16384

Byte(n) == n % 256

(* The network address; gateway is the address after it, ip the next one.  *)
GetNet(m) == <<10, Byte(m.group), Byte(m.id \div 64), Byte(m.id * 4)>>
Address(m, k) == [GetNet(m) EXCEPT ![4] = @ + k]
Gateway == 1
IP == 2

Mac(m) == <<Byte(m.group), Byte((m.id + 2) \div 256), Byte(m.id + 2)>>

(* Mutant: the last byte is taken for an identifier.                       *)
GetIDMutant(ip) == [group |-> ip[2], id |-> ip[3] * 64 + ip[4]]

GetID(ip) == [group |-> ip[2], id |-> ip[3] * 64 + ip[4] \div 4]
=============================================================================
