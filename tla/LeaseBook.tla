----------------------------- MODULE LeaseBook ------------------------------
(***************************************************************************)
(* What a DHCP server promises about addresses: each one has at most one   *)
(* owner.  Ownership is gained by one client at a time, of an address      *)
(* nobody else owns, and may lapse at any moment.  Two exceptions make an  *)
(* address shared for good: the operator pins it, or every pool address is *)
(* owned and the fallback is handed out a second time.                     *)
(***************************************************************************)
EXTENDS Integers

CONSTANTS
    MAC, IP, NoIP,
    Pool,       \* the addresses to give away
    Fallback,   \* the one given away when all are owned
    Pinned      \* the addresses the operator may pin

VARIABLES
    holds,  \* client -> the address it owns, or NoIP
    shared  \* addresses that may have several owners

Init ==
    /\ holds = [m \in MAC |-> NoIP]
    /\ shared = {}

Free(m, ip) == \A o \in MAC \ {m} : holds[o] # ip

Own(m, ip) == holds' = [holds EXCEPT ![m] = ip]

Grant(m, ip) ==
    /\ Free(m, ip) \/ ip \in shared
    /\ Own(m, ip)
    /\ UNCHANGED shared

Pin(m, ip) ==
    /\ ip \in Pinned
    /\ shared' = shared \cup {ip}
    /\ Own(m, ip) \/ Own(m, NoIP)

Overflow(m) ==
    /\ \A ip \in Pool : \E o \in MAC : holds[o] = ip
    /\ shared' = shared \cup {Fallback}
    /\ Own(m, Fallback) \/ Own(m, NoIP)

Lapse(S) ==
    /\ holds' = [m \in MAC |-> IF m \in S THEN NoIP ELSE holds[m]]
    /\ UNCHANGED shared

Next ==
    \/ \E m \in MAC, ip \in IP : Grant(m, ip) \/ Pin(m, ip)
    \/ \E m \in MAC : Overflow(m)
    \/ \E S \in SUBSET MAC : Lapse(S)

vars == <<holds, shared>>

Spec == Init /\ [][Next]_vars
=============================================================================
