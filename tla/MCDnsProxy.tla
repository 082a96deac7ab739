----------------------------- MODULE MCDnsProxy -----------------------------
(* Constants for model-checking DnsProxy. *)
EXTENDS DnsProxy, TLC

CONSTANTS page, ad, parent

\* The parent domain of one of the names may be on the list.
MCSuffix == [d \in Domain |-> IF d = ad THEN {ad, parent} ELSE {d}]
MCList == {{parent}}
=============================================================================
