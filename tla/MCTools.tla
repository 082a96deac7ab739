------------------------------ MODULE MCTools ------------------------------
(* Constants for model-checking Tools. *)
EXTENDS Tools

\* Two suffixes at the end of the first vendor's name.
MCBoilerplate == [o \in Oui |-> IF o = "o1" THEN 2 ELSE 0]

\* Two entries, of which the second wins when both match.
MCModel == <<[priority |-> 5, class |-> "home", caps |-> {"WPA3"}],
             [priority |-> 9, class |-> "enterprise", caps |-> {"VPN", "IPv6"}]>>

\* "s" stays at "x", "a" moves between "y" and "z".
MCUses == {<<"x", "s">>, <<"y", "a">>, <<"z", "a">>}
MCMaxBytes == [m \in Device |-> 1]

\* Any set of single addresses, and any two lines.
MCInputLists ==
    SUBSET {[base |-> a, prefix |-> Width] : a \in Ip} \cup {{k, l} : k, l \in Line}
=============================================================================
