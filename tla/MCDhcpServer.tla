---------------------------- MODULE MCDhcpServer ----------------------------
(* Constants for model-checking DhcpServer on its own. *)
EXTENDS DhcpServer, TLC

CONSTANTS a, b, c

\* Two-octet addresses in base 4.  The pool is 5 (1.1, the same both ways) and
\* 6 (1.2, which reads 9 backwards); 9 is an address outside the pool.
MCPool == 5..6
MCForeignIP == 9
MCIP == MCPool \cup {MCForeignIP}

\* The packets of RFC 2131, table 4, with every address of the pool; the foreign
\* one is asked for in a DISCOVER.
Shape(t, m, r, s, i, d) ==
    [type |-> t, mac |-> m, req |-> r, sid |-> s, ci |-> i, dst |-> d]
MCPacket(macs) ==
    UNION {
        {Shape("DISCOVER", m, r, NoIP, NoIP, "broadcast") : r \in IP \cup {NoIP}}
        \cup {Shape("REQUEST", m, r, s, NoIP, "broadcast") :
                r \in MCPool, s \in {NoIP, ServerIP}}
        \cup {Shape("REQUEST", m, 5, OtherServer, NoIP, "broadcast")}
        \cup {Shape("REQUEST", m, NoIP, NoIP, i, "us") : i \in {5, ServerIP}}
        \cup {Shape("REQUEST", m, NoIP, NoIP, 5, "other"),
              Shape("REQUEST", m, NoIP, NoIP, NoIP, "broadcast"),
              Shape("DECLINE", m, 5, ServerIP, NoIP, "broadcast"),
              Shape("RELEASE", m, NoIP, ServerIP, 5, "us")}
        : m \in macs}

PacketsA == MCPacket({a})
SymmetryABC == Permutations({a, b, c})
PacketsABC == MCPacket({a, b, c})
=============================================================================
