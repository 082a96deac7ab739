------------------------------ MODULE DnsProxy ------------------------------
(***************************************************************************)
(* The filtering resolver of src/core/DnsProxyServer.cpp: clients' queries *)
(* are refused, answered from the cache or forwarded under an identifier   *)
(* of the proxy's own; answers are matched by that identifier alone, and a *)
(* timer retries on the second upstream and gives up.  Everything runs in  *)
(* the proxy's thread, a handler at a time; start, stop and the block list *)
(* arrive as queued calls (module FilterControl says when).                *)
(*                                                                         *)
(* A name stands for a name and a query type.  Datagrams from outside the  *)
(* LAN, malformed ones and ones over the rate limit change nothing but a   *)
(* counter.                                                                *)
(***************************************************************************)
EXTENDS Naturals, FiniteSets

CONSTANTS
    Client,      \* hosts of the LAN
    Domain,      \* names clients ask for
    Suffix,      \* a name and the names of its parent domains
    List,        \* block lists that may be downloaded
    Id,          \* upstream transaction identifiers
    MaxQueries,  \* kMaxQueriesPerSecond
    RetryAge,    \* age of a query past kUpstreamTimeoutMs, in steps of the clock
    MaxAge       \* age of a query past kPendingMaxAgeMs

ASSUME DnsAssumption ==
    /\ DOMAIN Suffix = Domain /\ \A d \in Domain : d \in Suffix[d]
    /\ {} \notin List
    /\ Id # {} /\ IsFiniteSet(Id)
    /\ MaxQueries \in Nat \ {0}
    /\ RetryAge \in Nat \ {0} /\ MaxAge \in Nat /\ RetryAge <= MaxAge

VARIABLES
    running,     \* m_running, the sockets and the timer
    blocked,     \* m_blockedDomains
    rate,        \* m_rateCounters: queries of a client in the present second
    pending,     \* m_pending
    cache,       \* m_cache, without what has expired
    asked,       \* the upstreams' side: questions whose answers may still come
    out          \* the datagram this step sent to a client

vars == <<running, blocked, rate, pending, cache, asked, out>>

-----------------------------------------------------------------------------

None == [none |-> TRUE]

\* shared is no field of the code: the identifier was drawn although an
\* answer to another question could still come under it.
Query == [client: Client, domain: Domain, age: 0..MaxAge, retried: BOOLEAN, shared: BOOLEAN]
Answer == [answer: Domain, shared: BOOLEAN]
Question == [id: Id, domain: Domain]
Datagram == [to: Client, question: Domain, answer: Domain \cup {"NXDOMAIN"},
             via: {"filter", "cache", "upstream"}, shared: BOOLEAN]

TypeOK ==
    /\ running \in BOOLEAN
    /\ blocked \in List \cup {{}}
    /\ rate \in [Client -> 0..MaxQueries]
    /\ pending \in [Id -> Query \cup {None}]
    /\ cache \in [Domain -> Answer \cup {None}]
    /\ asked \subseteq Question
    /\ out \in Datagram \cup {None}

NoQueries == [id \in Id |-> None]
NoAnswers == [d \in Domain |-> None]
NoRates == [c \in Client |-> 0]

Init ==
    /\ running = FALSE
    /\ blocked = {}
    /\ rate = NoRates
    /\ pending = NoQueries
    /\ cache = NoAnswers
    /\ asked = {}
    /\ out = None

IsBlocked(d) == Suffix[d] \cap blocked # {}

\* Up to 20 draws look for an identifier that is not pending; that all of them
\* fail stands for a full table.
Free == {id \in Id : pending[id] = None}
Drawn == IF Free # {} THEN Free ELSE Id

-----------------------------------------------------------------------------
(* onClientDatagram.                                                       *)

Counted(c) ==
    /\ running
    /\ rate[c] < MaxQueries
    /\ rate' = [rate EXCEPT ![c] = @ + 1]

Refuse(c, d) ==
    /\ Counted(c)
    /\ IsBlocked(d)
    /\ out' = [to |-> c, question |-> d, answer |-> "NXDOMAIN", via |-> "filter", shared |-> FALSE]
    /\ UNCHANGED <<running, blocked, pending, cache, asked>>

\* Mutant of RelayFromCache: the cache is consulted first.
RelayFromCacheFirst(c, d) ==
    /\ Counted(c)
    /\ cache[d] # None
    /\ out' = [to |-> c, question |-> d, answer |-> cache[d].answer, via |-> "cache",
               shared |-> cache[d].shared]
    /\ UNCHANGED <<running, blocked, pending, cache, asked>>

RelayFromCache(c, d) ==
    /\ Counted(c)
    /\ ~IsBlocked(d)
    /\ cache[d] # None
    /\ out' = [to |-> c, question |-> d, answer |-> cache[d].answer, via |-> "cache",
               shared |-> cache[d].shared]
    /\ UNCHANGED <<running, blocked, pending, cache, asked>>

Forward(c, d, id) ==
    /\ Counted(c)
    /\ ~IsBlocked(d)
    /\ cache[d] = None
    /\ id \in Drawn
    /\ pending' = [pending EXCEPT ![id] =
           [client |-> c, domain |-> d, age |-> 0, retried |-> FALSE,
            shared |-> \E q \in asked : q.id = id /\ q.domain # d]]
    /\ asked' = asked \cup {[id |-> id, domain |-> d]}
    /\ out' = None
    /\ UNCHANGED <<running, blocked, cache>>

-----------------------------------------------------------------------------
(* onUpstreamDatagram.                                                     *)

\* Mutant of CacheKey: all names share an entry.
CacheKeyOfType(p) == CHOOSE d \in Domain : TRUE

CacheKey(p) == p.domain

\* The answer to q arrives, perhaps once more: it is relayed to whoever is
\* pending under its identifier, and stored under the name that one asked for.
UpstreamAnswer(q) ==
    /\ running
    /\ q \in asked
    /\ pending[q.id] # None
    /\ LET p == pending[q.id]
       IN  /\ out' = [to |-> p.client, question |-> p.domain, answer |-> q.domain,
                      via |-> "upstream", shared |-> p.shared]
           /\ cache' = [cache EXCEPT ![CacheKey(p)] =
                            [answer |-> q.domain, shared |-> p.shared]]
    /\ pending' = [pending EXCEPT ![q.id] = None]
    /\ asked' \in {asked, asked \ {q}}
    /\ UNCHANGED <<running, blocked, rate>>

\* An answer is lost, or dropped because nothing is pending under its
\* identifier any more.
AnswerGone(q) ==
    /\ q \in asked
    /\ asked' = asked \ {q}
    /\ out' = None
    /\ UNCHANGED <<running, blocked, rate, pending, cache>>

-----------------------------------------------------------------------------
(* Time: onCleanupTick, the rate window, the 30 s of a cache entry.        *)

\* Mutant of TooOld: a retried query is kept for the second upstream.
TooOldUnlessRetried(id) == pending[id] # None /\ pending[id].age = MaxAge /\ ~pending[id].retried

TooOld(id) == pending[id] # None /\ pending[id].age = MaxAge

Retried(id) ==
    /\ pending[id] # None /\ ~TooOld(id)
    /\ pending[id].age >= RetryAge /\ ~pending[id].retried

CleanupTick ==
    /\ running
    /\ pending' = [id \in Id |-> IF TooOld(id) THEN None
                                 ELSE IF Retried(id) THEN [pending[id] EXCEPT !.retried = TRUE]
                                 ELSE pending[id]]
    /\ asked' = asked \cup {[id |-> id, domain |-> pending[id].domain] : id \in {i \in Id : Retried(i)}}
    /\ out' = None
    /\ UNCHANGED <<running, blocked, rate, cache>>

Elapse ==
    /\ pending' = [id \in Id |-> IF pending[id] # None /\ pending[id].age < MaxAge
                                 THEN [pending[id] EXCEPT !.age = @ + 1] ELSE pending[id]]
    /\ rate' = NoRates
    /\ out' = None
    /\ UNCHANGED <<running, blocked, cache, asked>>

Expire(d) ==
    /\ cache[d] # None
    /\ cache' = [cache EXCEPT ![d] = None]
    /\ out' = None
    /\ UNCHANGED <<running, blocked, rate, pending, asked>>

-----------------------------------------------------------------------------
(* Queued calls of the network thread.                                     *)

\* Answers to a closed socket reach nobody.
Stop ==
    /\ rate' = NoRates /\ pending' = NoQueries /\ cache' = NoAnswers
    /\ asked' = {}
    /\ out' = None

\* start stops first; it fails when port 53 is taken.
Start == Stop /\ running' \in BOOLEAN /\ UNCHANGED blocked

Shutdown == Stop /\ running' = FALSE /\ UNCHANGED blocked

\* Neither the cache nor what is pending is looked at.
SetBlockedDomains(list) ==
    /\ blocked' = list
    /\ out' = None
    /\ UNCHANGED <<running, rate, pending, cache, asked>>

Next ==
    \/ \E c \in Client, d \in Domain :
          Refuse(c, d) \/ RelayFromCache(c, d) \/ \E id \in Id : Forward(c, d, id)
    \/ \E q \in Question : UpstreamAnswer(q) \/ AnswerGone(q)
    \/ CleanupTick \/ Elapse
    \/ \E d \in Domain : Expire(d)
    \/ Start \/ Shutdown
    \/ \E list \in List : SetBlockedDomains(list)

Spec == Init /\ [][Next]_vars

\* The timer is served while the proxy runs.
FairSpec == Spec /\ WF_vars(CleanupTick)

-----------------------------------------------------------------------------
(* Properties.                                                             *)

\* A client gets the answer to its own question, from the upstreams or the
\* cache, after a retry, with duplicate and late answers, unless the
\* identifier was drawn while an answer to another question was due under it:
\* the question section of an answer is never compared.
OwnAnswer == out # None => out.answer \in {out.question, "NXDOMAIN"} \/ out.shared

\* A name on the list, itself or a parent, is no longer answered from what the
\* cache holds of the time before the list, nor forwarded, except for the
\* retry of a query that was pending when the list came.
BlockedIsRefused ==
    [][/\ out' # None /\ out'.via = "cache" => ~IsBlocked(out'.question)
       /\ \A q \in asked' \ asked : ~IsBlocked(q.domain)
            \/ \E id \in Id : Retried(id) /\ q.id = id]_vars

\* However lost its answers and retries are, no query is kept for ever.
NoQueryWaitsForever == []<>(\A id \in Id : pending[id] = None \/ pending[id].age < MaxAge)
=============================================================================
