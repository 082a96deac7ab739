---------------------------- MODULE DnsProxyProofs ----------------------------
(***************************************************************************)
(* Theorems about the resolver: for any clients, names and lists, and any  *)
(* number of transaction identifiers.                                      *)
(***************************************************************************)
EXTENDS DnsProxy, FiniteSetTheorems, TLAPS

-----------------------------------------------------------------------------
(* Types.                                                                  *)

LEMMA TypeStart == Init => TypeOK
<1>1. 0 \in 0 .. MaxQueries
  BY DnsAssumption
<1> QED
  BY <1>1 DEF Init, TypeOK, NoRates, NoQueries, NoAnswers

\* Counting a query keeps a client within its rate.
LEMMA RateStays ==
    ASSUME TypeOK, NEW c \in Client, Counted(c)
    PROVE  rate' \in [Client -> 0 .. MaxQueries]
<1>1. MaxQueries \in Nat /\ rate[c] \in 0 .. MaxQueries
  BY DnsAssumption DEF TypeOK
<1>2. rate[c] + 1 \in 0 .. MaxQueries
  BY <1>1 DEF Counted
<1> QED
  BY <1>2 DEF Counted, TypeOK

\* What a query is after a retry, and when it grows older.
LEMMA OlderQuery ==
    ASSUME NEW p \in Query
    PROVE  /\ LET r == [p EXCEPT !.retried = TRUE]
              IN  r \in Query /\ r.domain = p.domain /\ r.shared = p.shared /\ r.age = p.age
           /\ p.age < MaxAge =>
              LET r == [p EXCEPT !.age = @ + 1]
              IN  r \in Query /\ r.domain = p.domain /\ r.shared = p.shared
<1>1. p.age \in 0 .. MaxAge /\ MaxAge \in Nat
  BY DnsAssumption DEF Query
<1>2. p.age < MaxAge => p.age + 1 \in 0 .. MaxAge
  BY <1>1
<1>3. p = [client |-> p.client, domain |-> p.domain, age |-> p.age, retried |-> p.retried,
           shared |-> p.shared]
  BY DEF Query
<1>4. /\ p.client \in Client /\ p.domain \in Domain /\ p.retried \in BOOLEAN
      /\ p.shared \in BOOLEAN
  BY DEF Query
<1>5. ASSUME NEW r, r = [p EXCEPT !.retried = TRUE]
      PROVE  r \in Query /\ r.domain = p.domain /\ r.shared = p.shared /\ r.age = p.age
  <2>1. r = [client |-> p.client, domain |-> p.domain, age |-> p.age, retried |-> TRUE,
             shared |-> p.shared]
    BY <1>3, <1>5
  <2> QED
    BY <1>1, <1>4, <2>1 DEF Query
<1>6. ASSUME NEW r, p.age < MaxAge, r = [p EXCEPT !.age = @ + 1]
      PROVE  r \in Query /\ r.domain = p.domain /\ r.shared = p.shared
  <2>1. r = [client |-> p.client, domain |-> p.domain, age |-> p.age + 1, retried |-> p.retried,
             shared |-> p.shared]
    BY <1>3, <1>6
  <2> QED
    BY <1>2, <1>4, <1>6, <2>1 DEF Query
<1> QED
  BY <1>5, <1>6

\* What a client gets, and what is stored, is of its type.
LEMMA RepliesAreTyped ==
    ASSUME TypeOK, NEW c \in Client, NEW d \in Domain
    PROVE  /\ [to |-> c, question |-> d, answer |-> "NXDOMAIN", via |-> "filter", shared |-> FALSE]
                  \in Datagram
           /\ cache[d] # None =>
                [to |-> c, question |-> d, answer |-> cache[d].answer, via |-> "cache",
                 shared |-> cache[d].shared] \in Datagram
<1>1. cache[d] # None => cache[d].answer \in Domain /\ cache[d].shared \in BOOLEAN
  BY DEF TypeOK, Answer
<1> QED
  BY <1>1 DEF Datagram

LEMMA TypeKept == TypeOK /\ [Next]_vars => TypeOK'
<1> SUFFICES ASSUME TypeOK, [Next]_vars PROVE TypeOK'
  OBVIOUS
<1>0. 0 \in 0 .. MaxQueries /\ 0 \in 0 .. MaxAge
  BY DnsAssumption
<1>1. ASSUME NEW c \in Client, NEW d \in Domain, Refuse(c, d) PROVE TypeOK'
  <2>1. out' \in Datagram
    BY <1>1, RepliesAreTyped DEF Refuse
  <2>2. rate' \in [Client -> 0 .. MaxQueries]
    BY <1>1, RateStays DEF Refuse
  <2> QED
    BY <1>1, <2>1, <2>2 DEF Refuse, TypeOK
<1>2. ASSUME NEW c \in Client, NEW d \in Domain, RelayFromCache(c, d) PROVE TypeOK'
  <2>1. out' \in Datagram
    BY <1>2, RepliesAreTyped DEF RelayFromCache
  <2>2. rate' \in [Client -> 0 .. MaxQueries]
    BY <1>2, RateStays DEF RelayFromCache
  <2> QED
    BY <1>2, <2>1, <2>2 DEF RelayFromCache, TypeOK
<1>3. ASSUME NEW c \in Client, NEW d \in Domain, NEW id \in Id, Forward(c, d, id) PROVE TypeOK'
  <2> DEFINE shared == \E q \in asked : q.id = id /\ q.domain # d
             new == [client |-> c, domain |-> d, age |-> 0, retried |-> FALSE, shared |-> shared]
             question == [id |-> id, domain |-> d]
  <2>1. new \in Query
    <3>1. shared \in BOOLEAN
      OBVIOUS
    <3> HIDE DEF shared
    <3> QED
      BY <1>0, <3>1 DEF Query
  <2>2. question \in Question
    BY DEF Question
  <2>3. /\ pending' = [pending EXCEPT ![id] = new] /\ asked' = asked \cup {question}
        /\ out' = None /\ UNCHANGED <<running, blocked, cache>>
    BY <1>3 DEF Forward
  <2> HIDE DEF new, question
  <2>4. rate' \in [Client -> 0 .. MaxQueries]
    BY <1>3, RateStays DEF Forward
  <2> QED
    BY <2>1, <2>2, <2>3, <2>4 DEF TypeOK
<1>4. ASSUME NEW q \in Question, UpstreamAnswer(q) PROVE TypeOK'
  <2> DEFINE p == pending[q.id]
             reply == [to |-> p.client, question |-> p.domain, answer |-> q.domain,
                       via |-> "upstream", shared |-> p.shared]
             entry == [answer |-> q.domain, shared |-> p.shared]
  <2>1. p \in Query /\ q.domain \in Domain /\ q.id \in Id
    BY <1>4 DEF UpstreamAnswer, TypeOK, Question
  <2>2. /\ out' = reply /\ cache' = [cache EXCEPT ![p.domain] = entry]
        /\ pending' = [pending EXCEPT ![q.id] = None] /\ asked' \subseteq asked
        /\ UNCHANGED <<running, blocked, rate>>
    BY <1>4 DEF UpstreamAnswer, CacheKey
  <2>3. p.client \in Client /\ p.domain \in Domain /\ p.shared \in BOOLEAN
    <3> HIDE DEF p
    <3> QED
      BY <2>1 DEF Query
  <2>4. reply \in Datagram
    <3> HIDE DEF p
    <3> QED
      BY <2>1, <2>3 DEF Datagram
  <2>5. entry \in Answer
    <3> HIDE DEF p
    <3> QED
      BY <2>1, <2>3 DEF Answer
  <2> HIDE DEF p, reply, entry
  <2> QED
    BY <2>1, <2>2, <2>3, <2>4, <2>5 DEF TypeOK
<1>5. ASSUME NEW q \in Question, AnswerGone(q) PROVE TypeOK'
  BY <1>5 DEF AnswerGone, TypeOK
<1>6. CASE CleanupTick
  <2>1. ASSUME NEW id \in Id PROVE pending'[id] \in Query \cup {None}
    <3>1. CASE Retried(id)
      <4>1. pending'[id] = [pending[id] EXCEPT !.retried = TRUE] /\ pending[id] \in Query
        BY <1>6, <3>1 DEF CleanupTick, Retried, TypeOK
      <4> QED
        BY <4>1, OlderQuery
    <3>2. CASE ~Retried(id)
      BY <1>6, <3>2 DEF CleanupTick, TypeOK
    <3> QED
      BY <3>1, <3>2
  <2>2. pending' = [id \in Id |-> pending'[id]]
    BY <1>6 DEF CleanupTick
  <2>3. ASSUME NEW id \in Id, Retried(id) PROVE [id |-> id, domain |-> pending[id].domain] \in Question
    <3>1. pending[id].domain \in Domain
      BY <2>3 DEF Retried, TypeOK, Query
    <3> QED
      BY <3>1 DEF Question
  <2>4. asked' \subseteq Question
    BY <1>6, <2>3 DEF CleanupTick, TypeOK
  <2>5. pending' \in [Id -> Query \cup {None}]
    BY <2>1, <2>2
  <2> QED
    BY <1>6, <2>4, <2>5 DEF CleanupTick, TypeOK
<1>7. CASE Elapse
  <2>1. ASSUME NEW id \in Id PROVE pending'[id] \in Query \cup {None}
    <3>1. CASE pending[id] # None /\ pending[id].age < MaxAge
      <4>1. pending'[id] = [pending[id] EXCEPT !.age = @ + 1] /\ pending[id] \in Query
        BY <1>7, <3>1 DEF Elapse, TypeOK
      <4> QED
        BY <3>1, <4>1, OlderQuery
    <3>2. CASE ~(pending[id] # None /\ pending[id].age < MaxAge)
      BY <1>7, <3>2 DEF Elapse, TypeOK
    <3> QED
      BY <3>1, <3>2
  <2>2. pending' = [id \in Id |-> pending'[id]] /\ rate' \in [Client -> 0 .. MaxQueries]
    BY <1>0, <1>7 DEF Elapse, NoRates
  <2>3. pending' \in [Id -> Query \cup {None}]
    BY <2>1, <2>2
  <2> QED
    BY <1>7, <2>2, <2>3 DEF Elapse, TypeOK
<1>8. ASSUME NEW d \in Domain, Expire(d) PROVE TypeOK'
  BY <1>8 DEF Expire, TypeOK
<1>9. CASE Start \/ Shutdown
  BY <1>0, <1>9 DEF Start, Shutdown, Stop, TypeOK, NoRates, NoQueries, NoAnswers
<1>10. ASSUME NEW list \in List, SetBlockedDomains(list) PROVE TypeOK'
  BY <1>10 DEF SetBlockedDomains, TypeOK
<1>11. CASE UNCHANGED vars
  BY <1>11 DEF vars, TypeOK
<1> QED
  BY <1>1, <1>2, <1>3, <1>4, <1>5, <1>6, <1>7, <1>8, <1>9, <1>10, <1>11 DEF Next

\* Queries, answers and datagrams are what they should be; in particular no
\* client is served more than its rate allows.
THEOREM TypeCorrect == Spec => []TypeOK
BY TypeStart, TypeKept, PTL DEF Spec

-----------------------------------------------------------------------------
(* Whose answer a client gets.                                             *)

\* Unless the identifier was shared when it was drawn, the question that is
\* pending under it is the one that was asked under it; and what is cached
\* under a name is the answer to that name.  None is a record that no query
\* and no answer is.
Matches(id) ==
    pending[id] # None => \A q \in asked : q.id = id => q.domain = pending[id].domain \/ pending[id].shared

AnswerInv ==
    /\ pending = [id \in Id |-> pending[id]]
    /\ cache = [d \in Domain |-> cache[d]]
    /\ asked \subseteq Question
    /\ \A id \in Id : pending[id] # None => pending[id].domain \in Domain
    /\ \A id \in Id : Matches(id)
    /\ \A d \in Domain : cache[d] # None => cache[d].answer = d \/ cache[d].shared
    /\ OwnAnswer

\* A proxy without queries and answers.
LEMMA NothingPending ==
    ASSUME pending = NoQueries, cache = NoAnswers, asked = {}, out = None
    PROVE  AnswerInv
BY DEF NoQueries, NoAnswers, AnswerInv, Matches, OwnAnswer

LEMMA AnswerStart == Init => AnswerInv
BY NothingPending DEF Init

\* The answers that a client gets at once.
LEMMA RefuseKeeps ==
    ASSUME AnswerInv, NEW c \in Client, NEW d \in Domain, Refuse(c, d)
    PROVE  AnswerInv'
<1> DEFINE reply == [to |-> c, question |-> d, answer |-> "NXDOMAIN", via |-> "filter", shared |-> FALSE]
<1>1. out' = reply /\ reply.answer = "NXDOMAIN"
  BY DEF Refuse
<1>2. OwnAnswer'
  <2> HIDE DEF reply
  <2> QED
    BY <1>1 DEF OwnAnswer
<1> QED
  BY <1>2 DEF Refuse, AnswerInv, Matches

LEMMA RelayKeeps ==
    ASSUME AnswerInv, NEW c \in Client, NEW d \in Domain, RelayFromCache(c, d)
    PROVE  AnswerInv'
<1> DEFINE reply == [to |-> c, question |-> d, answer |-> cache[d].answer, via |-> "cache",
                     shared |-> cache[d].shared]
<1>1. /\ out' = reply /\ reply.answer = cache[d].answer /\ reply.question = d
      /\ reply.shared = cache[d].shared /\ cache[d] # None
  BY DEF RelayFromCache
<1>2. OwnAnswer'
  <2> HIDE DEF reply
  <2> QED
    BY <1>1 DEF OwnAnswer, AnswerInv
<1> QED
  BY <1>2 DEF RelayFromCache, AnswerInv, Matches

\* A new query under an identifier.
LEMMA ForwardKeeps ==
    ASSUME AnswerInv, NEW c \in Client, NEW d \in Domain, NEW id \in Id, Forward(c, d, id)
    PROVE  AnswerInv'
<1> DEFINE shared == \E q \in asked : q.id = id /\ q.domain # d
           new == [client |-> c, domain |-> d, age |-> 0, retried |-> FALSE, shared |-> shared]
           question == [id |-> id, domain |-> d]
<1>1. /\ pending' = [pending EXCEPT ![id] = new] /\ asked' = asked \cup {question}
      /\ out' = None /\ cache' = cache
  BY DEF Forward
<1>2. /\ new.domain = d /\ question.id = id /\ question.domain = d
      /\ \A q \in asked : q.id = id /\ q.domain # d => new.shared
  <2>1. new.domain = d /\ new.shared = shared /\ question.id = id /\ question.domain = d
    OBVIOUS
  <2> HIDE DEF new, question
  <2> QED
    BY <2>1
<1>3. question \in Question
  BY DEF Question
<1> HIDE DEF new, question
<1>4. /\ pending' = [i \in Id |-> pending'[i]] /\ pending'[id] = new
      /\ \A i \in Id : i # id => pending'[i] = pending[i]
  BY <1>1 DEF AnswerInv
<1>5. ASSUME NEW i \in Id PROVE Matches(i)'
  <2>1. CASE i = id
    <3>1. ASSUME NEW q \in asked', q.id = id PROVE q.domain = new.domain \/ new.shared
      BY <1>1, <1>2, <3>1
    <3> QED
      BY <1>4, <2>1, <3>1 DEF Matches
  <2>2. CASE i # id
    BY <1>1, <1>2, <1>4, <2>2 DEF AnswerInv, Matches
  <2> QED
    BY <2>1, <2>2
<1> QED
  BY <1>1, <1>2, <1>3, <1>4, <1>5 DEF AnswerInv, OwnAnswer

\* An answer of the upstreams, which the query that waits under its identifier
\* takes for its own.
LEMMA AnswerKeeps ==
    ASSUME AnswerInv, NEW q \in Question, UpstreamAnswer(q)
    PROVE  AnswerInv'
<1> DEFINE p == pending[q.id]
           reply == [to |-> p.client, question |-> p.domain, answer |-> q.domain,
                     via |-> "upstream", shared |-> p.shared]
           entry == [answer |-> q.domain, shared |-> p.shared]
<1>1. q.id \in Id /\ q \in asked /\ p # None /\ asked' \subseteq asked
  BY DEF UpstreamAnswer, Question
<1>2. out' = reply /\ cache' = [cache EXCEPT ![p.domain] = entry]
  BY DEF UpstreamAnswer, CacheKey
<1>3. pending' = [pending EXCEPT ![q.id] = None]
  BY DEF UpstreamAnswer
<1>4. /\ reply.question = p.domain /\ reply.answer = q.domain /\ reply.shared = p.shared
      /\ entry.answer = q.domain /\ entry.shared = p.shared
  OBVIOUS
<1> HIDE DEF reply, entry
<1>5. p.domain \in Domain /\ (q.domain = p.domain \/ p.shared)
  BY <1>1 DEF AnswerInv, Matches
<1> HIDE DEF p
<1>6. /\ pending' = [i \in Id |-> pending'[i]]
      /\ \A i \in Id : pending'[i] # None => pending'[i] = pending[i]
  BY <1>1, <1>3 DEF AnswerInv
<1>7. /\ cache' = [d \in Domain |-> cache'[d]] /\ cache'[p.domain] = entry
      /\ \A d \in Domain : d # p.domain => cache'[d] = cache[d]
  BY <1>2, <1>5 DEF AnswerInv
<1>8. OwnAnswer'
  BY <1>2, <1>4, <1>5 DEF OwnAnswer
<1>9. ASSUME NEW i \in Id PROVE Matches(i)'
  BY <1>1, <1>6 DEF AnswerInv, Matches
<1> QED
  BY <1>1, <1>4, <1>5, <1>6, <1>7, <1>8, <1>9 DEF AnswerInv

\* The query after a tick or a step of the clock: gone, or the same question.
LEMMA TimeKeeps ==
    ASSUME AnswerInv, pending' = [id \in Id |-> pending'[id]],
           \A id \in Id : pending'[id] # None =>
               /\ pending[id] # None /\ pending'[id].domain = pending[id].domain
               /\ pending'[id].shared = pending[id].shared,
           asked' \subseteq Question,
           \A q \in asked' \ asked : pending[q.id] # None /\ q.domain = pending[q.id].domain,
           cache' = cache, out' = None
    PROVE  AnswerInv'
<1>1. ASSUME NEW i \in Id PROVE Matches(i)'
  BY DEF AnswerInv, Matches
<1> QED
  BY <1>1 DEF AnswerInv, OwnAnswer

LEMMA AnswerKept == TypeOK /\ AnswerInv /\ [Next]_vars => AnswerInv'
<1> SUFFICES ASSUME TypeOK, AnswerInv, [Next]_vars PROVE AnswerInv'
  OBVIOUS
<1>1. ASSUME NEW q \in Question, AnswerGone(q) PROVE AnswerInv'
  BY <1>1 DEF AnswerGone, AnswerInv, Matches, OwnAnswer
<1>2. CASE CleanupTick
  <2>1. ASSUME NEW id \in Id, pending'[id] # None
        PROVE  /\ pending[id] # None /\ pending'[id].domain = pending[id].domain
               /\ pending'[id].shared = pending[id].shared
    <3>1. CASE Retried(id)
      <4>1. /\ pending'[id] = [pending[id] EXCEPT !.retried = TRUE] /\ pending[id] \in Query
            /\ pending[id] # None
        BY <1>2, <3>1 DEF CleanupTick, Retried, TypeOK
      <4> QED
        BY <4>1, OlderQuery
    <3>2. CASE ~Retried(id)
      BY <1>2, <2>1, <3>2 DEF CleanupTick
    <3> QED
      BY <3>1, <3>2
  <2>2. ASSUME NEW q \in asked', q \notin asked
        PROVE  pending[q.id] # None /\ q.domain = pending[q.id].domain
    <3>1. PICK id \in Id : Retried(id) /\ q = [id |-> id, domain |-> pending[id].domain]
      BY <1>2, <2>2 DEF CleanupTick
    <3> QED
      BY <3>1 DEF Retried
  <2>3. asked' \subseteq Question
    BY <1>2, TypeKept DEF TypeOK
  <2>4. pending' = [id \in Id |-> pending'[id]] /\ cache' = cache /\ out' = None
    BY <1>2 DEF CleanupTick
  <2> QED
    BY <2>1, <2>2, <2>3, <2>4, TimeKeeps
<1>3. CASE Elapse
  <2>1. ASSUME NEW id \in Id, pending'[id] # None
        PROVE  /\ pending[id] # None /\ pending'[id].domain = pending[id].domain
               /\ pending'[id].shared = pending[id].shared
    <3>1. CASE pending[id] # None /\ pending[id].age < MaxAge
      <4>1. pending'[id] = [pending[id] EXCEPT !.age = @ + 1] /\ pending[id] \in Query
        BY <1>3, <3>1 DEF Elapse, TypeOK
      <4> QED
        BY <3>1, <4>1, OlderQuery
    <3>2. CASE ~(pending[id] # None /\ pending[id].age < MaxAge)
      BY <1>3, <2>1, <3>2 DEF Elapse
    <3> QED
      BY <3>1, <3>2
  <2>2. /\ pending' = [id \in Id |-> pending'[id]] /\ cache' = cache /\ out' = None
        /\ asked' = asked /\ asked \subseteq Question
    BY <1>3 DEF Elapse, AnswerInv
  <2> QED
    BY <2>1, <2>2, TimeKeeps
<1>4. ASSUME NEW d \in Domain, Expire(d) PROVE AnswerInv'
  BY <1>4 DEF Expire, AnswerInv, Matches, OwnAnswer
<1>5. CASE Start \/ Shutdown
  <2>1. (pending = NoQueries /\ cache = NoAnswers /\ asked = {} /\ out = None)'
    BY <1>5 DEF Start, Shutdown, Stop, NoQueries, NoAnswers
  <2> QED
    BY <2>1 DEF NoQueries, NoAnswers, AnswerInv, Matches, OwnAnswer
<1>6. ASSUME NEW list \in List, SetBlockedDomains(list) PROVE AnswerInv'
  BY <1>6 DEF SetBlockedDomains, AnswerInv, Matches, OwnAnswer
<1>7. CASE UNCHANGED vars
  BY <1>7 DEF vars, AnswerInv, Matches, OwnAnswer
<1> QED
  BY <1>1, <1>2, <1>3, <1>4, <1>5, <1>6, <1>7, RefuseKeeps, RelayKeeps, ForwardKeeps, AnswerKeeps
  DEF Next

\* A client gets the answer to its own question, unless the identifier of its
\* query was drawn while an answer to another question was due under it.
THEOREM AnswersAreOwn == Spec => []OwnAnswer
<1>1. AnswerInv => OwnAnswer
  BY DEF AnswerInv
<1> QED
  BY <1>1, TypeStart, TypeKept, AnswerStart, AnswerKept, PTL DEF Spec

-----------------------------------------------------------------------------
(* The filter.                                                             *)

LEMMA FilterHolds ==
    ASSUME TypeOK, [Next]_vars, ~UNCHANGED vars
    PROVE  /\ out' # None /\ out'.via = "cache" => ~IsBlocked(out'.question)
           /\ \A q \in asked' \ asked : ~IsBlocked(q.domain)
                \/ \E id \in Id : Retried(id) /\ q.id = id
<1>1. ASSUME NEW c \in Client, NEW d \in Domain, Refuse(c, d)
      PROVE  out'.via = "filter" /\ asked' = asked
  BY <1>1 DEF Refuse
<1>2. ASSUME NEW c \in Client, NEW d \in Domain, RelayFromCache(c, d)
      PROVE  out'.question = d /\ ~IsBlocked(d) /\ asked' = asked
  BY <1>2 DEF RelayFromCache
<1>3. ASSUME NEW c \in Client, NEW d \in Domain, NEW id \in Id, Forward(c, d, id)
      PROVE  out' = None /\ ~IsBlocked(d) /\ \A q \in asked' \ asked : q.domain = d
  BY <1>3 DEF Forward
<1>4. ASSUME NEW q \in Question, UpstreamAnswer(q)
      PROVE  out'.via = "upstream" /\ asked' \subseteq asked
  BY <1>4 DEF UpstreamAnswer
<1>5. ASSUME NEW q \in Question, AnswerGone(q) PROVE out' = None /\ asked' \subseteq asked
  BY <1>5 DEF AnswerGone
<1>6. CASE CleanupTick
  BY <1>6 DEF CleanupTick
<1>7. CASE Elapse \/ (\E d \in Domain : Expire(d)) \/ (\E list \in List : SetBlockedDomains(list))
  BY <1>7 DEF Elapse, Expire, SetBlockedDomains
<1>8. CASE Start \/ Shutdown
  BY <1>8 DEF Start, Shutdown, Stop
<1> QED
  BY <1>1, <1>2, <1>3, <1>4, <1>5, <1>6, <1>7, <1>8 DEF Next

\* A listed name is neither forwarded nor answered from the cache.
THEOREM FilterIsKept == Spec => BlockedIsRefused
<1>1. TypeOK /\ [Next]_vars =>
          [/\ out' # None /\ out'.via = "cache" => ~IsBlocked(out'.question)
           /\ \A q \in asked' \ asked : ~IsBlocked(q.domain)
                \/ \E id \in Id : Retried(id) /\ q.id = id]_vars
  BY FilterHolds
<1> QED
  BY <1>1, TypeStart, TypeKept, PTL DEF Spec, BlockedIsRefused
=============================================================================
