---------------------------- MODULE ToolsProofs ----------------------------
(***************************************************************************)
(* Theorems about the tools, each proved of the specification of its own   *)
(* part first; the last section carries them over to the behaviours of     *)
(* Tools, in which one part moves.                                         *)
(***************************************************************************)
EXTENDS Tools, FiniteSetTheorems, WellFoundedInduction, TLAPS

-----------------------------------------------------------------------------
(* Vendors.                                                                *)

\* A caller that is about to ask for a prefix whose answer came in the
\* meantime finds it pending or unregistered; one that is about to store a name
\* read one.
CallerFits(c) ==
    /\ lookup[c].at # "idle" => lookup[c].oui \in Oui
    /\ lookup[c].at = "write back" =>
          cache[lookup[c].oui] # NoName /\ lookup[c].name \in VendorName
    /\ cacheReady /\ lookup[c].at = "enqueue" /\ cache[lookup[c].oui] # NoName =>
          lookup[c].oui \in negative \cup apiPending

\* What is asked for is pending, is asked for once, and has no answer in the
\* cache.
VendorInv ==
    /\ apiQueue \in Seq(Oui) /\ inFlight \in Oui \cup {NoOui}
    /\ cache \in [Oui -> VendorName \cup {NoName}] /\ cacheReady \in BOOLEAN
    /\ lookup = [c \in Caller |-> lookup[c]]
    /\ IsInjective(apiQueue) /\ inFlight \notin ToSet(apiQueue)
    /\ Requested \subseteq apiPending
    /\ cacheReady => \A o \in Requested : cache[o] = NoName
    /\ \A c \in Caller : CallerFits(c)

\* A request at the end of the queue, one taken from its front, one put back.
LEMMA QueueStaysInjective ==
    ASSUME NEW s \in Seq(Oui), IsInjective(s)
    PROVE  /\ \A o \in Oui : o \notin ToSet(s) =>
                /\ IsInjective(Append(s, o)) /\ ToSet(Append(s, o)) = ToSet(s) \cup {o}
                /\ IsInjective(<<o>> \o s) /\ ToSet(<<o>> \o s) = ToSet(s) \cup {o}
           /\ s # << >> => /\ IsInjective(Tail(s)) /\ Head(s) \in Oui
                           /\ Head(s) \notin ToSet(Tail(s))
                           /\ ToSet(s) = ToSet(Tail(s)) \cup {Head(s)}
<1>1. ASSUME NEW o \in Oui, o \notin ToSet(s)
      PROVE  IsInjective(Append(s, o)) /\ ToSet(Append(s, o)) = ToSet(s) \cup {o}
  <2> DEFINE t == Append(s, o)
  <2>1. /\ DOMAIN t = 1 .. Len(s) + 1 /\ t[Len(s) + 1] = o /\ Len(s) \in Nat
        /\ \A i \in 1 .. Len(s) : t[i] = s[i] /\ DOMAIN s = 1 .. Len(s)
    OBVIOUS
  <2>2. DOMAIN s = 1 .. Len(s)
    OBVIOUS
  <2> HIDE DEF t
  <2> QED
    BY <1>1, <2>1, <2>2 DEF IsInjective, ToSet, t
<1>2. ASSUME NEW o \in Oui, o \notin ToSet(s)
      PROVE  IsInjective(<<o>> \o s) /\ ToSet(<<o>> \o s) = ToSet(s) \cup {o}
  <2> DEFINE t == <<o>> \o s
  <2>1. /\ DOMAIN t = 1 .. Len(s) + 1 /\ t[1] = o /\ Len(s) \in Nat
        /\ \A i \in 2 .. Len(s) + 1 : t[i] = s[i - 1]
    OBVIOUS
  <2>2. DOMAIN s = 1 .. Len(s) /\ \A i \in 1 .. Len(s) : i + 1 \in 2 .. Len(s) + 1 /\ i + 1 - 1 = i
    BY <2>1
  <2>3. \A i \in 1 .. Len(s) : t[i + 1] = s[i]
    BY <2>1, <2>2
  <2> HIDE DEF t
  <2>4. \A i \in DOMAIN t : i = 1 \/ (i - 1 \in DOMAIN s /\ t[i] = s[i - 1])
    BY <2>1, <2>2
  <2>5. IsInjective(t)
    BY <1>1, <1>2, <2>1, <2>2, <2>4 DEF IsInjective, ToSet
  <2>6. ToSet(t) = ToSet(s) \cup {o}
    BY <2>1, <2>2, <2>3, <2>4 DEF ToSet
  <2> QED
    BY <2>5, <2>6 DEF t
<1>3. ASSUME s # << >>
      PROVE  /\ IsInjective(Tail(s)) /\ Head(s) \in Oui
             /\ Head(s) \notin ToSet(Tail(s))
             /\ ToSet(s) = ToSet(Tail(s)) \cup {Head(s)}
  <2> DEFINE t == Tail(s)
  <2>1. /\ Len(s) \in Nat \ {0} /\ DOMAIN s = 1 .. Len(s) /\ DOMAIN t = 1 .. Len(s) - 1
        /\ \A i \in 1 .. Len(s) - 1 : t[i] = s[i + 1]
        /\ Head(s) = s[1] /\ s[1] \in Oui
    BY <1>3
  <2> HIDE DEF t
  <2>2. \A i \in DOMAIN s : i = 1 \/ (i - 1 \in DOMAIN t /\ t[i - 1] = s[i])
    BY <2>1
  <2>3. IsInjective(t) /\ s[1] \notin ToSet(t)
    BY <2>1 DEF IsInjective, ToSet
  <2>4. \A i \in DOMAIN t : i + 1 \in DOMAIN s /\ t[i] = s[i + 1]
    BY <2>1
  <2>5. 1 \in DOMAIN s
    BY <2>1
  <2>6. ToSet(s) = ToSet(t) \cup {s[1]}
    BY <2>2, <2>4, <2>5 DEF ToSet
  <2> QED
    BY <2>1, <2>3, <2>6 DEF t
<1> QED
  BY <1>1, <1>2, <1>3

\* Nothing is asked for at the start of a process.
LEMMA EmptyQueue == << >> \in Seq(Oui) /\ IsInjective(<< >>) /\ ToSet(<< >>) = {}
<1>1. DOMAIN << >> = {} /\ << >> \in Seq(Oui)
  OBVIOUS
<1> QED
  BY <1>1 DEF IsInjective, ToSet

\* Callers that are all idle.
LEMMA IdleCallers ==
    ASSUME lookup = [c \in Caller |-> Idle]
    PROVE  lookup = [c \in Caller |-> lookup[c]] /\ \A c \in Caller : CallerFits(c)
<1>1. Idle.at = "idle"
  BY DEF Idle
<1> HIDE DEF Idle
<1> QED
  BY <1>1 DEF CallerFits

LEMMA VendorStart == VendorInit => VendorInv
<1> SUFFICES ASSUME VendorInit PROVE VendorInv
  OBVIOUS
<1>1. lookup = [c \in Caller |-> lookup[c]] /\ \A c \in Caller : CallerFits(c)
  BY IdleCallers DEF VendorInit
<1>2. Requested = {} /\ NoOui \notin Oui
  BY EmptyQueue, VendorAssumption DEF VendorInit, Requested
<1> QED
  BY <1>1, <1>2, EmptyQueue DEF VendorInit, VendorInv

\* One caller moves.
LEMMA CallerMoves ==
    ASSUME VendorInv, NEW c \in Caller, NEW r, lookup' = [lookup EXCEPT ![c] = r]
    PROVE  /\ lookup' = [d \in Caller |-> lookup'[d]] /\ lookup'[c] = r
           /\ \A d \in Caller : d # c => lookup'[d] = lookup[d]
<1>1. lookup = [d \in Caller |-> lookup[d]]
  BY DEF VendorInv
<1> QED
  BY <1>1

\* A caller that has read the tables and the cache.
LEMMA LookupKeeps ==
    ASSUME VendorInv, NEW c \in Caller, NEW o \in Oui, Lookup(c, o) PROVE VendorInv'
<1>1. UNCHANGED <<cache, cacheReady, apiQueue, apiPending, negative, inFlight>>
  BY DEF Lookup, apiVars
<1>2. ASSUME UNCHANGED lookup PROVE VendorInv'
  BY <1>1, <1>2 DEF VendorInv, Requested, CallerFits
<1>3. ASSUME NEW r, lookup' = [lookup EXCEPT ![c] = r], r.oui = o,
             \/ r.at = "enqueue" /\ (cacheReady => cache[o] = NoName)
             \/ r.at = "write back" /\ cache[o] # NoName /\ r.name \in VendorName
      PROVE  VendorInv'
  <2>1. /\ lookup' = [d \in Caller |-> lookup'[d]] /\ lookup'[c] = r
        /\ \A d \in Caller : d # c => lookup'[d] = lookup[d]
    BY <1>3, CallerMoves
  <2>2. ASSUME NEW d \in Caller PROVE CallerFits(d)'
    BY <1>1, <1>3, <2>1 DEF VendorInv, CallerFits
  <2> QED
    BY <1>1, <2>1, <2>2 DEF VendorInv, Requested
<1>4. CASE /\ cache[o] # NoName
           /\ lookup' = [lookup EXCEPT ![c] = [at |-> "write back", oui |-> o,
                                               name |-> Normalized(cache[o])]]
  <2> DEFINE r == [at |-> "write back", oui |-> o, name |-> Normalized(cache[o])]
  <2>1. cache[o] \in VendorName
    BY <1>4 DEF VendorInv
  <2>2. Normalized(cache[o]) \in VendorName
    <3>1. CASE cache[o] \in Nat
      <4>1. Normalized(cache[o]) \in Nat
        BY <3>1 DEF Normalized
      <4> QED
        BY <4>1 DEF VendorName
    <3>2. CASE cache[o] \notin Nat
      BY <2>1, <3>2 DEF Normalized
    <3> QED
      BY <3>1, <3>2
  <2>3. r.at = "write back" /\ r.oui = o /\ r.name \in VendorName
    BY <2>2
  <2>4. lookup' = [lookup EXCEPT ![c] = r]
    BY <1>4
  <2> HIDE DEF r
  <2> QED
    BY <1>3, <1>4, <2>3, <2>4
<1>5. CASE /\ cacheReady => cache[o] = NoName
           /\ lookup' = [lookup EXCEPT ![c] = [at |-> "enqueue", oui |-> o, name |-> Unknown]]
  <2> DEFINE r == [at |-> "enqueue", oui |-> o, name |-> Unknown]
  <2>1. r.at = "enqueue" /\ r.oui = o
    OBVIOUS
  <2>2. lookup' = [lookup EXCEPT ![c] = r]
    BY <1>5
  <2> HIDE DEF r
  <2> QED
    BY <1>3, <1>5, <2>1, <2>2
<1> QED
  BY <1>2, <1>4, <1>5 DEF Lookup

LEMMA CallerKeeps ==
    ASSUME VendorInv, NEW c \in Caller, WriteBack(c) \/ Enqueue(c) PROVE VendorInv'
<1>0. /\ lookup' = [d \in Caller |-> lookup'[d]] /\ lookup'[c].at = "idle"
      /\ \A d \in Caller : d # c => lookup'[d] = lookup[d]
  <2>1. lookup' = [lookup EXCEPT ![c] = Idle]
    BY DEF WriteBack, Enqueue, Leave
  <2> QED
    BY <2>1, CallerMoves DEF Idle
<1>1. CASE WriteBack(c)
  <2>1. /\ cache' = [cache EXCEPT ![lookup[c].oui] = lookup[c].name]
        /\ lookup[c].oui \in Oui /\ cache[lookup[c].oui] # NoName
        /\ lookup[c].name \in VendorName
        /\ UNCHANGED <<cacheReady, apiQueue, apiPending, negative, inFlight>>
    BY <1>1 DEF WriteBack, VendorInv, CallerFits, apiVars
  <2>2. lookup[c].name # NoName
    BY <2>1, VendorAssumption DEF VendorName
  <2>3. /\ cache' \in [Oui -> VendorName \cup {NoName}]
        /\ \A o \in Oui : cache'[o] = NoName <=> cache[o] = NoName
    BY <2>1, <2>2 DEF VendorInv
  <2>4. ASSUME NEW d \in Caller PROVE CallerFits(d)'
    BY <1>0, <2>1, <2>3 DEF VendorInv, CallerFits
  <2>5. Requested' = Requested /\ Requested \subseteq Oui
    BY <2>1 DEF Requested, VendorInv, ToSet
  <2> QED
    BY <1>0, <2>1, <2>3, <2>4, <2>5 DEF VendorInv
<1>2. CASE Enqueue(c)
  <2> DEFINE o == lookup[c].oui
  <2>1. UNCHANGED <<cache, cacheReady, negative, inFlight>> /\ lookup[c].at = "enqueue"
    BY <1>2 DEF Enqueue
  <2>2. CASE Wanted(o)
    <3>1. /\ apiPending' = apiPending \cup {o} /\ apiQueue' = Append(apiQueue, o)
          /\ o \notin apiPending /\ o \notin negative
      BY <1>2, <2>2 DEF Enqueue, Wanted
    <3>2. o \in Oui /\ (cacheReady => cache[o] = NoName)
      BY <2>1, <3>1 DEF VendorInv, CallerFits
    <3>3. o \notin ToSet(apiQueue) /\ o # inFlight
      <4>1. Requested \subseteq apiPending /\ NoOui \notin Oui
        BY VendorAssumption DEF VendorInv
      <4> HIDE DEF o
      <4> QED
        BY <3>1, <3>2, <4>1 DEF Requested
    <3>4. apiQueue' \in Seq(Oui) /\ IsInjective(apiQueue') /\ ToSet(apiQueue') = ToSet(apiQueue) \cup {o}
      <4>1. apiQueue \in Seq(Oui) /\ IsInjective(apiQueue)
        BY DEF VendorInv
      <4> HIDE DEF o
      <4>2. apiQueue' \in Seq(Oui)
        BY <3>1, <3>2, <4>1
      <4> QED
        BY <3>1, <3>2, <3>3, <4>1, <4>2, QueueStaysInjective
    <3>5. Requested' = Requested \cup {o} /\ inFlight' \notin ToSet(apiQueue')
      <4>1. inFlight \notin ToSet(apiQueue) /\ inFlight' = inFlight
        BY <2>1 DEF VendorInv
      <4> HIDE DEF o
      <4> QED
        BY <3>3, <3>4, <4>1 DEF Requested
    <3> HIDE DEF o
    <3>6. ASSUME NEW d \in Caller PROVE CallerFits(d)'
      BY <1>0, <2>1, <3>1 DEF VendorInv, CallerFits
    <3> QED
      BY <1>0, <2>1, <3>1, <3>2, <3>4, <3>5, <3>6 DEF VendorInv
  <2>3. CASE ~Wanted(o)
    <3>1. UNCHANGED <<apiPending, apiQueue>>
      BY <1>2, <2>3 DEF Enqueue
    <3>2. ASSUME NEW d \in Caller PROVE CallerFits(d)'
      BY <1>0, <2>1, <3>1 DEF VendorInv, CallerFits
    <3> QED
      BY <1>0, <2>1, <3>1, <3>2 DEF VendorInv, Requested
  <2> QED
    BY <2>2, <2>3
<1> QED
  BY <1>1, <1>2

\* A request leaves the queue, and comes back or is answered.
LEMMA ServiceKeeps ==
    ASSUME VendorInv,
           \/ ProcessApiQueue \/ ReplyFound \/ ReplyUnregistered
           \/ ReplyRateLimited \/ ReplyFailed
    PROVE  VendorInv'
<1>0. /\ UNCHANGED <<cacheReady, lookup>> /\ apiQueue \in Seq(Oui) /\ IsInjective(apiQueue)
      /\ NoOui \notin Oui /\ ToSet(apiQueue) \subseteq Oui
  BY VendorAssumption DEF ProcessApiQueue, ReplyFound, ReplyUnregistered, ReplyRateLimited,
     ReplyFailed, VendorInv, ToSet
<1>1. CASE ProcessApiQueue
  <2>1. /\ inFlight = NoOui /\ apiQueue # << >> /\ inFlight' = Head(apiQueue)
        /\ apiQueue' = Tail(apiQueue) /\ UNCHANGED <<cache, apiPending, negative>>
    BY <1>1 DEF ProcessApiQueue
  <2>2. /\ IsInjective(apiQueue') /\ inFlight' \in Oui /\ inFlight' \notin ToSet(apiQueue')
        /\ ToSet(apiQueue) = ToSet(apiQueue') \cup {inFlight'}
    BY <1>0, <2>1, QueueStaysInjective
  <2>3. apiQueue' \in Seq(Oui)
    BY <1>0, <2>1
  <2>4. Requested' = Requested
    BY <1>0, <2>1, <2>2 DEF Requested
  <2> QED
    BY <1>0, <2>1, <2>2, <2>3, <2>4 DEF VendorInv, CallerFits
<1>2. ASSUME inFlight # NoOui, inFlight' = NoOui, UNCHANGED <<apiQueue, apiPending>>,
             negative \subseteq negative',
             NEW name \in VendorName, CacheVendor(inFlight, name)
      PROVE  VendorInv'
  <2>1. inFlight \in Oui /\ inFlight \in Requested /\ Requested' = Requested \ {inFlight}
    BY <1>0, <1>2 DEF VendorInv, Requested
  <2>2. name # NoName
    BY VendorAssumption DEF VendorName
  <2>3. /\ cache' \in [Oui -> VendorName \cup {NoName}]
        /\ \A o \in Oui : o # inFlight => cache'[o] = cache[o]
        /\ \A o \in Oui : cache[o] # NoName => cache'[o] # NoName
    BY <1>2, <2>1, <2>2 DEF CacheVendor, VendorInv
  <2>4. inFlight' \notin ToSet(apiQueue') /\ inFlight \in apiPending /\ Requested \subseteq Oui
    BY <1>0, <1>2, <2>1 DEF VendorInv, Requested
  <2> QED
    <3>1. ASSUME NEW c \in Caller PROVE CallerFits(c)'
      BY <1>0, <1>2, <2>1, <2>3, <2>4 DEF VendorInv, CallerFits
    <3> QED
      BY <1>0, <1>2, <2>1, <2>3, <2>4, <3>1 DEF VendorInv
<1>3. CASE ReplyFound
  <2>1. Normalized(Boilerplate[inFlight]) \in VendorName
    BY <1>3, VendorAssumption DEF ReplyFound, VendorInv, Normalized, VendorName
  <2> QED
    BY <1>2, <1>3, <2>1 DEF ReplyFound, Forgotten
<1>4. CASE ReplyUnregistered
  BY <1>2, <1>4 DEF ReplyUnregistered, VendorName
<1>5. CASE ReplyRateLimited
  <2>1. /\ inFlight \in Oui /\ inFlight \notin ToSet(apiQueue) /\ inFlight' = NoOui
        /\ apiQueue' = <<inFlight>> \o apiQueue /\ UNCHANGED <<cache, apiPending, negative>>
    BY <1>5 DEF ReplyRateLimited, VendorInv
  <2>2. apiQueue' \in Seq(Oui) /\ IsInjective(apiQueue') /\ ToSet(apiQueue') = ToSet(apiQueue) \cup {inFlight}
    BY <1>0, <2>1, QueueStaysInjective
  <2>3. Requested' = Requested /\ inFlight' \notin ToSet(apiQueue')
    BY <1>0, <2>1, <2>2 DEF Requested
  <2> QED
    BY <1>0, <2>1, <2>2, <2>3 DEF VendorInv, CallerFits
<1>6. CASE ReplyFailed
  <2>1. /\ inFlight \in Oui /\ inFlight \in Requested /\ inFlight' = NoOui
        /\ apiPending' = apiPending \ {inFlight} /\ UNCHANGED <<cache, apiQueue, negative>>
    BY <1>6 DEF ReplyFailed, VendorInv, Requested
  <2>2. Requested' = Requested \ {inFlight} /\ inFlight' \notin ToSet(apiQueue')
    BY <1>0, <2>1 DEF Requested, VendorInv
  <2> QED
    <3>1. ASSUME NEW c \in Caller PROVE CallerFits(c)'
      BY <1>0, <2>1 DEF VendorInv, CallerFits
    <3> QED
      BY <1>0, <2>1, <2>2, <3>1 DEF VendorInv
<1> QED
  BY <1>1, <1>3, <1>4, <1>5, <1>6

LEMMA VendorKept == VendorInv /\ [VendorStep]_vendorVars => VendorInv'
<1> SUFFICES ASSUME VendorInv, [VendorStep]_vendorVars PROVE VendorInv'
  OBVIOUS
<1>1. ASSUME UNCHANGED <<apiQueue, inFlight, cache, cacheReady, lookup, apiPending, negative>>
      PROVE  VendorInv'
  BY <1>1 DEF VendorInv, Requested, CallerFits
<1>2. CASE \/ LoadLocalDatabase \/ ParseOuiCsv \/ ScheduleWeeklyUpdate \/ Downloaded \/ CsvAges
           \/ VendorResolved
  BY <1>1, <1>2 DEF LoadLocalDatabase, ParseOuiCsv, ScheduleWeeklyUpdate, Downloaded, CsvAges,
     VendorResolved, apiVars
<1>3. CASE TimerRestarts \/ UNCHANGED vendorVars
  BY <1>1, <1>3 DEF TimerRestarts, vendorVars, apiVars
<1>4. CASE VendorRestart
  <2>1. (lookup = [c \in Caller |-> lookup[c]] /\ \A c \in Caller : CallerFits(c))'
    <3>1. Idle.at = "idle" /\ lookup' = [c \in Caller |-> Idle]
      BY <1>4 DEF VendorRestart, Started, Idle
    <3> HIDE DEF Idle
    <3> QED
      BY <3>1 DEF CallerFits
  <2>2. Requested' = {} /\ NoOui \notin Oui
    BY <1>4, EmptyQueue, VendorAssumption DEF VendorRestart, Started, Requested
  <2> QED
    BY <1>4, <2>1, <2>2, EmptyQueue DEF VendorRestart, Started, VendorInv
<1> QED
  BY <1>2, <1>3, <1>4, LookupKeeps, CallerKeeps, ServiceKeeps DEF VendorStep

\* The service is asked about a prefix once at a time, and never about one
\* whose answer is in the cache, for every number of callers and prefixes.
THEOREM AsksOnce == VendorSpec => []NeverAsksTwice
<1>1. VendorInv => NeverAsksTwice
  BY DEF VendorInv, NeverAsksTwice
<1> QED
  BY <1>1, VendorStart, VendorKept, PTL DEF VendorSpec

-----------------------------------------------------------------------------
(* Name resolution.                                                        *)

\* A batch runs exactly while the flag says so, a worker only during a batch,
\* and a sub-thread only while its worker has not been joined.
NamesInv ==
    /\ worker \in [Host -> {"off", "queued", "wait", "drain", "join"}]
    /\ layer \in [Host -> [Layer -> LayerAt]]
    /\ ~resolving => call = "none"
    /\ call = "none" => \A h \in Host : worker[h] = "off"
    /\ \A h \in Host : worker[h] \in {"off", "queued"} => LayersDone(h)

\* A process starts without a batch.
LEMMA NamesStart == NamesInit => NamesInv
BY DEF NamesInit, NamesInv, LayersDone, LayerAt, Off

\* The steps of step 4 and of the pool.
LEMMA PoolKeepsNames ==
    ASSUME NamesInv, NEW h \in Host,
           \/ StartBatch \/ ResolveReturns \/ ApplyNames \/ NameSeen(h) \/ Relisted(h)
           \/ StartWorker(h) \/ WorkerWakes(h) \/ WorkerReports(h) \/ WorkerJoins(h)
    PROVE  NamesInv'
<1>1. CASE StartBatch
  BY <1>1 DEF StartBatch, NamesInv, Nameless, LayersDone
<1>2. CASE ResolveReturns
  BY <1>2 DEF ResolveReturns, NamesInv, LayersDone
<1>3. CASE ApplyNames
  BY <1>3 DEF ApplyNames, NamesInv, LayersDone, PoolDrained
<1>4. CASE NameSeen(h) \/ Relisted(h)
  BY <1>4 DEF NameSeen, Relisted, NamesInv, LayersDone
<1>5. CASE StartWorker(h)
  BY <1>5 DEF StartWorker, NamesInv, LayersDone, LayerAt, Asked
<1>6. CASE WorkerWakes(h)
  BY <1>6 DEF WorkerWakes, NamesInv, LayersDone
<1>7. CASE WorkerReports(h)
  BY <1>7 DEF WorkerReports, NamesInv, LayersDone
<1>8. CASE WorkerJoins(h)
  BY <1>8 DEF WorkerJoins, NamesInv, LayersDone
<1> QED
  BY <1>1, <1>2, <1>3, <1>4, <1>5, <1>6, <1>7, <1>8

\* A sub-thread that is not off moves to another place, or ends.
LEMMA LayerKeepsNames ==
    ASSUME NamesInv, NEW h \in Host, NEW l \in Layer, NEW at \in LayerAt,
           layer[h][l] # Off, layer' = [layer EXCEPT ![h][l] = at],
           UNCHANGED <<resolving, call, worker>>
    PROVE  NamesInv'
BY DEF NamesInv, LayersDone

\* A sub-thread.
LEMMA ThreadKeepsNames ==
    ASSUME NamesInv, NEW h \in Host,
           \/ \E l \in Layer : NoAnswer(h, l) \/ TryUnicast(h, l)
           \/ "mdns" \in Layer /\ TryMDNS(h)
           \/ "rdns" \in Layer /\ TryReverseDNS(h)
           \/ "ssdp" \in Layer /\ (TrySSDP(h) \/ FetchDescription(h))
    PROVE  NamesInv'
<1>0. Off \in LayerAt /\ Asked # Off /\ \A x \in {"server", "described"} : \A y : <<x, y>> # Off
  BY DEF LayerAt, Off, Asked
<1>1. ASSUME NEW l \in Layer, layer[h][l] # Off, NEW name, Ends(h, l, name) PROVE NamesInv'
  BY <1>0, <1>1, LayerKeepsNames DEF Ends
<1>2. ASSUME NEW l \in Layer, NoAnswer(h, l) \/ TryUnicast(h, l) PROVE NamesInv'
  BY <1>0, <1>1, <1>2 DEF NoAnswer, TryUnicast, Found
<1>3. CASE "mdns" \in Layer /\ TryMDNS(h)
  BY <1>0, <1>1, <1>3 DEF TryMDNS, Found
<1>4. CASE "rdns" \in Layer /\ TryReverseDNS(h)
  BY <1>0, <1>1, <1>4 DEF TryReverseDNS, Found
<1>5. CASE "ssdp" \in Layer /\ TrySSDP(h)
  <2>1. layer[h]["ssdp"] # Off
    BY <1>5 DEF TrySSDP, Off
  <2>2. ASSUME NEW at \in LayerAt, Hears(h, at) PROVE NamesInv'
    BY <1>5, <2>1, <2>2, LayerKeepsNames DEF Hears
  <2>3. <<"server", Nobody>> \in LayerAt /\ \A other \in Host : <<"described", other>> \in LayerAt
    BY DEF LayerAt
  <2> QED
    BY <1>1, <1>5, <2>1, <2>2, <2>3 DEF TrySSDP, Found
<1>6. CASE "ssdp" \in Layer /\ FetchDescription(h)
  <2>1. layer[h]["ssdp"] # Off
    BY <1>6 DEF FetchDescription, Off
  <2> QED
    BY <1>1, <1>6, <2>1 DEF FetchDescription, Found
<1> QED
  BY <1>2, <1>3, <1>4, <1>5, <1>6

LEMMA NamesKept == NamesInv /\ [NamesStep]_nameVars => NamesInv'
<1> SUFFICES ASSUME NamesInv, [NamesStep]_nameVars PROVE NamesInv'
  OBVIOUS
<1>1. CASE StartBatch \/ ResolveReturns \/ ApplyNames
  <2>1. CASE Host = {}
    BY <1>1, <2>1 DEF StartBatch, ResolveReturns, ApplyNames, Nameless, NamesInv
  <2>2. CASE Host # {}
    BY <1>1, <2>2, PoolKeepsNames
  <2> QED
    BY <2>1, <2>2
<1>2. CASE UNCHANGED nameVars
  BY <1>2 DEF nameVars, NamesInv, LayersDone
<1> QED
  BY <1>1, <1>2, PoolKeepsNames, ThreadKeepsNames DEF NamesStep

\* When step 4 has its names, no worker and no sub-thread of the batch is
\* left, for every number of devices and every size of the pool.
THEOREM NamesAreJoined == NamesSpec => []NoWorkerOutlivesCall
<1>1. NamesInv => NoWorkerOutlivesCall
  BY DEF NamesInv, NoWorkerOutlivesCall
<1> QED
  BY <1>1, NamesStart, NamesKept, PTL DEF NamesSpec

-----------------------------------------------------------------------------
(* Router detection.                                                       *)

\* A record of a detection, whatever its fields hold: what the best entry of
\* the table says of the class is not needed here.
HasFields(new) ==
    new = [gw |-> new.gw, class |-> new.class, maker |-> new.maker, model |-> new.model,
           hint |-> new.hint, caps |-> new.caps]

\* A record that has all that the running one has.
Adds(new) ==
    /\ info.caps \subseteq new.caps
    /\ Keeps(info.maker, new.maker)
    /\ Keeps(info.model, new.model)

\* The first stage, which names a hotspot outright, finds a blank record.
RouterInv ==
    /\ HasFields(info) /\ stage \in 0 .. 8
    /\ stage = 1 => info.maker = "none" /\ info.model = "none"

LEMMA RouterStart == RouterInit => RouterInv
BY DEF RouterInit, RouterInv, HasFields, Blank

\* The record with some capabilities more.
LEMMA WithFields ==
    ASSUME HasFields(info), NEW caps
    PROVE  With(caps) = [gw |-> info.gw, class |-> info.class, maker |-> info.maker,
                         model |-> info.model, hint |-> info.hint, caps |-> info.caps \cup caps]
BY DEF HasFields, With

\* A record with other texts, and perhaps another class, field by field.
LEMMA RewrittenClass ==
    ASSUME NEW r, HasFields(r), NEW class, NEW maker, NEW model, NEW new,
           new = [r EXCEPT !.maker = maker, !.model = model, !.class = class]
    PROVE  new = [gw |-> r.gw, class |-> class, maker |-> maker, model |-> model,
                  hint |-> r.hint, caps |-> r.caps]
BY DEF HasFields

LEMMA RewrittenFields ==
    ASSUME NEW r, HasFields(r), NEW class, NEW maker, NEW model, NEW new,
           new = [r EXCEPT !.class = class, !.maker = maker, !.model = model]
    PROVE  new = [gw |-> r.gw, class |-> class, maker |-> maker, model |-> model,
                  hint |-> r.hint, caps |-> r.caps]
BY DEF HasFields

LEMMA RewrittenTexts ==
    ASSUME NEW r, HasFields(r), NEW maker, NEW model, NEW new,
           new = [r EXCEPT !.maker = maker, !.model = model]
    PROVE  new = [gw |-> r.gw, class |-> r.class, maker |-> maker, model |-> model,
                  hint |-> r.hint, caps |-> r.caps]
BY DEF HasFields

\* The end of a stage after which the record has all that it had.
LEMMA StageKeeps ==
    ASSUME RouterInv, NEW name, NEW new, StageEnds(name, new), HasFields(new)
    PROVE  RouterInv' /\ info' = new
<1>1. stage \in 1 .. 8 /\ stage # 8
  BY DEF StageEnds, RouterInv, Stages
<1> QED
  BY <1>1 DEF StageEnds, RouterInv, HasFields

\* The stages that probe.
LEMMA ProbesAdd ==
    ASSUME RouterInv,
           \/ ProbeMobileHotspot \/ ProbeHTTP \/ ProbeSSDPUPnP
           \/ ProbeMDNS \/ ProbeSNMP \/ ProbePorts
    PROVE  RouterInv' /\ Adds(info')
<1>0. HasFields(info)
  BY DEF RouterInv
<1>1. CASE ProbeMobileHotspot
  <2>1. ASSUME NEW caps,
               StageEnds("hotspot", [With(caps) EXCEPT !.class = "hotspot", !.maker = "hotspot",
                                                       !.model = "hotspot"])
        PROVE  RouterInv' /\ Adds(info')
    <3>1. stage = 1
      BY <2>1 DEF StageEnds, RouterInv, Stages
    <3> DEFINE r == With(caps)
               new == [With(caps) EXCEPT !.class = "hotspot", !.maker = "hotspot", !.model = "hotspot"]
    <3>2. HasFields(r) /\ info.caps \subseteq r.caps
      BY <1>0, WithFields DEF HasFields
    <3>3. new = [r EXCEPT !.class = "hotspot", !.maker = "hotspot", !.model = "hotspot"]
          /\ StageEnds("hotspot", new)
      BY <2>1
    <3> HIDE DEF r, new
    <3>4. new = [gw |-> r.gw, class |-> "hotspot", maker |-> "hotspot", model |-> "hotspot",
                 hint |-> r.hint, caps |-> r.caps]
      BY <3>2, <3>3, RewrittenFields
    <3>5. HasFields(new) /\ Adds(new)
      BY <3>1, <3>2, <3>4 DEF HasFields, Adds, Keeps, RouterInv
    <3> QED
      BY <3>3, <3>5, StageKeeps
  <2>2. CASE StageEnds("hotspot", info)
    BY <1>0, <2>2, StageKeeps DEF Adds, Keeps
  <2> QED
    BY <1>1, <2>1, <2>2 DEF ProbeMobileHotspot
<1>2. CASE ProbeHTTP
  <2>1. ASSUME NEW realm, StageEnds("HTTP", [With({"WebUI"}) EXCEPT !.model = Else(@, realm)])
        PROVE  RouterInv' /\ Adds(info')
    <3> DEFINE new == [With({"WebUI"}) EXCEPT !.model = Else(@, realm)]
    <3>1. HasFields(new) /\ Adds(new)
      BY <1>0, WithFields DEF HasFields, Adds, Keeps, Else
    <3> QED
      BY <2>1, <3>1, StageKeeps
  <2> QED
    BY <1>0, <1>2, <2>1, StageKeeps DEF ProbeHTTP, Adds, Keeps
<1>3. CASE ProbeSSDPUPnP
  <2>1. ASSUME NEW maker, NEW model,
               StageEnds("SSDP", [With({"UPnP"}) EXCEPT !.maker = Else(@, maker), !.model = Else(@, model)])
        PROVE  RouterInv' /\ Adds(info')
    <3> DEFINE r == With({"UPnP"})
               new == [With({"UPnP"}) EXCEPT !.maker = Else(@, maker), !.model = Else(@, model)]
    <3>1. HasFields(new) /\ Adds(new)
      <4>1. /\ HasFields(r) /\ info.caps \subseteq r.caps
            /\ r.maker = info.maker /\ r.model = info.model
        BY <1>0, WithFields DEF HasFields
      <4>2. new = [gw |-> r.gw, class |-> r.class, maker |-> Else(r.maker, maker),
                   model |-> Else(r.model, model), hint |-> r.hint, caps |-> r.caps]
        <5>1. new = [r EXCEPT !.maker = Else(r.maker, maker), !.model = Else(r.model, model)]
          OBVIOUS
        <5> HIDE DEF new, r
        <5> QED
          BY <4>1, <5>1, RewrittenTexts
      <4> HIDE DEF r, new
      <4> QED
        BY <4>1, <4>2 DEF HasFields, Adds, Keeps, Else
    <3> QED
      BY <2>1, <3>1, StageKeeps
  <2> QED
    BY <1>0, <1>3, <2>1, StageKeeps DEF ProbeSSDPUPnP, Adds, Keeps
<1>4. CASE ProbeMDNS
  BY <1>0, <1>4, StageKeeps DEF ProbeMDNS, Adds, Keeps
<1>5. CASE ProbeSNMP
  <2>1. ASSUME NEW hint, StageEnds("SNMP", [With({"SNMP"}) EXCEPT !.hint = hint])
        PROVE  RouterInv' /\ Adds(info')
    <3> DEFINE new == [With({"SNMP"}) EXCEPT !.hint = hint]
    <3>1. HasFields(new) /\ Adds(new)
      BY <1>0, WithFields DEF HasFields, Adds, Keeps
    <3> QED
      BY <2>1, <3>1, StageKeeps
  <2> QED
    BY <1>0, <1>5, <2>1, StageKeeps DEF ProbeSNMP, Adds, Keeps
<1>6. CASE ProbePorts
  <2>1. ASSUME NEW open, StageEnds("ports", With(open))
        PROVE  RouterInv' /\ Adds(info')
    <3>1. HasFields(With(open)) /\ Adds(With(open))
      BY <1>0, WithFields DEF HasFields, Adds, Keeps
    <3> QED
      BY <2>1, <3>1, StageKeeps
  <2> QED
    BY <1>6, <2>1 DEF ProbePorts
<1> QED
  BY <1>1, <1>2, <1>3, <1>4, <1>5, <1>6

\* The table of models and the inference.
LEMMA JudgementAdds ==
    ASSUME RouterInv, ClassifyFromModels \/ InferCapabilities
    PROVE  RouterInv' /\ Adds(info')
<1>0. HasFields(info)
  BY DEF RouterInv
<1>1. CASE ClassifyFromModels
  <2>1. ASSUME NEW entry, StageEnds("classify", Matched(entry))
        PROVE  RouterInv' /\ Adds(info')
    <3> DEFINE r == With(entry.caps)
    <3>1. HasFields(Matched(entry)) /\ Adds(Matched(entry))
      <4>1. /\ HasFields(r) /\ info.caps \subseteq r.caps
            /\ r.maker = info.maker /\ r.model = info.model
        BY <1>0, WithFields DEF HasFields
      <4>2. Matched(entry) =
              [gw |-> r.gw, class |-> entry.class, maker |-> Else(r.maker, "classify"),
               model |-> Else(r.model, "classify"), hint |-> r.hint, caps |-> r.caps]
        <5> DEFINE maker == Else(r.maker, "classify")
                   model == Else(r.model, "classify")
                   class == entry.class
                   new == Matched(entry)
        <5>1. new = [r EXCEPT !.maker = maker, !.model = model, !.class = class]
          BY DEF Matched
        <5>2. HasFields(r)
          BY <4>1
        <5> HIDE DEF r, maker, model, class, new
        <5>3. new = [gw |-> r.gw, class |-> class, maker |-> maker, model |-> model,
                     hint |-> r.hint, caps |-> r.caps]
          BY <5>1, <5>2, RewrittenClass
        <5> QED
          BY <5>3 DEF maker, model, class, new
      <4> HIDE DEF r
      <4> QED
        BY <4>1, <4>2 DEF HasFields, Adds, Keeps, Else
    <3> QED
      BY <2>1, <3>1, StageKeeps
  <2> QED
    BY <1>0, <1>1, <2>1, StageKeeps DEF ClassifyFromModels, Adds, Keeps
<1>2. CASE InferCapabilities
  <2>1. HasFields(InferredInfo) /\ Adds(InferredInfo)
    <3> DEFINE enterprise == {"SSH", "SNMP"} \subseteq info.caps \/ info.class = "enterprise"
               r == With((IF enterprise THEN {"Enterprise"} ELSE {})
                         \cup (IF info.hint THEN {"VPN"} ELSE {}))
               maker == IF info.gw \in Listed \/ Inferred(enterprise) = "hotspot"
                          THEN Else(r.maker, "infer") ELSE r.maker
               model == IF info.class = "unknown" /\ Inferred(enterprise) = "hotspot"
                          THEN Else(r.model, "infer") ELSE r.model
               class == Inferred(enterprise)
               new == InferredInfo
    <3>1. /\ HasFields(r) /\ info.caps \subseteq r.caps
          /\ r.maker = info.maker /\ r.model = info.model
      BY <1>0, WithFields DEF HasFields
    <3>2. new = [r EXCEPT !.class = class, !.maker = maker, !.model = model]
      BY DEF InferredInfo
    <3> HIDE DEF r, maker, model, enterprise, class, new
    <3>0. HasFields(r)
      BY <3>1
    <3>3. new = [gw |-> r.gw, class |-> class, maker |-> maker, model |-> model,
                 hint |-> r.hint, caps |-> r.caps]
      BY <3>0, <3>2, RewrittenFields
    <3>4. HasFields(new) /\ Adds(new)
      BY <3>1, <3>3 DEF HasFields, Adds, Keeps, Else, maker, model
    <3> QED
      BY <3>4 DEF new
  <2> QED
    BY <1>2, <2>1 DEF InferCapabilities, RouterInv, HasFields, Adds, Keeps
<1> QED
  BY <1>1, <1>2

LEMMA RouterKept ==
    ASSUME RouterInv, [RouterStep]_routerVars
    PROVE  RouterInv' /\ (stage # 0 => Adds(info'))
<1> USE DEF RouterInv, HasFields, Adds, Keeps
<1>1. CASE Detect
  BY <1>1 DEF Detect, Blank
<1>2. CASE FindGateway \/ ScanTriggers \/ RescanTriggers \/ MinutePasses
  BY <1>2 DEF FindGateway, ScanTriggers, RescanTriggers, MinutePasses
<1>3. CASE PageEvent \/ RescanClicked \/ UNCHANGED routerVars
  BY <1>3 DEF PageEvent, RescanClicked, routerVars
<1> HIDE DEF RouterInv, HasFields, Adds, Keeps
<1> QED
  BY <1>1, <1>2, <1>3, ProbesAdd, JudgementAdds DEF RouterStep

\* No stage of a detection takes back what an earlier one found, for every
\* table of models.
THEOREM EvidenceStays == RouterSpec => EvidenceIsKept
<1>1. RouterInv /\ [RouterStep]_routerVars =>
          [stage # 0 => /\ info.caps \subseteq info'.caps
                        /\ Keeps(info.maker, info'.maker)
                        /\ Keeps(info.model, info'.model)]_routerVars
  BY RouterKept DEF Adds
<1>2. RouterInv /\ [RouterStep]_routerVars => RouterInv'
  BY RouterKept
<1> QED
  BY <1>1, <1>2, RouterStart, PTL DEF RouterSpec, EvidenceIsKept

-----------------------------------------------------------------------------
(* The port audit.                                                         *)

\* The attempt that runs is that of the youngest timer; after the last port
\* nothing is being tried, and the socket can fail once more at most.
AuditInv ==
    /\ dialog \in BOOLEAN /\ verdict \in BOOLEAN
    /\ index \in 1 .. Ports + 2
    /\ attempt \in {"closed", "connecting", "connected"}
    /\ timers \in Seq(1 .. Ports) /\ rows \in Seq(1 .. Ports)
    /\ ~dialog => index = 1 /\ attempt = "closed"
    /\ dialog /\ index <= Ports =>
          attempt = "connecting" /\ timers # << >> /\ timers[Len(timers)] = index
    /\ index > Ports => attempt # "connecting"
    /\ index = Ports + 2 => attempt = "closed"
    /\ verdict <=> index > Ports
    /\ \A n \in DOMAIN rows : rows[n] < index
    /\ \A m, n \in DOMAIN rows : m < n => rows[m] < rows[n]

\* A scanner that has not started.
LEMMA NoAudit ==
    ASSUME ~dialog', dialog' \in BOOLEAN, index' = 1, attempt' = "closed", timers' = << >>,
           rows' = << >>, ~verdict', verdict' \in BOOLEAN
    PROVE  AuditInv'
<1>1. 1 <= Ports /\ Ports \in Nat
  BY AuditAssumption
<1>2. timers' \in Seq(1 .. Ports) /\ rows' \in Seq(1 .. Ports)
  OBVIOUS
<1>3. \A n \in DOMAIN rows' : FALSE
  OBVIOUS
<1>4. /\ index' \in 1 .. Ports + 2 /\ ~(index' > Ports) /\ index' # Ports + 2
  BY <1>1
<1> QED
  BY <1>2, <1>3, <1>4 DEF AuditInv

LEMMA AuditStart == AuditInit => AuditInv
<1> SUFFICES ASSUME AuditInit PROVE AuditInv
  OBVIOUS
<1>1. 1 <= Ports /\ Ports \in Nat
  BY AuditAssumption
<1>2. timers \in Seq(1 .. Ports) /\ rows \in Seq(1 .. Ports)
  BY DEF AuditInit
<1>3. \A n \in DOMAIN rows : FALSE
  BY DEF AuditInit
<1>4. /\ index \in 1 .. Ports + 2 /\ ~(index > Ports) /\ index # Ports + 2
  BY <1>1 DEF AuditInit
<1> QED
  BY <1>2, <1>3, <1>4 DEF AuditInit, AuditInv

\* The next port, after one that was tried: its timer is the youngest, or the
\* verdict is given.
LEMMA NextPort ==
    ASSUME AuditInv, NEW running \in Seq(1 .. Ports),
           attempt # "closed", ScanNext(index + 1, running)
    PROVE  /\ index <= Ports + 1 /\ index' = index + 1 /\ timers' \in Seq(1 .. Ports)
           /\ index < Ports => /\ attempt' = "connecting" /\ timers' # << >>
                               /\ timers'[Len(timers')] = index'
           /\ verdict' \in BOOLEAN /\ (verdict' <=> index' > Ports)
<1>1. 1 <= Ports /\ Ports \in Nat
  BY AuditAssumption
<1>2. index \in 1 .. Ports + 1 /\ index' = index + 1
  BY <1>1 DEF AuditInv, ScanNext
<1>3. CASE index < Ports
  <2>1. attempt' = "connecting" /\ timers' = Append(running, index + 1) /\ verdict' = verdict
    BY <1>1, <1>2, <1>3 DEF ScanNext
  <2>2. ~verdict /\ verdict \in BOOLEAN
    BY <1>1, <1>2, <1>3 DEF AuditInv
  <2>3. index + 1 \in 1 .. Ports
    BY <1>1, <1>2, <1>3
  <2>4. timers' \in Seq(1 .. Ports) /\ timers' # << >> /\ timers'[Len(timers')] = index + 1
    BY <2>1, <2>3
  <2> QED
    BY <1>1, <1>2, <1>3, <2>1, <2>2, <2>4
<1>4. CASE index >= Ports
  <2>1. verdict' = TRUE /\ timers' = running
    BY <1>1, <1>2, <1>4 DEF ScanNext
  <2> QED
    BY <1>1, <1>2, <1>4, <2>1
<1> QED
  BY <1>1, <1>2, <1>3, <1>4

LEMMA AuditKept == AuditInv /\ [AuditStep]_auditVars => AuditInv'
<1> SUFFICES ASSUME AuditInv, [AuditStep]_auditVars PROVE AuditInv'
  OBVIOUS
<1> USE AuditAssumption
<1>1. CASE OpenAudit
  <2>1. 1 <= Ports /\ Ports \in Nat
    OBVIOUS
  <2>2. /\ dialog' = TRUE /\ index' = 1 /\ attempt' = "connecting"
        /\ timers' = Append(<< >>, 1) /\ verdict' = verdict /\ rows' = << >>
    BY <1>1, <2>1 DEF OpenAudit, ScanNext
  <2>3. timers' \in Seq(1 .. Ports) /\ timers' # << >> /\ timers'[Len(timers')] = 1
    BY <2>1, <2>2
  <2>4. ~verdict
    BY <1>1, <2>1 DEF OpenAudit, AuditInv
  <2>5. << >> \in Seq(1 .. Ports) /\ DOMAIN << >> = {}
    OBVIOUS
  <2> QED
    BY <2>1, <2>2, <2>3, <2>4, <2>5 DEF AuditInv
<1>2. CASE CloseAudit
  BY <1>2, NoAudit DEF CloseAudit
<1>3. CASE OnConnected
  <2>1. ScanNext(index + 1, timers) /\ attempt = "connecting" /\ dialog' = dialog
    BY <1>3 DEF OnConnected
  <2>2. index \in 1 .. Ports /\ dialog
    BY <2>1 DEF AuditInv
  <2>3. /\ rows' \in Seq(1 .. Ports) /\ \A n \in DOMAIN rows' : rows'[n] < index + 1
        /\ \A m, n \in DOMAIN rows' : m < n => rows'[m] < rows'[n]
    BY <1>3, <2>2 DEF OnConnected, AuditInv
  <2>4. index = Ports => attempt' = "connected"
    BY <1>3 DEF OnConnected
  <2>5. timers \in Seq(1 .. Ports)
    BY DEF AuditInv
  <2> QED
    BY <2>1, <2>2, <2>3, <2>4, <2>5, NextPort DEF AuditInv
<1>4. ASSUME NEW running \in Seq(1 .. Ports), attempt # "closed", OnError(running)
      PROVE  AuditInv'
  <2>1. ScanNext(index + 1, running) /\ rows' = rows /\ dialog' = dialog
    BY <1>4 DEF OnError
  <2>2. index >= Ports => attempt' = "closed"
    BY <1>4 DEF OnError, AuditInv
  <2>3. dialog
    BY <1>4 DEF AuditInv
  <2> QED
    BY <1>4, <2>1, <2>2, <2>3, NextPort DEF AuditInv
<1>5. CASE Refused
  BY <1>4, <1>5 DEF Refused, AuditInv
<1>6. CASE TimedOut
  <2>1. Tail(timers) \in Seq(1 .. Ports)
    BY <1>6 DEF TimedOut, AuditInv
  <2> QED
    BY <1>4, <1>6, <2>1 DEF TimedOut
<1>7. CASE TimerLapses
  BY <1>7 DEF TimerLapses, AuditInv
<1>8. CASE UNCHANGED auditVars
  BY <1>8 DEF auditVars, AuditInv
<1> QED
  BY <1>1, <1>2, <1>3, <1>5, <1>6, <1>7, <1>8 DEF AuditStep

\* Until the verdict some port is being tried under a timer of its own, for
\* every length of the list.
THEOREM AuditGoesOn == AuditSpec => []AuditNeverStalls
<1>1. AuditInv => AuditNeverStalls
  BY DEF AuditInv, AuditNeverStalls
<1> QED
  BY <1>1, AuditStart, AuditKept, PTL DEF AuditSpec

-----------------------------------------------------------------------------
(* Traffic accounting.                                                     *)

LEMMA TrafficStart == TrafficInit => TrafficTypeOK
BY TrafficAssumption DEF TrafficInit, TrafficTypeOK, Key, Counters

\* A snapshot is typed when it arrives, and so is what a record reads from it.
LEMMA ReadingIsTyped ==
    ASSUME TrafficTypeOK, NEW stats \in Counters, NEW k \in Key, Sources(k, stats) # {}
    PROVE  Reading(k, stats) \in Nat
BY DEF Sources, Reading, Counters

LEMMA AccountKeeps ==
    ASSUME TrafficTypeOK, NEW stats \in Counters, Account(stats)
    PROVE  /\ prev' \in [Key -> Nat] /\ total' \in [Key -> Nat]
           /\ \A k \in Key : total'[k] >= total[k]
<1>1. prev' \in [Key -> Nat]
  BY ReadingIsTyped DEF Account, TrafficTypeOK
<1>2. ASSUME NEW k \in Key PROVE Delta(prev'[k], prev[k]) \in Nat
  BY <1>1 DEF Delta, TrafficTypeOK
<1>3. total' = [k \in Key |-> total[k] + Delta(prev'[k], prev[k])]
  BY DEF Account
<1>4. total' \in [Key -> Nat] /\ \A k \in Key : total'[k] >= total[k]
  BY <1>2, <1>3 DEF TrafficTypeOK
<1> QED
  BY <1>1, <1>4

\* An event joins the queue, or the oldest one leaves it.
LEMMA UpdatesAreTyped ==
    ASSUME updates \in Seq(Update), Len(updates) <= MaxUpdates
    PROVE  /\ \A u \in Update : Posted(u) =>
                updates' \in Seq(Update) /\ Len(updates') <= MaxUpdates
           /\ updates # << >> /\ updates' = Tail(updates) =>
                /\ updates' \in Seq(Update) /\ Len(updates') <= MaxUpdates
                /\ Head(updates) \in Update
<1>0. MaxUpdates \in Nat
  BY TrafficAssumption
<1>1. ASSUME NEW u \in Update, Posted(u)
      PROVE  updates' \in Seq(Update) /\ Len(updates') <= MaxUpdates
  <2>1. Len(updates) < MaxUpdates /\ updates' = Append(updates, u)
    BY <1>1 DEF Posted
  <2> QED
    BY <1>0, <2>1
<1>2. ASSUME updates # << >>, updates' = Tail(updates)
      PROVE  /\ updates' \in Seq(Update) /\ Len(updates') <= MaxUpdates
             /\ Head(updates) \in Update
  BY <1>0, <1>2
<1> QED
  BY <1>1, <1>2

\* The payload of an event is of the type that its kind says.
LEMMA PayloadIsTyped ==
    ASSUME NEW u \in Update
    PROVE  /\ u.kind = "stats" => u.counter \in Counters
           /\ u.kind = "map" => u.place \in Place
BY DEF Update

\* Two addresses with one owner are the place of that owner.
LEMMA MappingIsInjective ==
    ASSUME NEW place \in Place, NEW owner \in Mapping(place)
    PROVE  /\ owner \in [IP -> Device \cup {None}]
           /\ \A i, j \in IP : owner[i] = owner[j] => i = j \/ owner[i] = None
<1>1. owner \in [IP -> Device \cup {None}]
  BY DEF Mapping
<1>2. ASSUME NEW i \in IP, owner[i] # None PROVE place[owner[i]] = i
  BY <1>2 DEF Mapping, Claims
<1> QED
  BY <1>1, <1>2

LEMMA TrafficKept ==
    ASSUME TrafficTypeOK, [TrafficStep]_trafficVars
    PROVE  /\ TrafficTypeOK'
           /\ \A k \in Key : total'[k] >= total[k]
<1> DEFINE Holds == /\ TrafficTypeOK'
                    /\ \A k \in Key : total'[k] >= total[k]
<1>0. ASSUME UNCHANGED <<total, prev>>
      PROVE  \A k \in Key : total'[k] >= total[k]
  BY <1>0 DEF TrafficTypeOK
<1>1. ASSUME NEW u \in Uses, Packet(u[1], u[2]) PROVE Holds
  <2>1. u[1] \in IP /\ u[2] \in Device
    BY TrafficAssumption
  <2>2. ASSUME NEW size \in {0, 1} PROVE Credited(u[1], size) \in Counters
    BY <2>1 DEF Credited, Counters, TrafficTypeOK
  <2>3. counter' \in Counters
    BY <1>1, <2>2 DEF Packet
  <2>4. carried' \in [Device -> Nat] /\ \A m \in Device : carried'[m] <= MaxBytes[m]
    <3>0. carried \in [Device -> Nat] /\ MaxBytes \in [Device -> Nat]
      BY TrafficAssumption DEF TrafficTypeOK
    <3>1. CASE /\ carried[u[2]] < MaxBytes[u[2]]
               /\ carried' = [carried EXCEPT ![u[2]] = @ + 1]
      <4>1. ASSUME NEW m \in Device
            PROVE  carried'[m] = IF m = u[2] THEN carried[m] + 1 ELSE carried[m]
        BY <3>0, <3>1
      <4>2. carried' \in [Device -> Nat]
        BY <2>1, <3>0, <3>1
      <4> QED
        BY <3>0, <3>1, <4>1, <4>2 DEF TrafficTypeOK
    <3>2. CASE UNCHANGED carried
      BY <3>2 DEF TrafficTypeOK
    <3> QED
      BY <1>1, <3>1, <3>2 DEF Packet
  <2>5. UNCHANGED <<updates, ipToMac, total, prev>>
    BY <1>1 DEF Packet
  <2> QED
    BY <1>0, <2>3, <2>4, <2>5 DEF TrafficTypeOK
<1>2. CASE CalculateRates
  <2>1. [kind |-> "stats", counter |-> counter] \in Update
    BY DEF Update, TrafficTypeOK
  <2> QED
    BY <1>0, <1>2, <2>1, UpdatesAreTyped DEF CalculateRates, TrafficTypeOK
<1>3. CASE ResetStats
  BY <1>0, <1>3 DEF ResetStats, TrafficTypeOK, Counters
<1>4. ASSUME NEW place \in Place, PushMap(place) PROVE Holds
  <2>1. [kind |-> "map", place |-> place] \in Update
    BY DEF Update
  <2> QED
    BY <1>0, <1>4, <2>1, UpdatesAreTyped DEF PushMap, TrafficTypeOK
<1>5. CASE OnRawStats
  <2>1. /\ updates' \in Seq(Update) /\ Len(updates') <= MaxUpdates
        /\ Head(updates).counter \in Counters
    BY <1>5, UpdatesAreTyped, PayloadIsTyped DEF OnRawStats, TrafficTypeOK
  <2>2. /\ prev' \in [Key -> Nat] /\ total' \in [Key -> Nat]
        /\ \A k \in Key : total'[k] >= total[k]
    BY <1>5, <2>1, AccountKeeps DEF OnRawStats
  <2> QED
    BY <1>5, <2>1, <2>2 DEF OnRawStats, TrafficTypeOK
<1>6. CASE UpdateMacIpMap
  <2>1. /\ updates' \in Seq(Update) /\ Len(updates') <= MaxUpdates
        /\ Head(updates).place \in Place
    BY <1>6, UpdatesAreTyped, PayloadIsTyped DEF UpdateMacIpMap, TrafficTypeOK
  <2>2. /\ ipToMac' \in [IP -> Device \cup {None}]
        /\ \A i, j \in IP : ipToMac'[i] = ipToMac'[j] => i = j \/ ipToMac'[i] = None
    BY <1>6, <2>1, MappingIsInjective DEF UpdateMacIpMap
  <2> QED
    BY <1>0, <1>6, <2>1, <2>2 DEF UpdateMacIpMap, KeptRecords, TrafficTypeOK
<1>7. CASE UNCHANGED trafficVars
  BY <1>0, <1>7 DEF trafficVars, TrafficTypeOK
<1> QED
  BY <1>1, <1>2, <1>3, <1>4, <1>5, <1>6, <1>7 DEF TrafficStep

\* The accounting is typed: in particular an address map gives every device
\* one address at most.
THEOREM TrafficTypeCorrect == TrafficSpec => []TrafficTypeOK
BY TrafficStart, TrafficKept, PTL DEF TrafficSpec

\* No record loses bytes.
THEOREM HistoryStays == TrafficSpec => HistoryIsKept
<1>1. TrafficTypeOK /\ [TrafficStep]_trafficVars => [\A k \in Key : total'[k] >= total[k]]_trafficVars
  BY TrafficKept
<1> QED
  BY <1>1, TrafficStart, TrafficKept, PTL DEF TrafficSpec, HistoryIsKept

\* What a record k has been told of the address ip, by now and on the way: the
\* reading it last took, those of the events in the queue, and the counter.
Told(ip, k) ==
    [i \in 0 .. Len(updates) + 1 |->
        IF i = 0 THEN prev[k]
        ELSE IF i = Len(updates) + 1 THEN counter[ip]
        ELSE IF updates[i].kind = "stats" THEN updates[i].counter[ip] ELSE None]

\* No two readings differ by more than was carried between them: c says how
\* much that was at the moment of each.
Explains(c, r) ==
    \A i, j \in DOMAIN r : i <= j =>
        /\ c[i] <= c[j]
        /\ r[i] # None /\ r[j] # None => r[j] + c[i] <= r[i] + c[j]

Explained(ip, m, k) ==
    \E c \in [0 .. Len(updates) + 1 -> 0 .. carried[m]] :
        /\ total[k] <= c[0] /\ c[Len(updates) + 1] = carried[m]
        /\ Explains(c, Told(ip, k))

\* A map, in force or on its way, places a device where it may be.
PlacesAreLegal ==
    /\ \A i \in 1 .. Len(updates) : updates[i].kind = "map" =>
         \A m \in Device : updates[i].place[m] = None \/ <<updates[i].place[m], m>> \in Uses
    /\ \A ip \in IP : ipToMac[ip] = None \/ <<ip, ipToMac[ip]>> \in Uses

PhantomInv ==
    /\ PlacesAreLegal
    /\ \A ip \in IP, m \in Device : Settled(ip, m) => \A k \in {ip, m} : Explained(ip, m, k)

\* The counter moves no faster than the device carries.
LEMMA LastReadingMoves ==
    ASSUME NEW n \in Nat, NEW x \in Nat, NEW y \in Nat, x <= y,
           NEW r \in [0 .. n + 1 -> Nat \cup {None}], NEW c \in [0 .. n + 1 -> 0 .. x],
           c[n + 1] = x, Explains(c, r), NEW b \in Nat \cup {None},
           b # None => b + x <= y + (IF r[n + 1] = None THEN 0 ELSE r[n + 1])
    PROVE  Explains([c EXCEPT ![n + 1] = y], [r EXCEPT ![n + 1] = b])
<1> DEFINE d == [c EXCEPT ![n + 1] = y]
           s == [r EXCEPT ![n + 1] = b]
<1>1. /\ d[n + 1] = y /\ \A i \in 0 .. n : d[i] = c[i]
      /\ s[n + 1] = b /\ \A i \in 0 .. n : s[i] = r[i]
      /\ DOMAIN s = 0 .. n + 1 /\ DOMAIN r = 0 .. n + 1
  OBVIOUS
<1> HIDE DEF d, s
<1>2. \A i \in 0 .. n + 1 : c[i] \in Nat /\ c[i] <= x /\ r[i] \in Nat \cup {None}
  OBVIOUS
<1>3. \A i \in 0 .. n : i \in 0 .. n + 1 /\ i <= n + 1
  OBVIOUS
<1>4. n + 1 \in 0 .. n + 1 /\ \A i \in 0 .. n + 1 : i \in 0 .. n \/ i = n + 1
  OBVIOUS
<1>5. ASSUME NEW i \in 0 .. n
      PROVE  /\ d[i] <= d[n + 1]
             /\ s[i] # None /\ s[n + 1] # None => s[n + 1] + d[i] <= s[i] + d[n + 1]
  <2>1. d[i] = c[i] /\ d[n + 1] = y /\ s[i] = r[i] /\ s[n + 1] = b
    BY <1>1
  <2>2. c[i] \in Nat /\ c[i] <= x /\ r[i] \in Nat \cup {None} /\ r[n + 1] \in Nat \cup {None}
    BY <1>2, <1>3, <1>4
  <2>3. r[i] # None /\ r[n + 1] # None => r[n + 1] + c[i] <= r[i] + x
    BY <1>1, <1>3, <1>4 DEF Explains
  <2>4. ASSUME r[i] # None, b # None
        PROVE  b + c[i] <= r[i] + y
    BY <2>2, <2>3, <2>4
  <2> QED
    BY <2>1, <2>2, <2>4
<1>6. ASSUME NEW i \in 0 .. n, NEW j \in 0 .. n, i <= j
      PROVE  /\ d[i] <= d[j]
             /\ s[i] # None /\ s[j] # None => s[j] + d[i] <= s[i] + d[j]
  BY <1>1, <1>3, <1>6 DEF Explains
<1>7. ASSUME NEW i \in 0 .. n + 1, NEW j \in 0 .. n + 1, i <= j
      PROVE  /\ d[i] <= d[j]
             /\ s[i] # None /\ s[j] # None => s[j] + d[i] <= s[i] + d[j]
  <2>1. CASE j \in 0 .. n
    <3>1. i \in 0 .. n
      BY <1>7, <2>1
    <3> QED
      BY <1>6, <1>7, <2>1, <3>1
  <2>2. CASE i \in 0 .. n /\ j = n + 1
    BY <1>5, <2>2
  <2>3. CASE i = n + 1 /\ j = n + 1
    BY <1>1, <2>3
  <2>4. j \in 0 .. n \/ (i \in 0 .. n /\ j = n + 1) \/ (i = n + 1 /\ j = n + 1)
    BY <1>4, <1>7
  <2> QED
    BY <2>1, <2>2, <2>3, <2>4
<1> QED
  BY <1>1, <1>7 DEF Explains, d, s

Picked(d, c, at) == \A i \in DOMAIN d : d[i] = c[at[i]]
Ordered(at) == \A i, j \in DOMAIN at : i <= j => at[i] <= at[j]

\* Leaving readings out, or taking one twice, explains no less.
LEMMA ReadingsArePicked ==
    ASSUME NEW D \in SUBSET Nat, NEW E \in SUBSET Nat, NEW x \in Nat,
           NEW r \in [D -> Nat \cup {None}], NEW c \in [D -> 0 .. x], Explains(c, r),
           NEW at \in [E -> D], Ordered(at),
           NEW s, DOMAIN s = E, \A i \in E : s[i] \in {r[at[i]], None},
           NEW d, DOMAIN d = E, Picked(d, c, at)
    PROVE  Explains(d, s)
<1>1. ASSUME NEW i \in E, NEW j \in E, i <= j
      PROVE  /\ d[i] <= d[j]
             /\ s[i] # None /\ s[j] # None => s[j] + d[i] <= s[i] + d[j]
  <2>1. at[i] \in D /\ at[j] \in D /\ at[i] <= at[j]
    BY <1>1 DEF Ordered
  <2>2. DOMAIN r = D /\ d[i] = c[at[i]] /\ d[j] = c[at[j]]
    BY DEF Picked
  <2>3. s[i] \in {r[at[i]], None} /\ s[j] \in {r[at[j]], None}
    BY <1>1
  <2>4. /\ c[at[i]] <= c[at[j]]
        /\ r[at[i]] # None /\ r[at[j]] # None => r[at[j]] + c[at[i]] <= r[at[i]] + c[at[j]]
    BY <2>1, <2>2 DEF Explains
  <2> QED
    BY <2>2, <2>3, <2>4
<1> QED
  BY <1>1 DEF Explains

\* An event joins the queue: a copy of the last reading, or none.
Copied(r, b, n) ==
    [i \in 0 .. n + 2 |-> IF i <= n THEN r[i] ELSE IF i = n + 1 THEN b ELSE r[n + 1]]

LEMMA ReadingIsCopied ==
    ASSUME NEW n \in Nat, NEW x \in Nat,
           NEW r \in [0 .. n + 1 -> Nat \cup {None}], NEW c \in [0 .. n + 1 -> 0 .. x],
           Explains(c, r), NEW b \in {r[n + 1], None},
           NEW s, s = Copied(r, b, n)
    PROVE  \E d \in [0 .. n + 2 -> 0 .. x] :
              d[0] = c[0] /\ d[n + 2] = c[n + 1] /\ Explains(d, s)
<1> DEFINE at == [i \in 0 .. n + 2 |-> IF i <= n THEN i ELSE n + 1]
           d == [i \in 0 .. n + 2 |-> c[at[i]]]
<1>1. /\ at \in [0 .. n + 2 -> 0 .. n + 1]
      /\ \A i, j \in 0 .. n + 2 : i <= j => at[i] <= at[j]
      /\ at[0] = 0 /\ at[n + 2] = n + 1 /\ 0 \in 0 .. n + 2 /\ n + 2 \in 0 .. n + 2
      /\ n + 1 \in Nat /\ n + 2 \in Nat
  OBVIOUS
<1>2. \A i \in 0 .. n + 2 : s[i] \in {r[at[i]], None}
  BY DEF Copied
<1>3. DOMAIN s = 0 .. n + 2
  BY DEF Copied
<1>5. 0 .. n + 1 \in SUBSET Nat /\ 0 .. n + 2 \in SUBSET Nat
  OBVIOUS
<1>6. d \in [0 .. n + 2 -> 0 .. x] /\ \A i \in 0 .. n + 2 : d[i] = c[at[i]]
  BY <1>1
<1> HIDE DEF at, d
<1>4. Explains(d, s)
  <2>1. PICK D \in SUBSET Nat, E \in SUBSET Nat : D = 0 .. n + 1 /\ E = 0 .. n + 2
    BY <1>5
  <2>2. /\ r \in [D -> Nat \cup {None}] /\ c \in [D -> 0 .. x]
        /\ at \in [E -> D] /\ Ordered(at) /\ DOMAIN s = E
        /\ \A i \in E : s[i] \in {r[at[i]], None}
        /\ DOMAIN d = E /\ Picked(d, c, at)
    BY <1>1, <1>2, <1>3, <1>6, <2>1 DEF Ordered, Picked
  <2> QED
    BY <2>2, ReadingsArePicked
<1> QED
  BY <1>1, <1>4, <1>6

\* The oldest event leaves the queue; r[e] is the reading that is kept.
Taken(r, e, n) == [i \in 0 .. n + 1 |-> IF i = 0 THEN r[e] ELSE r[i + 1]]

LEMMA ReadingIsTaken ==
    ASSUME NEW n \in Nat, NEW x \in Nat, NEW e \in {0, 1},
           NEW r \in [0 .. n + 2 -> Nat \cup {None}], NEW c \in [0 .. n + 2 -> 0 .. x],
           Explains(c, r),
           NEW s, s = Taken(r, e, n)
    PROVE  \E d \in [0 .. n + 1 -> 0 .. x] :
              d[0] = c[e] /\ d[n + 1] = c[n + 2] /\ Explains(d, s)
<1> DEFINE at == [i \in 0 .. n + 1 |-> IF i = 0 THEN e ELSE i + 1]
           d == [i \in 0 .. n + 1 |-> c[at[i]]]
<1>1. /\ at \in [0 .. n + 1 -> 0 .. n + 2]
      /\ \A i, j \in 0 .. n + 1 : i <= j => at[i] <= at[j]
      /\ at[0] = e /\ at[n + 1] = n + 2 /\ 0 \in 0 .. n + 1 /\ n + 1 \in 0 .. n + 1
      /\ n + 1 \in Nat /\ n + 2 \in Nat
  OBVIOUS
<1>2. \A i \in 0 .. n + 1 : s[i] \in {r[at[i]], None}
  BY DEF Taken
<1>3. DOMAIN s = 0 .. n + 1
  BY DEF Taken
<1>5. 0 .. n + 1 \in SUBSET Nat /\ 0 .. n + 2 \in SUBSET Nat
  OBVIOUS
<1>6. d \in [0 .. n + 1 -> 0 .. x] /\ \A i \in 0 .. n + 1 : d[i] = c[at[i]]
  BY <1>1
<1> HIDE DEF at, d
<1>4. Explains(d, s)
  <2>1. PICK D \in SUBSET Nat, E \in SUBSET Nat : D = 0 .. n + 2 /\ E = 0 .. n + 1
    BY <1>5
  <2>2. /\ r \in [D -> Nat \cup {None}] /\ c \in [D -> 0 .. x]
        /\ at \in [E -> D] /\ Ordered(at) /\ DOMAIN s = E
        /\ \A i \in E : s[i] \in {r[at[i]], None}
        /\ DOMAIN d = E /\ Picked(d, c, at)
    BY <1>1, <1>2, <1>3, <1>6, <2>1 DEF Ordered, Picked
  <2> QED
    BY <2>2, ReadingsArePicked
<1> QED
  BY <1>1, <1>4, <1>6

\* What a record has been told is typed.
LEMMA ToldIsTyped ==
    ASSUME TrafficTypeOK, NEW ip \in IP, NEW k \in Key
    PROVE  /\ Len(updates) \in Nat
           /\ Told(ip, k) \in [0 .. Len(updates) + 1 -> Nat \cup {None}]
           /\ Told(ip, k)[0] = prev[k] /\ Told(ip, k)[Len(updates) + 1] = counter[ip]
           /\ \A i \in 1 .. Len(updates) :
                Told(ip, k)[i] = IF updates[i].kind = "stats" THEN updates[i].counter[ip] ELSE None
<1>1. Len(updates) \in Nat
  BY DEF TrafficTypeOK
<1>2. ASSUME NEW i \in 1 .. Len(updates), updates[i].kind = "stats"
      PROVE  updates[i].counter[ip] \in Nat \cup {None}
  <2>1. updates[i] \in Update
    BY DEF TrafficTypeOK
  <2>2. updates[i].counter \in Counters
    BY <1>2, <2>1, PayloadIsTyped
  <2> QED
    BY <2>2 DEF Counters
<1>3. prev[k] \in Nat /\ counter[ip] \in Nat \cup {None}
  BY DEF TrafficTypeOK, Counters
<1>4. ASSUME NEW i \in 0 .. Len(updates) + 1
      PROVE  i = 0 \/ i = Len(updates) + 1 \/ i \in 1 .. Len(updates)
  BY <1>1
<1>5. /\ 0 \in 0 .. Len(updates) + 1 /\ Len(updates) + 1 \in 0 .. Len(updates) + 1
      /\ Len(updates) + 1 # 0
      /\ \A i \in 1 .. Len(updates) :
           i \in 0 .. Len(updates) + 1 /\ i # 0 /\ i # Len(updates) + 1
  BY <1>1
<1> QED
  BY <1>1, <1>2, <1>3, <1>4, <1>5 DEF Told

\* The counter of an address moves no faster than its device carries.
LEMMA CounterMoves ==
    ASSUME TrafficTypeOK, TrafficTypeOK', NEW ip \in IP, NEW m \in Device, NEW k \in Key,
           Explained(ip, m, k), UNCHANGED <<updates, total, prev>>, carried[m] <= carried'[m],
           counter'[ip] # None =>
               counter'[ip] + carried[m]
                 <= carried'[m] + (IF counter[ip] = None THEN 0 ELSE counter[ip])
    PROVE  Explained(ip, m, k)'
<1>1. PICK n \in Nat : n = Len(updates) /\ n = Len(updates')
  BY ToldIsTyped
<1>2. PICK r : r = Told(ip, k)
  OBVIOUS
<1>3. PICK s : s = Told(ip, k)'
  OBVIOUS
<1>4. PICK c \in [0 .. n + 1 -> 0 .. carried[m]] :
         total[k] <= c[0] /\ c[n + 1] = carried[m] /\ Explains(c, r)
  BY <1>1, <1>2 DEF Explained
<1>5. /\ r \in [0 .. n + 1 -> Nat \cup {None}] /\ r[n + 1] = counter[ip]
      /\ carried[m] \in Nat /\ carried'[m] \in Nat /\ counter'[ip] \in Nat \cup {None}
  BY <1>1, <1>2, ToldIsTyped DEF TrafficTypeOK, Counters
<1>6. s = [r EXCEPT ![n + 1] = counter'[ip]]
  <2>1. r = [i \in 0 .. n + 1 |->
               IF i = 0 THEN prev[k] ELSE IF i = n + 1 THEN counter[ip]
               ELSE IF updates[i].kind = "stats" THEN updates[i].counter[ip] ELSE None]
    BY <1>1, <1>2 DEF Told
  <2>2. s = [i \in 0 .. n + 1 |->
               IF i = 0 THEN prev[k] ELSE IF i = n + 1 THEN counter'[ip]
               ELSE IF updates[i].kind = "stats" THEN updates[i].counter[ip] ELSE None]
    BY <1>1, <1>3 DEF Told
  <2>3. n + 1 # 0
    OBVIOUS
  <2> QED
    BY <2>1, <2>2, <2>3
<1>7. PICK d : d = [c EXCEPT ![n + 1] = carried'[m]]
  OBVIOUS
<1>8. Explains(d, s)
  BY <1>4, <1>5, <1>6, <1>7, LastReadingMoves
<1>9. d \in [0 .. n + 1 -> 0 .. carried'[m]] /\ d[0] = c[0] /\ d[n + 1] = carried'[m]
  BY <1>4, <1>5, <1>7
<1> QED
  BY <1>1, <1>3, <1>4, <1>8, <1>9 DEF Explained

\* An event is posted: a snapshot carries the counter as it is.
LEMMA EventIsPosted ==
    ASSUME TrafficTypeOK, TrafficTypeOK', NEW ip \in IP, NEW m \in Device, NEW k \in Key,
           Explained(ip, m, k), UNCHANGED <<carried, counter, total, prev>>,
           NEW u \in Update, updates' = Append(updates, u),
           u.kind = "stats" => u.counter = counter
    PROVE  Explained(ip, m, k)'
<1>1. PICK n \in Nat : n = Len(updates) /\ n + 1 = Len(updates')
  BY ToldIsTyped
<1>2. PICK r : r = Told(ip, k)
  OBVIOUS
<1>3. PICK s : s = Told(ip, k)'
  OBVIOUS
<1>4. PICK c \in [0 .. n + 1 -> 0 .. carried[m]] :
         total[k] <= c[0] /\ c[n + 1] = carried[m] /\ Explains(c, r)
  BY <1>1, <1>2 DEF Explained
<1>5. /\ r \in [0 .. n + 1 -> Nat \cup {None}]
      /\ r[0] = prev[k] /\ r[n + 1] = counter[ip] /\ carried[m] \in Nat
      /\ \A i \in 1 .. n :
           r[i] = IF updates[i].kind = "stats" THEN updates[i].counter[ip] ELSE None
  BY <1>1, <1>2, ToldIsTyped DEF TrafficTypeOK
<1>6. PICK b \in {r[n + 1], None} : b = IF u.kind = "stats" THEN u.counter[ip] ELSE None
  BY <1>5
<1>7. /\ updates'[n + 1] = u
      /\ \A i \in 1 .. n : updates'[i] = updates[i]
  BY <1>1 DEF TrafficTypeOK
<1>8. s = Copied(r, b, n)
  <2>1. s = [i \in 0 .. n + 2 |->
               IF i = 0 THEN prev[k] ELSE IF i = n + 2 THEN counter[ip]
               ELSE IF updates'[i].kind = "stats" THEN updates'[i].counter[ip] ELSE None]
    BY <1>1, <1>3 DEF Told
  <2>2. ASSUME NEW i \in 0 .. n + 2
        PROVE  (IF i = 0 THEN prev[k] ELSE IF i = n + 2 THEN counter[ip]
                ELSE IF updates'[i].kind = "stats" THEN updates'[i].counter[ip] ELSE None)
               = IF i <= n THEN r[i] ELSE IF i = n + 1 THEN b ELSE r[n + 1]
    <3>1. CASE i = 0
      <4>1. 0 <= n
        OBVIOUS
      <4> QED
        BY <1>5, <3>1, <4>1
    <3>2. CASE i \in 1 .. n
      <4>1. i # 0 /\ i # n + 2 /\ i <= n
        BY <3>2
      <4> QED
        BY <1>5, <1>7, <3>2, <4>1
    <3>3. CASE i = n + 1
      <4>1. i # 0 /\ i # n + 2 /\ ~ (i <= n)
        BY <3>3
      <4> QED
        BY <1>6, <1>7, <3>3, <4>1
    <3>4. CASE i = n + 2
      <4>1. i # 0 /\ i # n + 1 /\ ~ (i <= n)
        BY <3>4
      <4> QED
        BY <1>5, <3>4, <4>1
    <3>5. i = 0 \/ i \in 1 .. n \/ i = n + 1 \/ i = n + 2
      OBVIOUS
    <3> QED
      BY <3>1, <3>2, <3>3, <3>4, <3>5
  <2> QED
    BY <2>1, <2>2 DEF Copied
<1>9. PICK d \in [0 .. n + 2 -> 0 .. carried[m]] :
         d[0] = c[0] /\ d[n + 2] = c[n + 1] /\ Explains(d, s)
  BY <1>4, <1>5, <1>8, ReadingIsCopied
<1>10. Len(updates') + 1 = n + 2
  BY <1>1
<1> QED
  BY <1>3, <1>4, <1>9, <1>10 DEF Explained

\* An event is taken: a record keeps its reading, or adds what the address
\* has gained since.
LEMMA EventIsTaken ==
    ASSUME TrafficTypeOK, TrafficTypeOK', NEW ip \in IP, NEW m \in Device, NEW k \in Key,
           Explained(ip, m, k), UNCHANGED <<carried, counter>>,
           updates # << >>, updates' = Tail(updates),
           \/ prev'[k] = prev[k] /\ total'[k] = total[k]
           \/ /\ Head(updates).kind = "stats" /\ Head(updates).counter[ip] # None
              /\ prev'[k] = Head(updates).counter[ip]
              /\ total'[k] = total[k] + Delta(prev'[k], prev[k])
    PROVE  Explained(ip, m, k)'
<1>1. PICK n \in Nat : n + 1 = Len(updates) /\ n = Len(updates')
  <2>1. updates \in Seq(Update)
    BY DEF TrafficTypeOK
  <2>2. Len(updates) \in Nat /\ Len(updates) # 0 /\ Len(updates') = Len(updates) - 1
    BY <2>1
  <2>3. Len(updates') \in Nat /\ Len(updates') + 1 = Len(updates)
    BY <2>2 DEF TrafficTypeOK
  <2> QED
    BY <2>3
<1>2. PICK r : r = Told(ip, k)
  OBVIOUS
<1>3. PICK s : s = Told(ip, k)'
  OBVIOUS
<1>0. Len(updates) + 1 = n + 2
  BY <1>1
<1>4. PICK c \in [0 .. n + 2 -> 0 .. carried[m]] :
         total[k] <= c[0] /\ c[n + 2] = carried[m] /\ Explains(c, r)
  BY <1>0, <1>2 DEF Explained
<1>5. /\ r \in [0 .. n + 2 -> Nat \cup {None}]
      /\ r[0] = prev[k] /\ r[n + 2] = counter[ip] /\ carried[m] \in Nat
      /\ \A i \in 1 .. n + 1 :
           r[i] = IF updates[i].kind = "stats" THEN updates[i].counter[ip] ELSE None
      /\ total[k] \in Nat /\ total'[k] \in Nat /\ prev[k] \in Nat
  BY <1>0, <1>1, <1>2, ToldIsTyped DEF TrafficTypeOK
<1>6. Head(updates) = updates[1] /\ \A i \in 1 .. n : updates'[i] = updates[i + 1]
  BY <1>1 DEF TrafficTypeOK
<1>7. PICK e \in {0, 1} : prev'[k] = r[e] /\ total'[k] <= c[e]
  <2>1. CASE prev'[k] = prev[k] /\ total'[k] = total[k]
    BY <1>4, <1>5, <2>1
  <2>2. CASE /\ Head(updates).kind = "stats" /\ Head(updates).counter[ip] # None
             /\ prev'[k] = Head(updates).counter[ip]
             /\ total'[k] = total[k] + Delta(prev'[k], prev[k])
    <3>1. 0 \in 0 .. n + 2 /\ 1 \in 0 .. n + 2 /\ 1 \in 1 .. n + 1 /\ 0 <= 1
      OBVIOUS
    <3>2. prev'[k] = r[1] /\ r[1] # None /\ r[1] \in Nat
      BY <1>5, <1>6, <2>2, <3>1
    <3>3. r[0] # None
      BY <1>5, TrafficAssumption
    <3>4. c[0] \in Nat /\ c[1] \in Nat /\ c[0] <= c[1] /\ r[1] + c[0] <= r[0] + c[1]
      BY <1>4, <1>5, <3>1, <3>2, <3>3 DEF Explains
    <3>5. total'[k] <= c[1]
      BY <1>4, <1>5, <2>2, <3>2, <3>4 DEF Delta
    <3> QED
      BY <3>2, <3>5
  <2> QED
    BY <2>1, <2>2
<1>8. s = Taken(r, e, n)
  <2>1. s = [i \in 0 .. n + 1 |->
               IF i = 0 THEN prev'[k] ELSE IF i = n + 1 THEN counter[ip]
               ELSE IF updates'[i].kind = "stats" THEN updates'[i].counter[ip] ELSE None]
    BY <1>1, <1>3 DEF Told
  <2>2. ASSUME NEW i \in 0 .. n + 1
        PROVE  (IF i = 0 THEN prev'[k] ELSE IF i = n + 1 THEN counter[ip]
                ELSE IF updates'[i].kind = "stats" THEN updates'[i].counter[ip] ELSE None)
               = IF i = 0 THEN r[e] ELSE r[i + 1]
    <3>1. CASE i = 0
      BY <1>7, <3>1
    <3>2. CASE i \in 1 .. n
      <4>1. i + 1 \in 1 .. n + 1 /\ i # 0 /\ i # n + 1
        BY <3>2
      <4> QED
        BY <1>5, <1>6, <3>2, <4>1
    <3>3. CASE i = n + 1
      <4>1. i # 0 /\ i + 1 = n + 2
        BY <3>3
      <4> QED
        BY <1>5, <3>3, <4>1
    <3>4. i = 0 \/ i \in 1 .. n \/ i = n + 1
      OBVIOUS
    <3> QED
      BY <3>1, <3>2, <3>3, <3>4
  <2> QED
    BY <2>1, <2>2 DEF Taken
<1>9. PICK d \in [0 .. n + 1 -> 0 .. carried[m]] :
         d[0] = c[e] /\ d[n + 1] = c[n + 2] /\ Explains(d, s)
  <2>1. /\ r \in [0 .. n + 2 -> Nat \cup {None}] /\ carried[m] \in Nat
        /\ c \in [0 .. n + 2 -> 0 .. carried[m]] /\ Explains(c, r)
    BY <1>4, <1>5
  <2> QED
    BY <1>8, <2>1, ReadingIsTaken
<1> QED
  BY <1>1, <1>3, <1>4, <1>7, <1>9 DEF Explained

\* A record of a settled device is fed from its address or not at all.
LEMMA FedFromOneAddress ==
    ASSUME TrafficTypeOK, PlacesAreLegal, NEW ip \in IP, NEW m \in Device, Settled(ip, m),
           NEW k \in {ip, m}, NEW stats \in Counters, Sources(k, stats) # {}
    PROVE  stats[ip] # None /\ Reading(k, stats) = stats[ip]
<1>1. ASSUME NEW i \in Sources(k, stats) PROVE i = ip /\ stats[i] # None
  <2>1. i \in IP /\ stats[i] # None /\ KeyOf(i) = k
    BY DEF Sources
  <2>2. ipToMac[i] \in Device \cup {None}
    BY <2>1 DEF TrafficTypeOK
  <2>3. CASE k = ip
    BY <2>1, <2>2, <2>3, TrafficAssumption DEF KeyOf
  <2>4. CASE k = m
    <3>1. ipToMac[i] = m
      BY <2>1, <2>2, <2>4, TrafficAssumption DEF KeyOf
    <3>2. m # None
      BY TrafficAssumption
    <3>3. <<i, m>> \in Uses
      BY <2>1, <3>1, <3>2 DEF PlacesAreLegal
    <3>4. <<i, m>> = <<ip, m>>
      BY <3>3 DEF Settled
    <3> QED
      BY <2>1, <3>4
  <2> QED
    BY <2>3, <2>4
<1>2. PICK i : i = CHOOSE i_ \in Sources(k, stats) : TRUE
  OBVIOUS
<1>3. i \in Sources(k, stats)
  BY <1>2
<1>4. Reading(k, stats) = stats[i]
  BY <1>2 DEF Reading
<1> QED
  BY <1>1, <1>3, <1>4

\* A map places devices where they may be, from PushMap until it is in force.
LEMMA PlacesStayLegal ==
    ASSUME TrafficTypeOK, TrafficTypeOK', PlacesAreLegal, [TrafficStep]_trafficVars
    PROVE  PlacesAreLegal'
<1> DEFINE Legal(place) == \A m \in Device : place[m] = None \/ <<place[m], m>> \in Uses
<1>0. updates \in Seq(Update)
  BY DEF TrafficTypeOK
<1>1. ASSUME UNCHANGED <<updates, ipToMac>> PROVE PlacesAreLegal'
  BY <1>1 DEF PlacesAreLegal
<1>2. ASSUME NEW u \in Update, updates' = Append(updates, u), UNCHANGED ipToMac,
             u.kind = "map" => Legal(u.place)
      PROVE  PlacesAreLegal'
  <2>1. ASSUME NEW i \in 1 .. Len(updates')
        PROVE  updates'[i] = u \/ (i \in 1 .. Len(updates) /\ updates'[i] = updates[i])
    <3>1. /\ Len(updates) \in Nat /\ Len(updates') = Len(updates) + 1
          /\ updates'[Len(updates) + 1] = u
          /\ \A j \in 1 .. Len(updates) : updates'[j] = updates[j]
      BY <1>0, <1>2
    <3>2. i = Len(updates) + 1 \/ i \in 1 .. Len(updates)
      BY <3>1
    <3> QED
      BY <3>1, <3>2
  <2> QED
    BY <1>2, <2>1 DEF PlacesAreLegal
<1>3. ASSUME updates # << >>, updates' = Tail(updates)
      PROVE  /\ \A i \in 1 .. Len(updates') : updates'[i].kind = "map" => Legal(updates'[i].place)
             /\ Head(updates).kind = "map" => Legal(Head(updates).place)
  <2>1. ASSUME NEW i \in 1 .. Len(updates')
        PROVE  i + 1 \in 1 .. Len(updates) /\ updates'[i] = updates[i + 1]
    BY <1>0, <1>3
  <2>2. 1 \in 1 .. Len(updates) /\ Head(updates) = updates[1]
    BY <1>0, <1>3
  <2> QED
    BY <2>1, <2>2 DEF PlacesAreLegal
<1>4. CASE UpdateMacIpMap
  <2>1. Legal(Head(updates).place) /\ Head(updates) \in Update /\ Head(updates).kind = "map"
    BY <1>0, <1>3, <1>4 DEF UpdateMacIpMap
  <2>2. ASSUME NEW ip \in IP, ipToMac'[ip] # None PROVE <<ip, ipToMac'[ip]>> \in Uses
    <3>1. ipToMac' \in Mapping(Head(updates).place)
      BY <1>4 DEF UpdateMacIpMap
    <3>2. ipToMac'[ip] \in Device /\ Head(updates).place[ipToMac'[ip]] = ip
      BY <2>2, <3>1 DEF Mapping, Claims
    <3>3. ip # None
      BY TrafficAssumption
    <3> QED
      BY <2>1, <3>2, <3>3
  <2>3. \A i \in 1 .. Len(updates') : updates'[i].kind = "map" => Legal(updates'[i].place)
    BY <1>3, <1>4 DEF UpdateMacIpMap
  <2> QED
    BY <2>2, <2>3 DEF PlacesAreLegal
<1>5. CASE OnRawStats
  BY <1>3, <1>5 DEF OnRawStats, PlacesAreLegal
<1>6. ASSUME NEW place \in Place, PushMap(place) PROVE PlacesAreLegal'
  <2>1. PICK u \in Update : u = [kind |-> "map", place |-> place]
    BY DEF Update
  <2>2. Legal(u.place) /\ updates' = Append(updates, u) /\ UNCHANGED ipToMac
    BY <1>6, <2>1 DEF PushMap, Posted
  <2> QED
    BY <1>2, <2>2
<1>7. CASE CalculateRates
  <2>1. PICK u \in Update : u = [kind |-> "stats", counter |-> counter]
    BY DEF Update, TrafficTypeOK
  <2>2. u.kind # "map" /\ updates' = Append(updates, u) /\ UNCHANGED ipToMac
    BY <1>7, <2>1 DEF CalculateRates, Posted
  <2> QED
    BY <1>2, <2>2
<1>8. CASE ResetStats
  BY <1>1, <1>8 DEF ResetStats
<1>9. ASSUME NEW u \in Uses, Packet(u[1], u[2]) PROVE PlacesAreLegal'
  BY <1>1, <1>9 DEF Packet
<1>10. CASE UNCHANGED trafficVars
  BY <1>1, <1>10 DEF trafficVars
<1> QED
  BY <1>4, <1>5, <1>6, <1>7, <1>8, <1>9, <1>10 DEF TrafficStep

\* Bytes are counted under the address that carried them.
LEMMA PacketMoves ==
    ASSUME TrafficTypeOK, TrafficTypeOK', NEW ip \in IP, NEW m \in Device, Settled(ip, m),
           NEW u \in Uses, Packet(u[1], u[2])
    PROVE  /\ carried[m] <= carried'[m]
           /\ counter'[ip] # None =>
                counter'[ip] + carried[m]
                  <= carried'[m] + (IF counter[ip] = None THEN 0 ELSE counter[ip])
<1>1. /\ carried \in [Device -> Nat] /\ counter \in [IP -> Nat \cup {None}]
      /\ u[1] \in IP /\ u[2] \in Device /\ u = <<u[1], u[2]>>
  BY TrafficAssumption DEF TrafficTypeOK, Counters
<1>2. u[1] = ip <=> u[2] = m
  BY <1>1 DEF Settled
<1>3. CASE u[1] = ip
  <2>1. CASE carried' = [carried EXCEPT ![u[2]] = @ + 1] /\ counter' = Credited(u[1], 1)
    <3>1. carried'[m] = carried[m] + 1
      BY <1>1, <1>2, <1>3, <2>1
    <3>2. counter'[ip] = IF counter[ip] = None THEN 1 ELSE counter[ip] + 1
      BY <1>1, <1>3, <2>1 DEF Credited
    <3>3. carried[m] \in Nat /\ counter[ip] \in Nat \cup {None}
      BY <1>1
    <3>4. CASE counter[ip] = None
      BY <3>1, <3>2, <3>3, <3>4
    <3>5. CASE counter[ip] # None
      BY <3>1, <3>2, <3>3, <3>5
    <3> QED
      BY <3>4, <3>5
  <2>2. CASE counter' = Credited(u[1], 0) /\ UNCHANGED carried
    <3>1. counter'[ip] = IF counter[ip] = None THEN 0 ELSE counter[ip] + 0
      BY <1>1, <1>3, <2>2 DEF Credited
    <3>2. carried[m] \in Nat /\ counter[ip] \in Nat \cup {None}
      BY <1>1
    <3>3. CASE counter[ip] = None
      BY <2>2, <3>1, <3>2, <3>3
    <3>4. CASE counter[ip] # None
      BY <2>2, <3>1, <3>2, <3>4
    <3> QED
      BY <3>3, <3>4
  <2> QED
    BY <2>1, <2>2 DEF Packet
<1>4. CASE u[1] # ip
  <2>1. carried'[m] = carried[m] /\ counter'[ip] = counter[ip]
    BY <1>1, <1>2, <1>4 DEF Packet, Credited
  <2>2. carried[m] \in Nat /\ counter[ip] \in Nat \cup {None}
    BY <1>1
  <2> QED
    BY <2>1, <2>2
<1> QED
  BY <1>3, <1>4

LEMMA ExplainedStays ==
    ASSUME TrafficTypeOK, TrafficTypeOK', PlacesAreLegal, [TrafficStep]_trafficVars,
           NEW ip \in IP, NEW m \in Device, Settled(ip, m), NEW k \in {ip, m},
           Explained(ip, m, k)
    PROVE  Explained(ip, m, k)'
<1>0. k \in Key /\ carried[m] \in Nat /\ counter[ip] \in Nat \cup {None}
  BY DEF Key, TrafficTypeOK, Counters
<1>1. ASSUME NEW u \in Uses, Packet(u[1], u[2]) PROVE Explained(ip, m, k)'
  BY <1>0, <1>1, PacketMoves, CounterMoves DEF Packet
<1>2. CASE ResetStats
  <2>1. UNCHANGED <<updates, total, prev>> /\ carried[m] <= carried'[m] /\ counter'[ip] = None
    BY <1>0, <1>2 DEF ResetStats
  <2> QED
    BY <1>0, <2>1, CounterMoves
<1>3. CASE CalculateRates
  <2>1. PICK u \in Update : u = [kind |-> "stats", counter |-> counter]
    BY DEF Update, TrafficTypeOK
  <2>2. /\ u.kind = "stats" => u.counter = counter
        /\ updates' = Append(updates, u) /\ UNCHANGED <<carried, counter, total, prev>>
    BY <1>3, <2>1 DEF CalculateRates, Posted
  <2> QED
    BY <1>0, <2>2, EventIsPosted
<1>4. ASSUME NEW place \in Place, PushMap(place) PROVE Explained(ip, m, k)'
  <2>1. PICK u \in Update : u = [kind |-> "map", place |-> place]
    BY DEF Update
  <2>2. /\ u.kind = "stats" => u.counter = counter
        /\ updates' = Append(updates, u) /\ UNCHANGED <<carried, counter, total, prev>>
    BY <1>4, <2>1 DEF PushMap, Posted
  <2> QED
    BY <1>0, <2>2, EventIsPosted
<1>5. CASE OnRawStats
  <2>1. /\ updates # << >> /\ updates' = Tail(updates) /\ UNCHANGED <<carried, counter>>
        /\ Head(updates).kind = "stats" /\ Account(Head(updates).counter)
    BY <1>5 DEF OnRawStats
  <2>2. PICK stats \in Counters : stats = Head(updates).counter
    BY <2>1, UpdatesAreTyped, PayloadIsTyped DEF TrafficTypeOK
  <2>3. /\ prev'[k] = IF Sources(k, stats) = {} THEN prev[k] ELSE Reading(k, stats)
        /\ total'[k] = total[k] + Delta(prev'[k], prev[k])
    BY <1>0, <2>1, <2>2 DEF Account
  <2>4. CASE Sources(k, stats) = {}
    <3>1. prev'[k] = prev[k] /\ prev[k] \in Nat /\ total[k] \in Nat
      BY <1>0, <2>3, <2>4 DEF TrafficTypeOK
    <3>2. total'[k] = total[k]
      BY <2>3, <3>1 DEF Delta
    <3> QED
      BY <1>0, <2>1, <3>1, <3>2, EventIsTaken
  <2>5. CASE Sources(k, stats) # {}
    <3>1. stats[ip] # None /\ prev'[k] = stats[ip]
      BY <2>3, <2>5, FedFromOneAddress
    <3> QED
      BY <1>0, <2>1, <2>2, <2>3, <3>1, EventIsTaken
  <2> QED
    BY <2>4, <2>5
<1>6. CASE UpdateMacIpMap
  <2>1. /\ updates # << >> /\ updates' = Tail(updates) /\ UNCHANGED <<carried, counter>>
        /\ prev'[k] = prev[k] /\ total'[k] = total[k]
    BY <1>6 DEF UpdateMacIpMap, KeptRecords
  <2> QED
    BY <1>0, <2>1, EventIsTaken
<1>7. CASE UNCHANGED trafficVars
  <2>1. /\ UNCHANGED <<updates, total, prev>> /\ carried[m] <= carried'[m]
        /\ counter'[ip] = counter[ip]
    BY <1>0, <1>7 DEF trafficVars
  <2>2. counter'[ip] # None =>
          counter'[ip] + carried[m]
            <= carried'[m] + (IF counter[ip] = None THEN 0 ELSE counter[ip])
    <3>1. carried'[m] = carried[m]
      BY <1>7 DEF trafficVars
    <3> QED
      BY <1>0, <2>1, <3>1
  <2> QED
    BY <1>0, <2>1, <2>2, CounterMoves
<1> QED
  BY <1>1, <1>2, <1>3, <1>4, <1>5, <1>6, <1>7 DEF TrafficStep

LEMMA PhantomStart == TrafficInit => PhantomInv
<1> SUFFICES ASSUME TrafficInit PROVE PhantomInv
  OBVIOUS
<1>1. TrafficTypeOK /\ updates = << >> /\ Len(updates) = 0
  BY TrafficStart DEF TrafficInit
<1>2. PlacesAreLegal
  BY <1>1 DEF TrafficInit, PlacesAreLegal
<1>3. ASSUME NEW ip \in IP, NEW m \in Device, NEW k \in {ip, m}
      PROVE  Explained(ip, m, k)
  <2>1. k \in Key /\ carried[m] = 0 /\ total[k] = 0 /\ prev[k] = 0 /\ counter[ip] = None
    BY <1>3 DEF TrafficInit, Key
  <2>2. PICK c : c = [i \in 0 .. 1 |-> 0]
    OBVIOUS
  <2>3. PICK r : r = Told(ip, k)
    OBVIOUS
  <2>4. DOMAIN r = 0 .. 1 /\ r[0] = 0 /\ r[1] = None
    BY <1>1, <2>1, <2>3 DEF Told
  <2>5. Explains(c, r)
    <3>1. ASSUME NEW i \in 0 .. 1, NEW j \in 0 .. 1, i <= j
          PROVE  c[i] <= c[j] /\ (r[i] # None /\ r[j] # None => r[j] + c[i] <= r[i] + c[j])
      <4>1. i \in {0, 1} /\ j \in {0, 1} /\ c[i] = 0 /\ c[j] = 0
        BY <2>2
      <4> QED
        BY <2>4, <4>1
    <3> QED
      BY <2>4, <3>1 DEF Explains
  <2>6. /\ Len(updates) + 1 = 1 /\ 0 .. Len(updates) + 1 = 0 .. 1
        /\ c \in [0 .. 1 -> 0 .. 0] /\ c[0] = 0 /\ c[1] = 0
    BY <1>1, <2>2
  <2> QED
    BY <2>1, <2>3, <2>5, <2>6 DEF Explained
<1> QED
  BY <1>2, <1>3 DEF PhantomInv

LEMMA PhantomKept ==
    ASSUME TrafficTypeOK, TrafficTypeOK', PhantomInv, [TrafficStep]_trafficVars
    PROVE  PhantomInv'
<1>1. PlacesAreLegal /\ PlacesAreLegal'
  BY PlacesStayLegal DEF PhantomInv
<1>2. ASSUME NEW ip \in IP, NEW m \in Device, Settled(ip, m), NEW k \in {ip, m}
      PROVE  Explained(ip, m, k)'
  BY <1>1, <1>2, ExplainedStays DEF PhantomInv
<1> QED
  BY <1>1, <1>2 DEF PhantomInv, Settled

\* A device with an address of its own is never charged more than it carried,
\* whatever resets, stale snapshots and stale maps come in between.
THEOREM NoPhantom == TrafficSpec => []NoPhantomTraffic
<1>1. ASSUME TrafficTypeOK, PhantomInv PROVE NoPhantomTraffic
  <2>1. ASSUME NEW ip \in IP, NEW m \in Device, Settled(ip, m), NEW k \in {ip, m}
        PROVE  total[k] <= carried[m]
    <3>1. Explained(ip, m, k)
      BY <1>1, <2>1 DEF PhantomInv
    <3>2. /\ k \in Key /\ total[k] \in Nat /\ carried[m] \in Nat
          /\ 0 \in 0 .. Len(updates) + 1 /\ Len(updates) \in Nat
      BY <1>1 DEF Key, TrafficTypeOK
    <3> QED
      BY <3>1, <3>2 DEF Explained
  <2> QED
    BY <2>1, TrafficAssumption DEF NoPhantomTraffic
<1>2. TrafficTypeOK /\ TrafficTypeOK' /\ PhantomInv /\ [TrafficStep]_trafficVars => PhantomInv'
  BY PhantomKept
<1>3. TrafficSpec => []PhantomInv
  BY <1>2, PhantomStart, TrafficTypeCorrect, PTL DEF TrafficSpec
<1>4. TrafficTypeOK /\ PhantomInv => NoPhantomTraffic
  BY <1>1
<1> QED
  BY <1>3, <1>4, TrafficTypeCorrect, PTL

-----------------------------------------------------------------------------
(* Numbers.                                                                *)

\* A set of numbers has a least one, and a bounded one a greatest.
LEMMA LeastNumber ==
    ASSUME NEW T, T \subseteq Nat, T # {}
    PROVE  \E t \in T : \A u \in T : t <= u
<1> DEFINE R == {ij \in Nat \X Nat : ij[1] < ij[2]}
<1>1. IsWellFoundedOn(R, Nat)
  BY NatLessThanWellFounded DEF OpToRel
<1>2. \A i, j \in Nat : i < j => <<i, j>> \in R
  OBVIOUS
<1> HIDE DEF R
<1>3. PICK t \in T : \A u \in T : ~(<<u, t>> \in R)
  BY <1>1, WFMin
<1>4. \A u \in T : ~(u < t)
  BY <1>2, <1>3
<1>5. \A u \in T : t <= u
  BY <1>4
<1> QED
  BY <1>5

LEMMA GreatestNumber ==
    ASSUME NEW N \in Nat, NEW S, S \subseteq 0 .. N, S # {}
    PROVE  \E x \in S : \A y \in S : y <= x
<1> DEFINE T == {N - n : n \in S}
<1>1. T \subseteq Nat /\ T # {}
  <2>1. \A n \in S : N - n \in Nat
    OBVIOUS
  <2> QED
    BY <2>1
<1>2. PICK t \in T : \A u \in T : t <= u
  <2> HIDE DEF T
  <2> QED
    BY <1>1, LeastNumber
<1>3. PICK x \in S : t = N - x
  OBVIOUS
<1>4. \A y \in S : t <= N - y
  BY <1>2
<1>5. \A y \in S : y <= x
  BY <1>3, <1>4
<1> QED
  BY <1>5

-----------------------------------------------------------------------------
(* The history of traffic.                                                 *)

\* The powers of two count the subsets.
LEMMA PowersOfTwo ==
    /\ 2 ^ 0 = 1
    /\ \A n \in Nat : 2 ^ n \in Nat /\ 2 ^ (n + 1) = 2 * 2 ^ n
<1>1. ASSUME NEW n \in Nat
      PROVE  /\ IsFiniteSet(1 .. n) /\ Cardinality(1 .. n) = n
             /\ IsFiniteSet(SUBSET (1 .. n)) /\ Cardinality(SUBSET (1 .. n)) = 2 ^ n
             /\ 2 ^ n \in Nat
  <2>1. IsFiniteSet(1 .. n) /\ Cardinality(1 .. n) = n
    BY FS_Interval
  <2>2. IsFiniteSet(SUBSET (1 .. n)) /\ Cardinality(SUBSET (1 .. n)) = 2 ^ n
    BY <2>1, FS_SUBSET
  <2> QED
    BY <2>1, <2>2, FS_CardinalityType
<1>2. ASSUME NEW n \in Nat PROVE 2 ^ (n + 1) = 2 * 2 ^ n
  <2> DEFINE Old == SUBSET (1 .. n)
             New == {S \in SUBSET (1 .. n + 1) : n + 1 \in S}
             f == [S \in Old |-> S \cup {n + 1}]
  <2>1. SUBSET (1 .. n + 1) = Old \cup New /\ Old \cap New = {}
    <3>1. 1 .. n + 1 = (1 .. n) \cup {n + 1} /\ n + 1 \notin 1 .. n
      OBVIOUS
    <3> QED
      BY <3>1
  <2>2. f \in Bijection(Old, New)
    <3>1. 1 .. n + 1 = (1 .. n) \cup {n + 1} /\ n + 1 \notin 1 .. n
      OBVIOUS
    <3>2. \A S \in Old : f[S] \in New
      BY <3>1
    <3>3. \A S, T \in Old : f[S] = f[T] => S = T
      BY <3>1
    <3>4. \A T \in New : \E S \in Old : f[S] = T
      <4> TAKE T \in New
      <4>1. T \ {n + 1} \in Old /\ (T \ {n + 1}) \cup {n + 1} = T
        BY <3>1
      <4> QED
        BY <4>1
    <3>5. f \in [Old -> New]
      BY <3>2
    <3> HIDE DEF f, Old, New
    <3> QED
      BY <3>3, <3>4, <3>5 DEF Bijection, Injection, Surjection, IsInjective
  <2>3. IsFiniteSet(SUBSET (1 .. n)) /\ Cardinality(SUBSET (1 .. n)) = 2 ^ n
    BY <1>1
  <2>4. n + 1 \in Nat /\ Cardinality(SUBSET (1 .. n + 1)) = 2 ^ (n + 1)
    <3>1. PICK m \in Nat : m = n + 1
      OBVIOUS
    <3>2. Cardinality(SUBSET (1 .. m)) = 2 ^ m
      BY <1>1
    <3> QED
      BY <3>1, <3>2
  <2> HIDE DEF Old, New, f
  <2>8. IsFiniteSet(Old) /\ Cardinality(Old) = 2 ^ n
    BY <2>3 DEF Old
  <2>5. IsFiniteSet(New) /\ Cardinality(New) = Cardinality(Old)
    BY <2>2, <2>8, FS_Bijection DEF ExistsBijection
  <2>6. Cardinality(Old \cup New) = Cardinality(Old) + Cardinality(New) - 0
    BY <2>1, <2>5, <2>8, FS_Union, FS_EmptySet
  <2>7. PICK x \in Nat : x = 2 ^ n
    BY <1>1
  <2>9. Cardinality(Old \cup New) = 2 * x
    BY <2>5, <2>6, <2>7, <2>8
  <2>10. 2 ^ (n + 1) = Cardinality(Old \cup New)
    BY <2>1, <2>4
  <2> QED
    BY <2>7, <2>9, <2>10
<1>3. 2 ^ 0 = 1
  <2>1. 1 .. 0 = {}
    OBVIOUS
  <2>2. SUBSET {} = {{}} /\ Cardinality({{}}) = 1
    BY FS_Singleton
  <2> QED
    BY <1>1, <2>1, <2>2
<1> QED
  BY <1>1, <1>2, <1>3

LEMMA PowersAdd ==
    ASSUME NEW a \in Nat
    PROVE  \A b \in Nat : 2 ^ a \in Nat /\ 2 ^ a > 0 /\ 2 ^ (a + b) = 2 ^ a * 2 ^ b
<1>1. \A n \in Nat : 2 ^ n > 0
  <2> SUFFICES ASSUME NEW T, T = {n \in Nat : ~(2 ^ n > 0)}, T # {} PROVE FALSE
    OBVIOUS
  <2>9. T \subseteq Nat
    OBVIOUS
  <2>0. PICK n \in T : \A k \in T : n <= k
    BY <2>9, LeastNumber
  <2>1. n \in Nat /\ ~(2 ^ n > 0) /\ \A k \in Nat : ~(2 ^ k > 0) => n <= k
    BY <2>0
  <2>2. n # 0
    <3>1. 2 ^ 0 > 0
      BY PowersOfTwo
    <3> QED
      BY <2>1, <3>1
  <2>3. n - 1 \in Nat /\ ~(n <= n - 1) /\ (n - 1) + 1 = n
    BY <2>2
  <2>4. 2 ^ (n - 1) > 0 /\ 2 ^ (n - 1) \in Nat /\ 2 ^ n = 2 * 2 ^ (n - 1)
    BY <2>1, <2>3, PowersOfTwo
  <2> QED
    BY <2>1, <2>4
<1>2. \A b \in Nat : 2 ^ (a + b) = 2 ^ a * 2 ^ b
  <2> SUFFICES ASSUME NEW T, T = {b \in Nat : 2 ^ (a + b) # 2 ^ a * 2 ^ b}, T # {} PROVE FALSE
    OBVIOUS
  <2>9. T \subseteq Nat
    OBVIOUS
  <2>0. PICK b \in T : \A k \in T : b <= k
    BY <2>9, LeastNumber
  <2>1. /\ b \in Nat /\ 2 ^ (a + b) # 2 ^ a * 2 ^ b
        /\ \A k \in Nat : 2 ^ (a + k) # 2 ^ a * 2 ^ k => b <= k
    BY <2>0
  <2>2. b # 0
    <3>1. 2 ^ a \in Nat /\ a + 0 = a
      BY PowersOfTwo
    <3>2. 2 ^ (a + 0) = 2 ^ a * 2 ^ 0
      BY <3>1, PowersOfTwo
    <3> QED
      BY <2>1, <3>2
  <2>3. PICK k \in Nat : b = k + 1 /\ ~(b <= k) /\ a + b = (a + k) + 1 /\ a + k \in Nat
    <3>1. b - 1 \in Nat /\ b = (b - 1) + 1 /\ ~(b <= b - 1) /\ a + b = (a + (b - 1)) + 1
      BY <2>2
    <3> QED
      BY <3>1
  <2>4. 2 ^ (a + k) = 2 ^ a * 2 ^ k
    BY <2>1, <2>3
  <2>5. /\ 2 ^ a \in Nat /\ 2 ^ k \in Nat
        /\ 2 ^ b = 2 * 2 ^ k /\ 2 ^ (a + b) = 2 * 2 ^ (a + k)
    BY <2>3, PowersOfTwo
  <2>6. 2 * (2 ^ a * 2 ^ k) = 2 ^ a * (2 * 2 ^ k)
    BY <2>5
  <2> QED
    BY <2>1, <2>4, <2>5, <2>6
<1> QED
  BY <1>1, <1>2, PowersOfTwo

\* What division finds: the multiples of k cut the numbers into stretches.
LEMMA Stretches ==
    ASSUME NEW k \in Nat, k > 0, NEW a \in Nat
    PROVE  /\ a \div k \in Nat /\ a - (a % k) = k * (a \div k)
           /\ a - (a % k) <= a /\ a < a - (a % k) + k
           /\ a - (a % k) \in Nat
<1>1. a % k \in 0 .. k - 1
  OBVIOUS
<1>2. a = k * (a \div k) + (a % k) /\ a \div k \in Int
  OBVIOUS
<1>3. a \div k \in Nat
  OBVIOUS
<1> QED
  BY <1>1, <1>2, <1>3

LEMMA TimesGrows ==
    ASSUME NEW k \in Nat, NEW p \in Int, NEW q \in Int, p < q
    PROVE  k * p + k <= k * q
<1>1. PICK d \in Nat : q = p + 1 + d
  <2>1. q - p - 1 \in Nat /\ q = p + 1 + (q - p - 1)
    OBVIOUS
  <2> QED
    BY <2>1
<1>2. k * q = k * p + k + k * d /\ k * d \in Nat
  BY <1>1
<1> QED
  BY <1>2

LEMMA StretchOf ==
    ASSUME NEW k \in Nat, k > 0, NEW a \in Nat, NEW q \in Nat, k * q <= a, a < k * q + k
    PROVE  a \div k = q
<1>1. a \div k \in Nat /\ k * (a \div k) <= a /\ a < k * (a \div k) + k
  BY Stretches
<1> DEFINE p == a \div k
<1>2. p \in Nat /\ k * p <= a /\ a < k * p + k /\ k * p \in Nat /\ k * q \in Nat
  BY <1>1
<1> HIDE DEF p
<1>3. ~(p < q)
  BY <1>2, TimesGrows
<1>4. ~(q < p)
  BY <1>2, TimesGrows
<1> QED
  BY <1>2, <1>3, <1>4 DEF p

-----------------------------------------------------------------------------
(* The history of traffic.                                                 *)

\* No total exceeds the bound on totals, so that a bucket has a greatest one.
StoreInv ==
    /\ StoreTypeOK
    /\ rx <= MaxRx
    /\ \A s \in unwritten \cup samples \cup minutes \cup hours : s.rx <= MaxRx
    /\ NoSampleLost

\* A pass: what is old enough is covered by the row of its bucket.
LEMMA RollUpCovers ==
    ASSUME clock \in Nat, NEW table, NEW length, NEW age \in Nat,
           \A r \in table : r.ts \in Nat /\ r.rx \in Nat /\ r.rx <= MaxRx,
           NEW r \in table, r.ts + age < clock
    PROVE  \E q \in RolledUp(table, length, age) : Covers(q, Bucket(r.ts, length), r.rx)
<1> DEFINE old == {o \in table : o.ts + age < clock}
           peers == {o \in old : Bucket(o.ts, length) = Bucket(r.ts, length)}
           totals == {o.rx : o \in peers}
           top == {t \in old : \A other \in old :
                     Bucket(other.ts, length) = Bucket(t.ts, length) => other.rx <= t.rx}
<1>1. r \in old /\ r \in peers
  OBVIOUS
<1>2. totals \subseteq 0 .. MaxRx /\ totals # {} /\ MaxRx \in Nat
  BY <1>1, StoreAssumption
<1>3. PICK x \in totals : \A y \in totals : y <= x
  <2> HIDE DEF totals
  <2> QED
    BY <1>2, GreatestNumber
<1>4. PICK t \in peers : t.rx = x
  OBVIOUS
<1>5. \A other \in peers : other.rx <= t.rx
  BY <1>3, <1>4
<1>6. t \in top /\ r.rx <= t.rx /\ Bucket(t.ts, length) = Bucket(r.ts, length)
  BY <1>1, <1>5
<1> DEFINE q == [ts |-> Bucket(t.ts, length), rx |-> t.rx, at |-> clock]
<1>7. q \in RolledUp(table, length, age)
  BY <1>6 DEF RolledUp
<1>8. q.ts = Bucket(r.ts, length) /\ q.rx >= r.rx
  BY <1>6
<1> QED
  BY <1>7, <1>8 DEF Covers

LEMMA RollUpTyped ==
    ASSUME clock \in Nat, NEW table, NEW length \in Nat \ {0}, NEW age \in Nat,
           \A r \in table : r.ts \in Nat /\ r.rx \in Nat /\ r.rx <= MaxRx
    PROVE  /\ RolledUp(table, length, age) \subseteq Row
           /\ \A q \in RolledUp(table, length, age) : q.rx <= MaxRx
<1>1. ASSUME NEW q \in RolledUp(table, length, age)
      PROVE  q \in Row /\ q.rx <= MaxRx
  <2>1. PICK r \in table : q = [ts |-> Bucket(r.ts, length), rx |-> r.rx, at |-> clock]
    BY DEF RolledUp
  <2>2. r.ts \in Nat /\ r.rx \in Nat /\ r.rx <= MaxRx
    OBVIOUS
  <2>3. Bucket(r.ts, length) \in Nat
    <3>1. r.ts \div length \in Nat
      BY <2>2
    <3>2. \A x, y \in Nat : x * y \in Nat
      OBVIOUS
    <3> QED
      BY <3>1, <3>2 DEF Bucket
  <2> HIDE DEF Bucket
  <2> QED
    BY <2>1, <2>2, <2>3 DEF Row
<1> QED
  BY <1>1

\* What a table loses to its retention was rolled up by the same pass.
LEMMA PruneKeeps ==
    ASSUME StoreInv, PruneOldSamples, UNCHANGED <<clock, rx, unwritten, written>>, timer' \in Nat
    PROVE  StoreInv'
<1> DEFINE newMinutes == minutes \cup RolledUp(samples, Minute, MinuteAge)
           newHours == hours \cup RolledUp(newMinutes, Hour, HourAge)
<1>0. /\ clock \in Nat /\ MinuteAge \in Nat /\ HourAge \in Nat /\ DayAge \in Nat
      /\ RawKept \in Nat /\ MinutesKept \in Nat /\ HoursKept \in Nat /\ MaxRx \in Nat
      /\ MinuteAge <= RawKept /\ HourAge <= MinutesKept /\ DayAge <= HoursKept
      /\ Minute \in Nat \ {0} /\ Hour \in Nat \ {0} /\ Day \in Nat \ {0}
  BY StoreAssumption DEF StoreInv, StoreTypeOK
<1>1. /\ days' = days \cup RolledUp(newHours, Day, DayAge)
      /\ samples' = {r \in samples : r.ts + RawKept >= clock}
      /\ minutes' = {r \in newMinutes : r.ts + MinutesKept >= clock}
      /\ hours' = {r \in newHours : r.ts + HoursKept >= clock}
  BY DEF PruneOldSamples, Inserted, Retained
<1>2. \A r \in samples : r.ts \in Nat /\ r.rx \in Nat /\ r.rx <= MaxRx
  BY DEF StoreInv, StoreTypeOK, Sample
<1>3. newMinutes \subseteq Row /\ \A r \in newMinutes : r.rx <= MaxRx
  BY <1>0, <1>2, RollUpTyped DEF StoreInv, StoreTypeOK
<1> HIDE DEF newMinutes
<1>4. \A r \in newMinutes : r.ts \in Nat /\ r.rx \in Nat /\ r.rx <= MaxRx
  BY <1>3 DEF Row
<1>5. newHours \subseteq Row /\ \A r \in newHours : r.rx <= MaxRx
  BY <1>0, <1>4, RollUpTyped DEF StoreInv, StoreTypeOK
<1> HIDE DEF newHours
<1>6. \A r \in newHours : r.ts \in Nat /\ r.rx \in Nat /\ r.rx <= MaxRx
  BY <1>5 DEF Row
<1>7. days' \subseteq Row
  BY <1>0, <1>1, <1>6, RollUpTyped DEF StoreInv, StoreTypeOK
<1>8. \A r \in newHours, ts, value \in Nat : Covers(r, ts, value) =>
        \/ \E q \in hours' : Covers(q, ts, value)
        \/ \E q \in days' : Covers(q, Bucket(ts, Day), value)
  <2> SUFFICES ASSUME NEW r \in newHours, NEW ts \in Nat, NEW value \in Nat,
                      Covers(r, ts, value), ~(r.ts + HoursKept >= clock)
               PROVE  \E q \in days' : Covers(q, Bucket(ts, Day), value)
    BY <1>1
  <2>1. r.ts + DayAge < clock
    BY <1>0, <1>6
  <2>2. PICK q \in RolledUp(newHours, Day, DayAge) : Covers(q, Bucket(r.ts, Day), r.rx)
    BY <1>0, <1>6, <2>1, RollUpCovers
  <2>3. q \in days' /\ q.rx \in Nat
    BY <1>1, <1>7, <2>2 DEF Row
  <2>4. Covers(q, Bucket(ts, Day), value)
    BY <1>6, <2>2, <2>3 DEF Covers
  <2> QED
    BY <2>3, <2>4
<1>9. \A r \in newMinutes, ts, value \in Nat : Covers(r, ts, value) =>
        \/ \E q \in minutes' : Covers(q, ts, value)
        \/ \E q \in newHours : Covers(q, Bucket(ts, Hour), value)
  <2> SUFFICES ASSUME NEW r \in newMinutes, NEW ts \in Nat, NEW value \in Nat,
                      Covers(r, ts, value), ~(r.ts + MinutesKept >= clock)
               PROVE  \E q \in newHours : Covers(q, Bucket(ts, Hour), value)
    BY <1>1
  <2>1. r.ts + HourAge < clock
    BY <1>0, <1>4
  <2>2. PICK q \in RolledUp(newMinutes, Hour, HourAge) : Covers(q, Bucket(r.ts, Hour), r.rx)
    BY <1>0, <1>4, <2>1, RollUpCovers
  <2>3. q \in newHours /\ q.rx \in Nat
    BY <1>6, <2>2 DEF newHours
  <2>4. Covers(q, Bucket(ts, Hour), value)
    BY <1>4, <2>2, <2>3 DEF Covers
  <2> QED
    BY <2>3, <2>4
<1>10. \A s \in samples : s \in samples' \/
        \E q \in newMinutes : Covers(q, Bucket(s.ts, Minute), s.rx)
  <2> SUFFICES ASSUME NEW s \in samples, ~(s.ts + RawKept >= clock)
               PROVE  \E q \in newMinutes : Covers(q, Bucket(s.ts, Minute), s.rx)
    BY <1>1
  <2>1. s.ts + MinuteAge < clock
    BY <1>0, <1>2
  <2>2. PICK q \in RolledUp(samples, Minute, MinuteAge) : Covers(q, Bucket(s.ts, Minute), s.rx)
    BY <1>0, <1>2, <2>1, RollUpCovers
  <2> QED
    BY <2>2 DEF newMinutes
<1>11. minutes \subseteq newMinutes /\ hours \subseteq newHours /\ days \subseteq days'
  BY <1>1 DEF newMinutes, newHours
<1>12. NoSampleLost'
  <2> SUFFICES ASSUME NEW s \in written
               PROVE  LET minute == Bucket(s.ts, Minute)
                          hour == Bucket(minute, Hour)
                      IN  \/ s \in samples'
                          \/ \E r \in minutes' : Covers(r, minute, s.rx)
                          \/ \E r \in hours' : Covers(r, hour, s.rx)
                          \/ \E r \in days' : Covers(r, Bucket(hour, Day), s.rx)
    BY DEF NoSampleLost, Covers, Bucket
  <2> DEFINE minute == Bucket(s.ts, Minute)
             hour == Bucket(minute, Hour)
  <2>1. s.ts \in Nat /\ s.rx \in Nat
    BY DEF StoreInv, StoreTypeOK, Sample
  <2>2. \A t \in Nat, length \in Nat \ {0} : Bucket(t, length) \in Nat
    <3>1. \A t \in Nat, length \in Nat \ {0} : t \div length \in Nat
      OBVIOUS
    <3>2. \A x, y \in Nat : x * y \in Nat
      OBVIOUS
    <3> QED
      BY <3>1, <3>2 DEF Bucket
  <2>3. minute \in Nat /\ hour \in Nat
    BY <1>0, <2>1, <2>2
  <2>4. \/ s \in samples
        \/ \E r \in minutes : Covers(r, minute, s.rx)
        \/ \E r \in hours : Covers(r, hour, s.rx)
        \/ \E r \in days : Covers(r, Bucket(hour, Day), s.rx)
    BY DEF StoreInv, NoSampleLost
  <2>5. minute = Bucket(s.ts, Minute) /\ hour = Bucket(minute, Hour)
    OBVIOUS
  <2> HIDE DEF minute, hour
  <2>6. \/ s \in samples'
        \/ \E r \in newMinutes : Covers(r, minute, s.rx)
        \/ \E r \in newHours : Covers(r, hour, s.rx)
        \/ \E r \in days' : Covers(r, Bucket(hour, Day), s.rx)
    BY <1>10, <1>11, <2>4, <2>5
  <2>7. \/ s \in samples'
        \/ \E r \in minutes' : Covers(r, minute, s.rx)
        \/ \E r \in newHours : Covers(r, hour, s.rx)
        \/ \E r \in days' : Covers(r, Bucket(hour, Day), s.rx)
    BY <1>9, <2>1, <2>3, <2>5, <2>6
  <2>8. \/ s \in samples'
        \/ \E r \in minutes' : Covers(r, minute, s.rx)
        \/ \E r \in hours' : Covers(r, hour, s.rx)
        \/ \E r \in days' : Covers(r, Bucket(hour, Day), s.rx)
    BY <1>8, <2>1, <2>3, <2>7
  <2> QED
    BY <2>5, <2>8
<1>13. StoreTypeOK'
  BY <1>1, <1>3, <1>5, <1>7 DEF StoreInv, StoreTypeOK
<1>14. \A s \in unwritten' \cup samples' \cup minutes' \cup hours' : s.rx <= MaxRx
  BY <1>1, <1>3, <1>5 DEF StoreInv
<1> QED
  BY <1>12, <1>13, <1>14 DEF StoreInv

LEMMA StoreStart == StoreInit => StoreInv
BY StoreAssumption DEF StoreInit, StoreInv, StoreTypeOK, NoSampleLost

LEMMA StoreKept == StoreInv /\ [StoreStep]_storeVars => StoreInv'
<1> SUFFICES ASSUME StoreInv, [StoreStep]_storeVars
             PROVE  StoreInv'
  OBVIOUS
<1>1. CASE TimePasses
  BY <1>1 DEF TimePasses, StoreInv, StoreTypeOK, NoSampleLost, tables
<1>2. CASE TakeSample
  <2>1. PICK now \in rx .. MaxRx :
          rx' = now /\ unwritten' = unwritten \cup {[ts |-> clock, rx |-> now]}
    BY <1>2 DEF TakeSample
  <2>2. now \in Nat /\ now <= MaxRx /\ [ts |-> clock, rx |-> now] \in Sample
    BY StoreAssumption DEF StoreInv, StoreTypeOK, Sample
  <2>3. UNCHANGED <<clock, timer, tables, written>>
    BY <1>2 DEF TakeSample
  <2>4. NoSampleLost'
    BY <2>3 DEF StoreInv, NoSampleLost, tables
  <2>5. StoreTypeOK'
    BY <2>1, <2>2, <2>3 DEF StoreInv, StoreTypeOK, tables
  <2> QED
    BY <2>1, <2>2, <2>3, <2>4, <2>5 DEF StoreInv, tables
<1>3. CASE OnHousekeepingTimer
  <2>1. /\ unwritten' = {} /\ samples' = samples \cup unwritten
        /\ written' = written \cup unwritten
        /\ UNCHANGED <<clock, rx, timer, minutes, hours, days>>
    BY <1>3 DEF OnHousekeepingTimer
  <2>2. NoSampleLost'
    BY <2>1 DEF StoreInv, NoSampleLost
  <2>3. StoreTypeOK'
    BY <2>1 DEF StoreInv, StoreTypeOK
  <2> QED
    BY <2>1, <2>2, <2>3 DEF StoreInv
<1>4. CASE StoreRestart
  BY <1>4, StoreAssumption DEF StoreRestart, StoreInv, StoreTypeOK, NoSampleLost, tables
<1>5. CASE OnPruneTimer
  BY <1>5, PruneKeeps DEF OnPruneTimer, StoreInv, StoreTypeOK
<1>6. CASE UNCHANGED storeVars
  BY <1>6 DEF storeVars, tables, StoreInv, StoreTypeOK, NoSampleLost
<1> QED
  BY <1>1, <1>2, <1>3, <1>4, <1>5, <1>6 DEF StoreStep

\* A sample that was written is never lost: what retention deletes has a row
\* of its bucket, with at least its total, in the next table
\* (aggregateSamples, pruneOldSamples), for all lengths, ages and retentions.
THEOREM SamplesAreKept == StoreSpec => []NoSampleLost
<1>1. StoreInv => NoSampleLost
  BY DEF StoreInv
<1> QED
  BY <1>1, StoreStart, StoreKept, PTL DEF StoreSpec

-----------------------------------------------------------------------------
(* The vulnerability sweep.                                                *)

\* Where a sweep may be: called, in the pool, or over with the news on its way.
Calls == {i \in 1 .. Len(inbox) : inbox[i].do = "scanMany"}
Active == {d \in Target : task[d] # "none"}
Finishes == {i \in 1 .. Len(reports) : reports[i].is = "finished"}
AtMostOne(S) == \A i, j \in S : i = j

\* The page hears the result of d before it hears report i.
HeardBefore(d, i) ==
    \/ d \in pageResults
    \/ \E j \in 1 .. Len(reports) : j < i /\ reports[j].is = "result" /\ reports[j].of = d

\* There is one sweep at a time, the count is that of the tasks, and no result
\* of the sweep comes after its end.
SweepInv ==
    /\ SweepTypeOK
    /\ pendingCount = Cardinality(Active)
    /\ AtMostOne(Calls) /\ AtMostOne(Finishes)
    /\ sweepAsked => Calls = {} /\ Active = {} /\ Finishes = {}
    /\ Calls # {} => Active = {} /\ Finishes = {}
    /\ Active # {} => Finishes = {}
    /\ Active # {} => \A d \in swept :
          task[d] \in {"queued", "running", "probed"} \/ HeardBefore(d, Len(reports) + 1)
    /\ \A i \in Finishes, d \in swept : HeardBefore(d, i)
    /\ ~sweeping => /\ ~sweepAsked /\ Calls = {} /\ Active = {} /\ Finishes = {}
                    /\ swept \subseteq pageResults

\* An event more in the scanner's thread, or one less.
LEMMA InboxGrows ==
    ASSUME inbox \in Seq(Post), NEW p \in Post, inbox' = Append(inbox, p)
    PROVE  /\ inbox' \in Seq(Post)
           /\ p.do # "scanMany" => Calls' = Calls
           /\ Calls = {} => AtMostOne(Calls')
<1>1. /\ Len(inbox') = Len(inbox) + 1 /\ Len(inbox) \in Nat /\ inbox'[Len(inbox) + 1] = p
      /\ \A i \in 1 .. Len(inbox) : inbox'[i] = inbox[i]
    OBVIOUS
<1> QED BY <1>1 DEF Calls, AtMostOne

LEMMA InboxShrinks ==
    ASSUME inbox \in Seq(Post), inbox # << >>, inbox' = Tail(inbox)
    PROVE  /\ inbox' \in Seq(Post) /\ Head(inbox) \in Post
           /\ Calls = {} => Calls' = {}
           /\ AtMostOne(Calls) => AtMostOne(Calls')
           /\ Head(inbox).do = "scanMany" => Calls # {}
           /\ Head(inbox).do = "scanMany" /\ AtMostOne(Calls) => Calls' = {}
<1>1. /\ Len(inbox') = Len(inbox) - 1 /\ Len(inbox) \in Nat \ {0} /\ Head(inbox) = inbox[1]
      /\ \A i \in 1 .. Len(inbox') : i + 1 \in 1 .. Len(inbox) /\ inbox'[i] = inbox[i + 1]
      /\ inbox' \in Seq(Post) /\ inbox[1] \in Post
    OBVIOUS
<1>2. \A i \in Calls' : i \in Nat \ {0} /\ i + 1 \in Calls
    BY <1>1 DEF Calls
<1>3. Head(inbox).do = "scanMany" => 1 \in Calls
    BY <1>1 DEF Calls
<1>4. AtMostOne(Calls) => AtMostOne(Calls')
    BY <1>2 DEF AtMostOne
<1>5. ASSUME 1 \in Calls, AtMostOne(Calls) PROVE Calls' = {}
    BY <1>2, <1>5 DEF AtMostOne
<1> QED BY <1>1, <1>2, <1>3, <1>4, <1>5

\* A report more on its way to the pages.
LEMMA ReportsGrow ==
    ASSUME reports \in Seq(Report), NEW r \in Report, reports' = Append(reports, r),
           UNCHANGED pageResults
    PROVE  /\ reports' \in Seq(Report)
           /\ r.is # "finished" => Finishes' = Finishes
           /\ Finishes = {} => Finishes' \subseteq {Len(reports')} /\ AtMostOne(Finishes')
           /\ \A d, i : HeardBefore(d, i) => HeardBefore(d, i)'
           /\ \A d : HeardBefore(d, Len(reports) + 1) =>
                        HeardBefore(d, Len(reports))' /\ HeardBefore(d, Len(reports) + 1)'
           /\ \A d : r.is = "result" /\ r.of = d => HeardBefore(d, Len(reports) + 1)'
<1>1. /\ Len(reports') = Len(reports) + 1 /\ Len(reports) \in Nat
      /\ reports'[Len(reports) + 1] = r /\ reports' \in Seq(Report)
      /\ \A i \in 1 .. Len(reports) : reports'[i] = reports[i]
    OBVIOUS
<1>2. /\ r.is # "finished" => Finishes' = Finishes
      /\ Finishes = {} => Finishes' \subseteq {Len(reports')} /\ AtMostOne(Finishes')
    BY <1>1 DEF Finishes, AtMostOne
<1>3. ASSUME NEW d, NEW i, HeardBefore(d, i) PROVE HeardBefore(d, i)'
    BY <1>1, <1>3 DEF HeardBefore
<1>4. ASSUME NEW d, HeardBefore(d, Len(reports) + 1)
      PROVE  HeardBefore(d, Len(reports))' /\ HeardBefore(d, Len(reports) + 1)'
    BY <1>1, <1>4 DEF HeardBefore
<1>5. ASSUME NEW d, r.is = "result", r.of = d PROVE HeardBefore(d, Len(reports) + 1)'
    BY <1>1, <1>5 DEF HeardBefore
<1> QED BY <1>1, <1>2, <1>3, <1>4, <1>5

LEMMA PostsAreTyped ==
    /\ \A ds \in SUBSET Target : Sweep(ds) \in Post /\ Sweep(ds).do = "scanMany"
                                 /\ Scan(RouterIp) \in Post /\ Scan(RouterIp).do # "scanMany"
    /\ Drain \in Post /\ Drain.do # "scanMany"
    /\ \A d \in Target : /\ Progress(d) \in Post /\ Progress(d).do # "scanMany"
                         /\ [is |-> "result", of |-> d] \in Report
                         /\ [is |-> "progress", of |-> d] \in Report
    /\ Finished \in Report /\ Finished.is = "finished"
BY SweepAssumption DEF Sweep, Scan, Drain, Progress, Post, Report, Finished

\* A step that changes no task, no report and nothing on the pages.
LEMMA QuietPool ==
    ASSUME UNCHANGED <<task, pendingCount, reports, swept, pageVars>>
    PROVE  /\ Active' = Active /\ Finishes' = Finishes
           /\ \A d, i : HeardBefore(d, i)' <=> HeardBefore(d, i)
BY DEF Active, Finishes, HeardBefore, pageVars

LEMMA SweepStart == SweepInit => SweepInv
<1> SUFFICES ASSUME SweepInit PROVE SweepInv
    OBVIOUS
<1>1. Calls = {} /\ Active = {} /\ Finishes = {}
    BY DEF SweepInit, Calls, Active, Finishes
<1>2. Cardinality(Active) = 0 /\ Cardinality(Target) \in Nat
    BY <1>1, FS_EmptySet, FS_CardinalityType, SweepAssumption
<1>3. SweepTypeOK
    <2>1. << >> \in Seq(Post) /\ << >> \in Seq(Report) /\ 0 \in 0 .. Cardinality(Target)
        BY <1>2
    <2>2. task \in [Target -> {"none", "queued", "running", "probed", "told"}]
        BY DEF SweepInit
    <2> QED BY <2>1, <2>2 DEF SweepInit, SweepTypeOK
<1>4. AtMostOne(Calls) /\ AtMostOne(Finishes)
    BY <1>1 DEF AtMostOne
<1> QED BY <1>1, <1>2, <1>3, <1>4 DEF SweepInit, SweepInv

\* The scanner's thread takes what is not a call of scanMany, and may pass a
\* result or a progress on to the pages.
LEMMA ThreadKeepsSweep ==
    ASSUME SweepInv, inbox # << >>, Head(inbox).do # "scanMany", inbox' = Tail(inbox),
           UNCHANGED <<sweepAsked, task, pendingCount, swept, pageVars>>,
           \/ UNCHANGED reports
           \/ \E r \in Report : r.is # "finished" /\ reports' = Append(reports, r)
    PROVE  SweepInv'
<1>1. inbox' \in Seq(Post) /\ (Calls = {} => Calls' = {}) /\ AtMostOne(Calls')
    BY InboxShrinks DEF SweepInv, SweepTypeOK
<1>2. UNCHANGED pageResults /\ Active' = Active
    BY DEF pageVars, Active
<1>3. CASE UNCHANGED reports
    BY <1>1, <1>2, <1>3, QuietPool DEF SweepInv, SweepTypeOK, pageVars
<1>4. ASSUME NEW r \in Report, r.is # "finished", reports' = Append(reports, r) PROVE SweepInv'
    <2>1. /\ reports' \in Seq(Report) /\ Finishes' = Finishes
          /\ \A d, i : HeardBefore(d, i) => HeardBefore(d, i)'
          /\ \A d : HeardBefore(d, Len(reports) + 1) => HeardBefore(d, Len(reports) + 1)'
        BY <1>2, <1>4, ReportsGrow DEF SweepInv, SweepTypeOK
    <2> QED BY <1>1, <1>2, <2>1 DEF SweepInv, SweepTypeOK, pageVars
<1> QED BY <1>3, <1>4

LEMMA CallsKeepSweep ==
    ASSUME SweepInv, TriggerVulnScanAll \/ ScanAllClicked \/ RouterScanClicked
    PROVE  SweepInv'
<1>1. CASE TriggerVulnScanAll
    <2>1. PICK ds \in SUBSET Target : inbox' = Append(inbox, Sweep(ds))
        BY <1>1 DEF TriggerVulnScanAll
    <2>2. inbox' \in Seq(Post) /\ AtMostOne(Calls')
        BY <1>1, <2>1, InboxGrows, PostsAreTyped DEF TriggerVulnScanAll, SweepInv, SweepTypeOK
    <2> QED BY <1>1, <2>2, QuietPool DEF TriggerVulnScanAll, SweepInv, SweepTypeOK, pageVars
<1>2. CASE ScanAllClicked
    <2>1. Calls' = Calls /\ Active' = Active /\ Finishes' = Finishes
        BY <1>2 DEF ScanAllClicked, poolVars, Calls, Active, Finishes
    <2> QED BY <1>2, <2>1 DEF ScanAllClicked, poolVars, SweepInv, SweepTypeOK
<1>3. CASE RouterScanClicked
    <2>1. inbox' \in Seq(Post) /\ Calls' = Calls
        BY <1>3, InboxGrows, PostsAreTyped DEF RouterScanClicked, SweepInv, SweepTypeOK
    <2>2. /\ Active' = Active /\ Finishes' = Finishes
          /\ \A d, i : HeardBefore(d, i)' <=> HeardBefore(d, i)
        BY <1>3 DEF RouterScanClicked, Active, Finishes, HeardBefore
    <2> QED BY <1>3, <2>1, <2>2 DEF RouterScanClicked, SweepInv, SweepTypeOK
<1> QED BY <1>1, <1>2, <1>3

\* scanMany finds no other sweep.
LEMMA ScanManyKeepsSweep == ASSUME SweepInv, ScanMany PROVE SweepInv'
<1> DEFINE ds == Head(inbox).of
<1>1. /\ Tail(inbox) \in Seq(Post) /\ inbox # << >> /\ ds \subseteq Target
      /\ Calls # {} /\ Active = {} /\ Finishes = {} /\ ~sweepAsked /\ sweeping
    <2>1. inbox \in Seq(Post) /\ inbox # << >> /\ Head(inbox).do = "scanMany"
        BY DEF ScanMany, SweepInv, SweepTypeOK
    <2>2. /\ Tail(inbox) \in Seq(Post) /\ Head(inbox) = inbox[1] /\ Head(inbox) \in Post
          /\ 1 \in 1 .. Len(inbox)
        BY <2>1
    <2>3. 1 \in Calls /\ ds \subseteq Target
        BY <2>1, <2>2 DEF Calls, Post
    <2> QED BY <2>1, <2>2, <2>3 DEF SweepInv
<1>2. UNCHANGED <<sweepAsked, sweeping, pageResults, complete, routerScan>> /\ swept' = ds
    BY DEF ScanMany, pageVars
<1>3. CASE ds = {}
    <2>1. /\ reports' = Append(reports, Finished) /\ inbox' = Tail(inbox)
          /\ UNCHANGED <<task, pendingCount>>
        BY <1>3 DEF ScanMany
    <2>2. inbox' \in Seq(Post) /\ Calls' = {} /\ AtMostOne(Calls')
        BY <1>1, <2>1, InboxShrinks DEF SweepInv, SweepTypeOK, ScanMany
    <2>3. reports' \in Seq(Report) /\ AtMostOne(Finishes') /\ Active' = Active
        BY <1>1, <1>2, <2>1, ReportsGrow, PostsAreTyped DEF SweepInv, SweepTypeOK, Active
    <2> QED BY <1>1, <1>2, <1>3, <2>1, <2>2, <2>3 DEF SweepInv, SweepTypeOK
<1>4. CASE ds # {}
    <2>1. /\ inbox' = Append(Tail(inbox), Drain) /\ UNCHANGED reports
          /\ pendingCount' = Cardinality(ds)
          /\ task' = [d \in Target |-> IF d \in ds THEN "queued" ELSE task[d]]
        BY <1>4 DEF ScanMany
    <2>2. inbox' \in Seq(Post) /\ Calls' = {} /\ AtMostOne(Calls')
        <3> DEFINE t == Tail(inbox)
        <3>1. \A i \in 1 .. Len(t) : t[i].do # "scanMany"
            <4>1. /\ Len(inbox) \in Nat \ {0} /\ Head(inbox) = inbox[1] /\ Len(t) = Len(inbox) - 1
                  /\ \A i \in 1 .. Len(t) :
                        t[i] = inbox[i + 1] /\ i + 1 \in 1 .. Len(inbox) /\ i + 1 # 1
                BY <1>1 DEF SweepInv, SweepTypeOK
            <4>2. 1 \in Calls
                BY <4>1 DEF ScanMany, Calls
            <4> HIDE DEF t
            <4> QED BY <4>1, <4>2 DEF Calls, SweepInv, AtMostOne
        <3>2. /\ Len(inbox') = Len(t) + 1 /\ Len(t) \in Nat /\ inbox'[Len(t) + 1] = Drain
              /\ \A i \in 1 .. Len(t) : inbox'[i] = t[i]
              /\ inbox' \in Seq(Post)
            BY <1>1, <2>1, PostsAreTyped
        <3> HIDE DEF t
        <3>3. Calls' = {}
            BY <3>1, <3>2, PostsAreTyped DEF Calls
        <3> QED BY <3>2, <3>3 DEF AtMostOne
    <2>3. Active' = ds
        BY <1>1, <2>1 DEF Active, SweepInv, SweepTypeOK
    <2>4. Cardinality(ds) \in 0 .. Cardinality(Target)
        BY <1>1, FS_Subset, FS_CardinalityType, SweepAssumption
    <2>5. task' \in [Target -> {"none", "queued", "running", "probed", "told"}]
          /\ \A d \in ds : task'[d] = "queued"
        BY <1>1, <2>1 DEF SweepInv, SweepTypeOK
    <2>6. Finishes' = {} /\ AtMostOne(Finishes')
        BY <1>1, <2>1 DEF Finishes, AtMostOne
    <2> QED BY <1>1, <1>2, <1>4, <2>1, <2>2, <2>3, <2>4, <2>5, <2>6 DEF SweepInv, SweepTypeOK
<1> QED BY <1>3, <1>4

\* A task of the pool moves.
LEMMA TaskMoves ==
    ASSUME SweepInv, NEW d \in Target, task[d] # "none",
           NEW at \in {"running", "probed", "told"}, task' = [task EXCEPT ![d] = at]
    PROVE  /\ task' \in [Target -> {"none", "queued", "running", "probed", "told"}]
           /\ Active' = Active /\ Active # {} /\ task'[d] = at
           /\ \A e \in Target : e # d => task'[e] = task[e]
BY DEF SweepInv, SweepTypeOK, Active


LEMMA TaskKeepsSweep ==
    ASSUME SweepInv, NEW d \in Target, StartTask(d) \/ RunScan(d) \/ Tell(d) PROVE SweepInv'
<1> DEFINE at == IF StartTask(d) THEN "running" ELSE IF RunScan(d) THEN "probed" ELSE "told"
<1>1. /\ task[d] # "none" /\ task' = [task EXCEPT ![d] = at] /\ at \in {"running", "probed", "told"}
      /\ UNCHANGED <<sweepAsked, pendingCount, swept, pageVars>>
    BY DEF StartTask, RunScan, Tell
<1>2. /\ task' \in [Target -> {"none", "queued", "running", "probed", "told"}]
      /\ Active' = Active /\ Active # {} /\ task'[d] = at
      /\ \A e \in Target : e # d => task'[e] = task[e]
    BY <1>1, TaskMoves
<1>3. Calls = {} /\ Finishes = {} /\ ~sweepAsked /\ sweeping
    BY <1>2 DEF SweepInv
<1>4. inbox' \in Seq(Post) /\ Calls' = {}
    <2>1. CASE StartTask(d) \/ Tell(d)
        BY <1>3, <2>1 DEF StartTask, Tell, Calls, SweepInv, SweepTypeOK
    <2>2. CASE RunScan(d)
        BY <1>3, <2>2, InboxGrows, PostsAreTyped DEF RunScan, SweepInv, SweepTypeOK
    <2> QED BY <2>1, <2>2
<1>5. /\ reports' \in Seq(Report) /\ Finishes' = {}
      /\ \A e : HeardBefore(e, Len(reports) + 1) => HeardBefore(e, Len(reports) + 1)'
      /\ at \notin {"running", "probed"} => HeardBefore(d, Len(reports) + 1)'
    <2>1. UNCHANGED pageResults
        BY <1>1 DEF pageVars
    <2>2. CASE StartTask(d) \/ RunScan(d)
        BY <1>3, <2>1, <2>2 DEF StartTask, RunScan, Finishes, HeardBefore, SweepInv, SweepTypeOK
    <2>3. CASE Tell(d)
        <3>1. reports' = Append(reports, [is |-> "result", of |-> d])
            BY <2>3 DEF Tell
        <3> QED BY <1>3, <2>1, <3>1, ReportsGrow, PostsAreTyped DEF SweepInv, SweepTypeOK
    <2> QED BY <2>2, <2>3
<1>6. swept \subseteq Target
    BY DEF SweepInv, SweepTypeOK
<1> HIDE DEF at
<1>7. \A e \in swept : task'[e] \in {"queued", "running", "probed"}
                       \/ HeardBefore(e, Len(reports) + 1)'
    BY <1>1, <1>2, <1>5, <1>6 DEF SweepInv
<1> QED BY <1>1, <1>2, <1>3, <1>4, <1>5, <1>7 DEF SweepInv, SweepTypeOK, AtMostOne, pageVars

\* The last task that counts itself out announces the end; all results of the
\* sweep are on their way by then.
LEMMA CountKeepsSweep == ASSUME SweepInv, NEW d \in Target, NoteOneFinished(d) PROVE SweepInv'
<1>1. /\ d \in Active /\ Calls = {} /\ Finishes = {} /\ ~sweepAsked /\ sweeping
      /\ IsFiniteSet(Active) /\ Cardinality(Active) \in Nat
    BY FS_Subset, FS_CardinalityType, SweepAssumption DEF NoteOneFinished, SweepInv, Active
<1>2. /\ task' = [task EXCEPT ![d] = "none"] /\ pendingCount' = pendingCount - 1
      /\ reports' = IF pendingCount - 1 <= 0 THEN Append(reports, Finished) ELSE reports
      /\ UNCHANGED <<sweepAsked, inbox, swept, pageVars>> /\ task[d] = "told"
    BY DEF NoteOneFinished, Counted
<1>3. /\ task' \in [Target -> {"none", "queued", "running", "probed", "told"}]
      /\ Active' = Active \ {d}
      /\ \A e \in Target : e # d => task'[e] = task[e]
    BY <1>2 DEF SweepInv, SweepTypeOK, Active
<1>4. pendingCount' = Cardinality(Active') /\ Cardinality(Active') \in 0 .. Cardinality(Target)
    <2>1. Cardinality(Active') = Cardinality(Active) - 1
        BY <1>1, <1>3, FS_RemoveElement
    <2>2. Active' \subseteq Target /\ IsFiniteSet(Target)
        BY SweepAssumption DEF Active
    <2> QED BY <1>2, <2>1, <2>2, FS_Subset, FS_CardinalityType DEF SweepInv
<1>5. Active' = {} <=> pendingCount - 1 <= 0
    BY <1>1, <1>2, <1>3, <1>4, FS_RemoveElement, FS_EmptySet, FS_Subset
<1>6. \A e \in swept : \/ e # d /\ task[e] \in {"queued", "running", "probed"}
                       \/ HeardBefore(e, Len(reports) + 1)
    BY <1>1, <1>2 DEF SweepInv
<1>7. Calls' = {} /\ UNCHANGED pageResults /\ swept \subseteq Target
    BY <1>1, <1>2 DEF Calls, pageVars, SweepInv, SweepTypeOK
<1>8. CASE Active' # {}
    <2>1. UNCHANGED reports
        BY <1>2, <1>5, <1>8
    <2>2. Finishes' = {} /\ \A e, i : HeardBefore(e, i)' <=> HeardBefore(e, i)
        BY <1>1, <1>7, <2>1 DEF Finishes, HeardBefore
    <2>3. \A e \in swept : task'[e] \in {"queued", "running", "probed"}
                           \/ HeardBefore(e, Len(reports) + 1)'
        BY <1>3, <1>6, <1>7, <2>1, <2>2
    <2> QED BY <1>1, <1>2, <1>3, <1>4, <1>7, <1>8, <2>1, <2>2, <2>3
            DEF SweepInv, SweepTypeOK, AtMostOne, pageVars
<1>9. CASE Active' = {}
    <2>1. reports' = Append(reports, Finished)
        BY <1>2, <1>5, <1>9
    <2>2. /\ reports' \in Seq(Report) /\ Finishes' \subseteq {Len(reports')} /\ AtMostOne(Finishes')
          /\ \A e : HeardBefore(e, Len(reports) + 1) => HeardBefore(e, Len(reports))'
        BY <1>1, <1>7, <2>1, ReportsGrow, PostsAreTyped DEF SweepInv, SweepTypeOK
    <2>3. \A e \in swept : HeardBefore(e, Len(reports))'
        BY <1>3, <1>6, <1>7, <1>9, <2>2 DEF Active
    <2>4. \A i \in Finishes', e \in swept' : HeardBefore(e, i)'
        BY <1>2, <2>2, <2>3
    <2> QED BY <1>1, <1>2, <1>3, <1>4, <1>7, <1>9, <2>2, <2>4
            DEF SweepInv, SweepTypeOK, AtMostOne, pageVars
<1> QED BY <1>8, <1>9

\* The pages hear one report.
LEMMA HearingKeepsSweep == ASSUME SweepInv, PageHears PROVE SweepInv'
<1> DEFINE r == Head(reports)
<1>1. /\ reports # << >> /\ reports \in Seq(Report) /\ reports' = Tail(reports)
      /\ pageResults' = IF r.is = "result" THEN pageResults \cup {r.of} ELSE pageResults
      /\ sweeping' = (sweeping /\ r.is # "finished")
      /\ routerScan' \in BOOLEAN /\ complete' \in BOOLEAN
      /\ UNCHANGED <<sweepAsked, inbox, task, pendingCount, swept>>
    BY DEF PageHears, SweepInv, SweepTypeOK
<1>2. /\ Len(reports') = Len(reports) - 1 /\ Len(reports) \in Nat \ {0} /\ r = reports[1]
      /\ reports' \in Seq(Report) /\ reports[1] \in Report
      /\ \A i \in 1 .. Len(reports') : i + 1 \in 1 .. Len(reports) /\ reports'[i] = reports[i + 1]
    BY <1>1
<1>3. r.is = "result" => r.of \in Target
    BY <1>2 DEF Report
<1> HIDE DEF r
<1>4. \A i \in Finishes' : i \in Nat \ {0} /\ i + 1 \in Finishes
    BY <1>2 DEF Finishes
<1>5. r.is = "finished" => 1 \in Finishes
    BY <1>2 DEF Finishes
<1>6. ASSUME NEW d, NEW i \in Nat, HeardBefore(d, i + 1) PROVE HeardBefore(d, i)'
    <2>1. CASE d \in pageResults
        BY <1>1, <2>1 DEF HeardBefore
    <2>2. CASE d \notin pageResults
        <3>1. PICK j \in 1 .. Len(reports) :
                j < i + 1 /\ reports[j].is = "result" /\ reports[j].of = d
            BY <1>6, <2>2 DEF HeardBefore
        <3>2. CASE j = 1
            BY <1>1, <1>2, <3>1, <3>2 DEF HeardBefore
        <3>3. CASE j # 1
            <4>1. j - 1 \in 1 .. Len(reports') /\ j - 1 < i /\ reports'[j - 1] = reports[j]
                BY <1>2, <3>1, <3>3
            <4> QED BY <3>1, <4>1 DEF HeardBefore
        <3> QED BY <3>2, <3>3
    <2> QED BY <2>1, <2>2
<1>7. \A d \in swept : HeardBefore(d, 1) => d \in pageResults
    BY DEF HeardBefore
<1>8. Active' = Active /\ Calls' = Calls /\ pageResults \subseteq pageResults'
    BY <1>1 DEF Active, Calls
<1>9. AtMostOne(Finishes') /\ (Finishes = {} => Finishes' = {})
    BY <1>4 DEF SweepInv, AtMostOne
<1>10. \A d \in swept : HeardBefore(d, Len(reports) + 1) => HeardBefore(d, Len(reports) + 1)'
    <2>1. Len(reports) = Len(reports') + 1 /\ Len(reports') + 1 \in Nat
        BY <1>2
    <2> QED BY <1>6, <2>1
<1>11. \A i \in Finishes', d \in swept : HeardBefore(d, i)'
    BY <1>4, <1>6 DEF SweepInv
<1>12. SweepTypeOK'
    BY <1>1, <1>2, <1>3 DEF SweepInv, SweepTypeOK
<1>13. CASE r.is = "finished"
    <2>1. /\ Finishes' = {} /\ swept \subseteq pageResults /\ ~sweepAsked
          /\ Calls = {} /\ Active = {}
        BY <1>4, <1>5, <1>7, <1>13 DEF SweepInv, AtMostOne
    <2> QED BY <1>1, <1>8, <1>12, <2>1 DEF SweepInv, AtMostOne
<1>14. CASE r.is # "finished"
    BY <1>1, <1>8, <1>9, <1>10, <1>11, <1>12, <1>14 DEF SweepInv
<1> QED BY <1>13, <1>14

LEMMA SweepKept == SweepInv /\ [SweepStep]_sweepVars => SweepInv'
<1> SUFFICES ASSUME SweepInv, [SweepStep]_sweepVars PROVE SweepInv'
    OBVIOUS
<1>1. ASSUME ScanOne \/ PoolDone \/ ForwardProgress PROVE SweepInv'
    <2>1. /\ inbox # << >> /\ Head(inbox) \in Post /\ Head(inbox).do # "scanMany"
          /\ inbox' = Tail(inbox)
          /\ UNCHANGED <<sweepAsked, task, pendingCount, swept, pageVars>>
        BY <1>1 DEF ScanOne, PoolDone, ForwardProgress, SweepInv, SweepTypeOK
    <2>2. \/ UNCHANGED reports
          \/ \E d \in Target, is \in {"result", "progress"} :
                reports' = Append(reports, [is |-> is, of |-> d])
        BY <1>1, <2>1 DEF ScanOne, PoolDone, ForwardProgress, Post
    <2>3. \/ UNCHANGED reports
          \/ \E r \in Report : r.is # "finished" /\ reports' = Append(reports, r)
        BY <2>2 DEF Report
    <2> QED BY <2>1, <2>3, ThreadKeepsSweep
<1>2. CASE UNCHANGED sweepVars
    BY <1>2, QuietPool DEF sweepVars, poolVars, SweepInv, SweepTypeOK, Calls, pageVars
<1> QED BY <1>1, <1>2, CallsKeepSweep, ScanManyKeepsSweep, TaskKeepsSweep, CountKeepsSweep,
        HearingKeepsSweep DEF SweepStep

\* When the button of the page comes back, the page has the result of every
\* device of the sweep, for any number of devices and threads and however the
\* router page's own scans mix in.
THEOREM SweepsAreComplete == SweepSpec => []CompleteMeansAll
<1>1. SweepInv => CompleteMeansAll
    BY DEF SweepInv, CompleteMeansAll
<1> QED BY <1>1, SweepStart, SweepKept, PTL DEF SweepSpec

-----------------------------------------------------------------------------
(* The intelligence look-up.                                               *)

\* What is on its way to card c.  The card is up to date when the last of it, or
\* the card itself when there is nothing, is about the last target.
Fills(c) == {i \in 1 .. Len(signals) : signals[i].of = c}
UpToDate(c) ==
    /\ \A i \in Fills(c) : (\A j \in Fills(c) : j <= i) => signals[i].for = latest
    /\ Fills(c) = {} => cards[c] = latest

Failing == failed \/ Fills("failed") # {}

\* The cards that a look-up has filled before each step.
DoneBefore == [rdns |-> {"ips"}, threat |-> {"ips", "rdns"}, ports |-> {"ips", "rdns", "threat"},
               geo |-> Local, idle |-> Local]

\* The thread is at the last target when no other waits for it, and the cards it
\* has filled for that target are up to date unless a look-up has failed since the
\* user asked.
IntelInv ==
    /\ wanted \in Seq(Query) /\ signals \in Seq(Note) /\ failed \in BOOLEAN
    /\ step \in {"idle", "rdns", "threat", "ports", "geo"}
    /\ step # "idle" => subject \in Query
    /\ cards \in [Card -> Query \cup {Empty}]
    /\ wanted # << >> => wanted[Len(wanted)] = latest
    /\ wanted = << >> /\ step # "idle" => subject = latest
    /\ wanted = << >> /\ latest # Empty => Failing \/ \A c \in DoneBefore[step] : UpToDate(c)

\* Signals are sent.
LEMMA NotesAdded ==
    ASSUME signals \in Seq(Note), NEW s \in Seq(Note), signals' = signals \o s,
           UNCHANGED <<cards, latest, failed>>
    PROVE  /\ signals' \in Seq(Note)
           /\ Failing => Failing'
           /\ (\E i \in 1 .. Len(s) : s[i].of = "failed") => Failing'
           /\ \A c : (\A i \in 1 .. Len(s) : s[i].of # c) /\ UpToDate(c) => UpToDate(c)'
           /\ \A c : /\ \E i \in 1 .. Len(s) : s[i].of = c
                     /\ \A i \in 1 .. Len(s) : s[i].of = c => s[i].for = latest
                     => UpToDate(c)'
<1>1. /\ Len(signals') = Len(signals) + Len(s) /\ Len(signals) \in Nat /\ Len(s) \in Nat
      /\ signals' \in Seq(Note)
      /\ \A i \in 1 .. Len(signals) : signals'[i] = signals[i]
      /\ \A i \in 1 .. Len(s) : signals'[Len(signals) + i] = s[i]
    OBVIOUS
<1>2. \A c : Fills(c) \subseteq Fills(c)'
    BY <1>1 DEF Fills
<1>3. \A c, i : i \in Fills(c)' =>
        i \in Fills(c) \/ \E k \in 1 .. Len(s) : i = Len(signals) + k /\ s[k].of = c
    <2>1. \A i \in 1 .. Len(signals') : i \in 1 .. Len(signals) \/ i - Len(signals) \in 1 .. Len(s)
        BY <1>1
    <2>2. \A i \in 1 .. Len(signals') : i = Len(signals) + (i - Len(signals))
        BY <1>1
    <2> QED BY <1>1, <2>1, <2>2 DEF Fills
<1>4. \A c, k : k \in 1 .. Len(s) /\ s[k].of = c => Len(signals) + k \in Fills(c)'
    BY <1>1 DEF Fills
<1>5. (Failing => Failing') /\ ((\E i \in 1 .. Len(s) : s[i].of = "failed") => Failing')
    BY <1>2, <1>4 DEF Failing
<1>6. ASSUME NEW c, \A i \in 1 .. Len(s) : s[i].of # c, UpToDate(c) PROVE UpToDate(c)'
    <2>1. Fills(c)' = Fills(c)
        BY <1>2, <1>3, <1>6
    <2>2. \A i \in Fills(c) : signals'[i] = signals[i]
        BY <1>1 DEF Fills
    <2> QED BY <1>6, <2>1, <2>2 DEF UpToDate
<1>7. ASSUME NEW c, NEW k \in 1 .. Len(s), s[k].of = c,
             \A i \in 1 .. Len(s) : s[i].of = c => s[i].for = latest
      PROVE  UpToDate(c)'
    <2>1. Len(signals) + k \in Fills(c)'
        BY <1>4, <1>7
    <2>2. ASSUME NEW i \in Fills(c)', \A j \in Fills(c)' : j <= i PROVE signals'[i].for = latest
        <3>1. Len(signals) + k <= i
            BY <2>1, <2>2
        <3>2. i \notin 1 .. Len(signals)
            BY <1>1, <3>1
        <3>3. PICK n \in 1 .. Len(s) : i = Len(signals) + n /\ s[n].of = c
            BY <1>3, <3>2 DEF Fills
        <3> QED BY <1>1, <1>7, <3>3
    <2>3. latest' = latest
        OBVIOUS
    <2> QED BY <2>1, <2>2, <2>3 DEF UpToDate
<1> QED BY <1>1, <1>5, <1>6, <1>7

\* The page hears one of them.
LEMMA NoteHeard ==
    ASSUME IntelInv, IntelPageHears
    PROVE  /\ signals' \in Seq(Note) /\ cards' \in [Card -> Query \cup {Empty}]
           /\ failed' \in BOOLEAN
           /\ Failing => Failing'
           /\ \A c \in Card : UpToDate(c) => UpToDate(c)'
<1> DEFINE n == Head(signals)
<1>1. /\ signals # << >> /\ signals \in Seq(Note) /\ signals' = Tail(signals)
      /\ failed' = (failed \/ n.of = "failed") /\ latest' = latest
      /\ cards' = IF n.of \in Card THEN [cards EXCEPT ![n.of] = n.for] ELSE cards
      /\ cards \in [Card -> Query \cup {Empty}] /\ failed \in BOOLEAN
    BY DEF IntelPageHears, IntelInv
<1>2. /\ Len(signals') = Len(signals) - 1 /\ Len(signals) \in Nat \ {0} /\ n = signals[1]
      /\ signals' \in Seq(Note) /\ signals[1] \in Note
      /\ \A i \in 1 .. Len(signals') : i + 1 \in 1 .. Len(signals) /\ signals'[i] = signals[i + 1]
    BY <1>1
<1>3. n.for \in Query
    BY <1>2 DEF Note
<1> HIDE DEF n
<1>4. cards' \in [Card -> Query \cup {Empty}] /\ failed' \in BOOLEAN
    BY <1>1, <1>3
<1>5. ASSUME NEW c, NEW i \in Fills(c)'
      PROVE  i \in Nat \ {0} /\ i + 1 \in Fills(c) /\ signals'[i] = signals[i + 1]
    <2>1. i \in 1 .. Len(signals') /\ signals'[i].of = c
        BY DEF Fills
    <2>2. i \in Nat \ {0} /\ i + 1 \in 1 .. Len(signals) /\ signals'[i] = signals[i + 1]
        BY <1>2, <2>1
    <2> QED BY <2>1, <2>2 DEF Fills
<1>6. ASSUME NEW c, NEW i \in Fills(c)
      PROVE  (i = 1 /\ n.of = c) \/ (i - 1 \in Fills(c)' /\ i \in Nat)
    <2>1. i = 1 \/ (i - 1 \in 1 .. Len(signals') /\ signals'[i - 1] = signals[i])
        BY <1>2 DEF Fills
    <2>2. signals[i].of = c /\ i \in Nat
        BY DEF Fills
    <2> QED BY <1>2, <2>1, <2>2 DEF Fills
<1>7. Failing => Failing'
    BY <1>1, <1>6 DEF Failing
<1>8. ASSUME NEW c \in Card, UpToDate(c) PROVE UpToDate(c)'
    <2>1. ASSUME NEW i \in Fills(c)', \A j \in Fills(c)' : j <= i PROVE signals'[i].for = latest
        <3>1. i + 1 \in Fills(c) /\ signals'[i] = signals[i + 1] /\ i \in Nat \ {0}
            BY <1>5, <2>1
        <3>2. ASSUME NEW j \in Fills(c) PROVE j <= i + 1
            BY <1>6, <2>1, <3>1, <3>2
        <3> QED BY <1>8, <3>1, <3>2 DEF UpToDate
    <2>2. ASSUME Fills(c)' = {} PROVE cards'[c] = latest
        <3>1. \A j \in Fills(c) : j = 1 /\ n.of = c
            BY <1>6, <2>2
        <3>2. CASE Fills(c) = {}
            <4>1. n.of # c
                BY <1>2, <3>2 DEF Fills
            <4> QED BY <1>1, <1>8, <3>2, <4>1 DEF UpToDate
        <3>3. CASE Fills(c) # {}
            <4>1. 1 \in Fills(c) /\ n.of = c /\ \A j \in Fills(c) : j <= 1
                BY <3>1, <3>3
            <4>2. n.for = latest
                BY <1>2, <1>8, <4>1 DEF UpToDate
            <4> QED BY <1>1, <4>1, <4>2
        <3> QED BY <3>2, <3>3
    <2> QED BY <1>1, <2>1, <2>2 DEF UpToDate
<1> QED BY <1>2, <1>4, <1>7, <1>8

LEMMA IntelStart == IntelInit => IntelInv
<1> SUFFICES ASSUME IntelInit PROVE IntelInv
    OBVIOUS
<1>1. << >> \in Seq(Query) /\ << >> \in Seq(Note) /\ NoCards \in [Card -> Query \cup {Empty}]
    BY DEF NoCards
<1> QED BY <1>1 DEF IntelInit, IntelInv

LEMMA NotesAreTyped ==
    \A what \in Card \cup {"finished", "failed"}, q \in Query :
        About(what, q) \in Note /\ About(what, q).of = what /\ About(what, q).for = q
BY DEF About, Note

\* The thread sends what it found about its target and goes on.
LEMMA StepFills ==
    ASSUME IntelInv, NEW s \in Seq(Note), signals' = signals \o s,
           UNCHANGED <<wanted, subject, cards, latest, failed>>,
           step' \in {"idle", "rdns", "threat", "ports", "geo"},
           step' # "idle" => step # "idle",
           \A c \in DoneBefore[step'] :
              \/ c \in DoneBefore[step] /\ \A i \in 1 .. Len(s) : s[i].of # c
              \/ /\ step # "idle" /\ \E i \in 1 .. Len(s) : s[i].of = c
                 /\ \A i \in 1 .. Len(s) : s[i].for = subject
    PROVE  IntelInv'
<1>1. /\ signals' \in Seq(Note) /\ (Failing => Failing')
      /\ \A c : (\A i \in 1 .. Len(s) : s[i].of # c) /\ UpToDate(c) => UpToDate(c)'
      /\ \A c : /\ \E i \in 1 .. Len(s) : s[i].of = c
                /\ \A i \in 1 .. Len(s) : s[i].of = c => s[i].for = latest
                => UpToDate(c)'
    BY NotesAdded DEF IntelInv
<1>2. ASSUME wanted = << >>, latest # Empty, ~Failing
      PROVE  \A c \in DoneBefore[step'] : UpToDate(c)'
    <2>1. \A c \in DoneBefore[step] : UpToDate(c)
        BY <1>2 DEF IntelInv
    <2>2. step # "idle" => subject = latest
        BY <1>2 DEF IntelInv
    <2> QED BY <1>1, <2>1, <2>2
<1> QED BY <1>1, <1>2 DEF IntelInv

LEMMA ThreadKeepsIntel ==
    ASSUME IntelInv, ReverseDnsLookup \/ ThreatStatus \/ ScanCommonPorts
    PROVE  IntelInv'
<1> DEFINE s == <<About(step, subject)>>
<1>1. /\ step \in {"rdns", "threat", "ports"} /\ signals' = signals \o s
      /\ UNCHANGED <<wanted, subject, cards, latest, failed>>
      /\ step' = [rdns |-> "threat", threat |-> "ports", ports |-> "geo"][step]
    BY DEF ReverseDnsLookup, ThreatStatus, ScanCommonPorts, PortsFound, Emits
<1>2. subject \in Query /\ step \in Local
    BY <1>1 DEF IntelInv, Local
<1>3. s[1].of = step /\ s[1].for = subject /\ s \in Seq(Note) /\ 1 .. Len(s) = {1}
    BY <1>2, NotesAreTyped DEF Card
<1>4. DoneBefore[step'] = DoneBefore[step] \cup {step}
    BY <1>1 DEF DoneBefore, Local
<1> HIDE DEF s
<1>5. /\ step' \in {"idle", "rdns", "threat", "ports", "geo"} /\ step # "idle"
    BY <1>1
<1>6. \A c \in DoneBefore[step'] :
        \/ c \in DoneBefore[step] /\ \A i \in 1 .. Len(s) : s[i].of # c
        \/ /\ step # "idle" /\ \E i \in 1 .. Len(s) : s[i].of = c
           /\ \A i \in 1 .. Len(s) : s[i].for = subject
    BY <1>3, <1>4, <1>5
<1> QED BY <1>1, <1>3, <1>5, <1>6, StepFills

\* Geolocation, subdomains and the end of a look-up are no cards of the thread.
LEMMA RepliesKeepIntel ==
    ASSUME IntelInv, AskGeo \/ \E q \in Query : OnGeoReplyFinished(q) \/ OnCrtShReplyFinished(q)
    PROVE  IntelInv'
<1>1. ASSUME NEW s \in Seq(Note), signals' = signals \o s,
             \A i \in 1 .. Len(s) : s[i].of \notin Local,
             UNCHANGED <<wanted, subject, cards, latest, failed>>, step' = "idle",
             step \in {"idle", "geo"}
      PROVE  IntelInv'
    <2>1. DoneBefore[step'] = Local /\ DoneBefore[step] = Local
        BY <1>1 DEF DoneBefore
    <2> QED BY <1>1, <2>1, StepFills
<1>2. ASSUME AskGeo PROVE IntelInv'
    <2>1. subject \in Query
        BY <1>2 DEF AskGeo, IntelInv
    <2> DEFINE s == IF subject \in Address THEN <<About("finished", subject)>> ELSE << >>
    <2>2. signals' = signals \o s
        BY <1>2 DEF AskGeo, Emits
    <2>3. s \in Seq(Note) /\ \A i \in 1 .. Len(s) : s[i].of \notin Local
        <3>1. CASE subject \in Address
            BY <2>1, <3>1, NotesAreTyped DEF Local
        <3>2. CASE subject \notin Address
            BY <3>2
        <3> QED BY <3>1, <3>2
    <2> HIDE DEF s
    <2> QED BY <1>1, <1>2, <2>2, <2>3 DEF AskGeo
<1>3. ASSUME NEW q \in Query, OnGeoReplyFinished(q) PROVE IntelInv'
    <2> DEFINE s == <<About("geo", q)>>
    <2>1. s \in Seq(Note) /\ \A i \in 1 .. Len(s) : s[i].of \notin Local
        BY NotesAreTyped DEF Local, Card
    <2>2. /\ signals' = signals \o s /\ step' = "idle" /\ step = "idle"
          /\ UNCHANGED <<wanted, subject, cards, latest, failed>>
        BY <1>3 DEF OnGeoReplyFinished, Answered, Emits
    <2> HIDE DEF s
    <2> QED BY <1>1, <2>1, <2>2
<1>4. ASSUME NEW q \in Query, OnCrtShReplyFinished(q) PROVE IntelInv'
    <2> DEFINE s == <<About("subdomains", q), About("finished", q)>>
    <2>1. s \in Seq(Note) /\ \A i \in 1 .. Len(s) : s[i].of \notin Local
        BY NotesAreTyped DEF Local, Card
    <2>2. /\ signals' = signals \o s /\ step' = "idle" /\ step = "idle"
          /\ UNCHANGED <<wanted, subject, cards, latest, failed>>
        BY <1>4 DEF OnCrtShReplyFinished, Answered, Emits
    <2> HIDE DEF s
    <2> QED BY <1>1, <2>1, <2>2
<1> QED BY <1>2, <1>3, <1>4

\* A look-up begins: the last call that waits is about the last target.
LEMMA BeginKeepsIntel == ASSUME IntelInv, BeginLookup PROVE IntelInv'
<1> DEFINE q == Head(wanted)
<1>0. wanted # << >> /\ wanted \in Seq(Query)
    BY DEF BeginLookup, IntelInv
<1>1. /\ wanted # << >> /\ wanted' = Tail(wanted) /\ subject' = q /\ q \in Query
      /\ wanted' \in Seq(Query)
      /\ UNCHANGED <<cards, latest, failed>>
    <2>1. q \in Query /\ Tail(wanted) \in Seq(Query)
        BY <1>0
    <2> HIDE DEF q
    <2>2. wanted' = Tail(wanted) /\ UNCHANGED <<cards, latest, failed>>
        BY DEF BeginLookup
    <2>3. subject' = q
        BY DEF BeginLookup, q
    <2> QED BY <1>0, <2>1, <2>2, <2>3
<1>2. wanted' # << >> => wanted'[Len(wanted')] = latest'
    <2>1. Len(wanted) \in Nat \ {0} /\ Len(wanted') = Len(wanted) - 1
          /\ \A i \in 1 .. Len(wanted') : wanted'[i] = wanted[i + 1]
        BY <1>1 DEF IntelInv
    <2>2. wanted' # << >> => Len(wanted') \in 1 .. Len(wanted')
        BY <1>1, <2>1
    <2> QED BY <1>1, <2>1, <2>2 DEF IntelInv
<1>3. wanted' = << >> => q = latest
    <2>1. wanted' = << >> => Len(wanted) = 1
        <3>1. Len(Tail(wanted)) = Len(wanted) - 1 /\ Len(wanted) \in Nat
            BY <1>0
        <3>2. wanted' = << >> => Len(wanted') = 0
            OBVIOUS
        <3>3. wanted' = Tail(wanted)
            BY <1>1
        <3> QED BY <3>1, <3>2, <3>3
    <2>2. q = wanted[1]
        BY <1>0
    <2> QED BY <1>1, <2>1, <2>2 DEF IntelInv
<1>4. \E s \in Seq(Note) :
         /\ signals' = signals \o s
         /\ \/ /\ step' = "idle" /\ \E i \in 1 .. Len(s) : s[i].of = "failed"
            \/ /\ step' = "rdns" /\ \E i \in 1 .. Len(s) : s[i].of = "ips"
               /\ \A i \in 1 .. Len(s) : s[i].for = q
    <2>1. CASE step' = "rdns" /\ Emits(<<About("ips", q), About("subdomains", q)>>)
        <3> DEFINE s == <<About("ips", q), About("subdomains", q)>>
        <3>1. /\ s \in Seq(Note) /\ 1 .. Len(s) = {1, 2} /\ s[1].of = "ips"
              /\ s[1].for = q /\ s[2].for = q
            BY <1>1, NotesAreTyped DEF Card, Local
        <3>2. signals' = signals \o s
            BY <2>1 DEF Emits
        <3> HIDE DEF s
        <3> QED BY <2>1, <3>1, <3>2
    <2>2. CASE step' = "rdns" /\ Emits(<<About("ips", q)>>)
        <3> DEFINE s == <<About("ips", q)>>
        <3>1. s \in Seq(Note) /\ 1 .. Len(s) = {1} /\ s[1].of = "ips" /\ s[1].for = q
            BY <1>1, NotesAreTyped DEF Card, Local
        <3>2. signals' = signals \o s
            BY <2>2 DEF Emits
        <3> HIDE DEF s
        <3> QED BY <2>2, <3>1, <3>2
    <2>3. CASE step' = "idle" /\ Emits(<<About("failed", q)>>)
        <3> DEFINE s == <<About("failed", q)>>
        <3>0. About("failed", q) \in Note /\ About("failed", q).of = "failed"
            BY <1>1, NotesAreTyped
        <3>1. s \in Seq(Note) /\ 1 .. Len(s) = {1} /\ s[1].of = "failed"
            BY <3>0
        <3>2. signals' = signals \o s
            BY <2>3 DEF Emits
        <3> HIDE DEF s
        <3> QED BY <2>3, <3>1, <3>2
    <2> QED BY <1>1, <2>1, <2>2, <2>3 DEF BeginLookup
<1> HIDE DEF q
<1>5. PICK s \in Seq(Note) :
         /\ signals' = signals \o s
         /\ \/ /\ step' = "idle" /\ \E i \in 1 .. Len(s) : s[i].of = "failed"
            \/ /\ step' = "rdns" /\ \E i \in 1 .. Len(s) : s[i].of = "ips"
               /\ \A i \in 1 .. Len(s) : s[i].for = q
    BY <1>4
<1>6. /\ signals' \in Seq(Note)
      /\ (\E i \in 1 .. Len(s) : s[i].of = "failed") => Failing'
      /\ \A c : /\ \E i \in 1 .. Len(s) : s[i].of = c
                /\ \A i \in 1 .. Len(s) : s[i].of = c => s[i].for = latest
                => UpToDate(c)'
    BY <1>1, <1>5, NotesAdded DEF IntelInv
<1>7. wanted' = << >> => Failing' \/ \A c \in DoneBefore[step'] : UpToDate(c)'
    BY <1>3, <1>5, <1>6 DEF DoneBefore
<1> QED BY <1>1, <1>2, <1>3, <1>5, <1>6, <1>7 DEF IntelInv

LEMMA IntelKept == IntelInv /\ [IntelStep]_intelVars => IntelInv'
<1> SUFFICES ASSUME IntelInv, [IntelStep]_intelVars PROVE IntelInv'
    OBVIOUS
<1>1. ASSUME NEW q \in Query, OnLookupClicked(q) PROVE IntelInv'
    <2>1. /\ wanted' \in Seq(Query) /\ wanted' # << >> /\ wanted'[Len(wanted')] = q
          /\ latest' = q /\ failed' = FALSE /\ cards' = NoCards
          /\ UNCHANGED <<subject, step, signals>>
        BY <1>1 DEF OnLookupClicked, IntelInv
    <2>2. NoCards \in [Card -> Query \cup {Empty}]
        BY DEF NoCards
    <2> QED BY <2>1, <2>2 DEF IntelInv
<1>2. CASE IntelPageHears
    <2>1. /\ signals' \in Seq(Note) /\ cards' \in [Card -> Query \cup {Empty}]
          /\ failed' \in BOOLEAN /\ (Failing => Failing')
          /\ \A c \in Card : UpToDate(c) => UpToDate(c)'
        BY <1>2, NoteHeard
    <2>2. UNCHANGED <<wanted, subject, step, latest>>
        BY <1>2 DEF IntelPageHears
    <2>3. DoneBefore[step] \subseteq Card
        BY DEF IntelInv, DoneBefore, Card, Local
    <2> QED BY <2>1, <2>2, <2>3 DEF IntelInv
<1>3. CASE UNCHANGED intelVars
    BY <1>3 DEF intelVars, IntelInv, UpToDate, Failing, Fills
<1> QED BY <1>1, <1>2, <1>3, BeginKeepsIntel, ThreadKeepsIntel, RepliesKeepIntel DEF IntelStep

\* At rest the cards of the thread show the last target, for any number of
\* look-ups that overlap and signals on their way.
THEOREM LastLookupIsShown == IntelSpec => []LastTargetIsShown
<1>1. ASSUME IntelInv PROVE LastTargetIsShown
    <2>1. SUFFICES ASSUME step = "idle", wanted = << >>, signals = << >>, latest # Empty, ~failed
                   PROVE  \A c \in Local : cards[c] = latest
        BY DEF LastTargetIsShown
    <2>2. \A c : Fills(c) = {}
        BY <2>1 DEF Fills
    <2>3. ~Failing /\ DoneBefore[step] = Local
        BY <2>1, <2>2 DEF Failing, DoneBefore
    <2> QED BY <1>1, <2>1, <2>2, <2>3 DEF IntelInv, UpToDate
<1> QED BY <1>1, IntelStart, IntelKept, PTL DEF IntelSpec

-----------------------------------------------------------------------------
(* The calculator.                                                         *)

Size(p) == 2 ^ (Width - p)

LEMMA Sizes ==
    ASSUME NEW p \in Prefix
    PROVE  /\ Size(p) \in Nat /\ Size(p) > 0 /\ Size(p) * 2 ^ p = Space
           /\ HostBits(p) = Size(p) - 1 /\ HostBits(p) + 1 = Size(p)
           /\ 2 ^ p \in Nat /\ 2 ^ p > 0 /\ Space \in Nat /\ Space > 0
<1>1. Width \in Nat /\ p \in Nat
  BY CalcAssumption DEF Prefix
<1>2. PICK b \in Nat : b = Width - p /\ b + p = Width
  BY CalcAssumption DEF Prefix
<1>3. /\ 2 ^ b \in Nat /\ 2 ^ b > 0 /\ 2 ^ p \in Nat /\ 2 ^ p > 0
      /\ 2 ^ (b + p) = 2 ^ b * 2 ^ p /\ 2 ^ Width \in Nat /\ 2 ^ Width > 0
  BY <1>1, PowersAdd
<1> QED
  BY <1>2, <1>3 DEF Size, Space, HostBits

LEMMA SizesShrink ==
    ASSUME NEW p \in Prefix, NEW bits \in Nat, p + bits \in Prefix
    PROVE  Size(p) = Size(p + bits) * 2 ^ bits
<1>1. PICK rest \in Nat : rest = Width - (p + bits) /\ rest + bits = Width - p
  BY CalcAssumption DEF Prefix
<1>2. 2 ^ (rest + bits) = 2 ^ rest * 2 ^ bits
  BY PowersAdd
<1> QED
  BY <1>1, <1>2 DEF Size

\* The network of an address, by its mask.
LEMMA NetworkOf ==
    ASSUME NEW p \in Prefix, NEW a \in Ip
    PROVE  /\ Masked(a, p) = Size(p) * (a \div Size(p)) /\ a \div Size(p) \in Nat
           /\ Masked(a, p) \in Ip /\ Masked(a, p) <= a /\ a < Masked(a, p) + Size(p)
           /\ Masked(a, p) + Size(p) <= Space
<1>1. PICK k \in Nat : k = Size(p) /\ k > 0 /\ k * 2 ^ p = Space /\ HostBits(p) + 1 = k
  BY Sizes
<1>2. a \in Nat /\ a < Space /\ 2 ^ p \in Nat /\ Space \in Nat
  BY Sizes DEF Ip
<1>3. Masked(a, p) = a - (a % k)
  BY <1>1 DEF Masked
<1>4. PICK q \in Nat : /\ q = a \div k /\ Masked(a, p) = k * q /\ Masked(a, p) \in Nat
                       /\ Masked(a, p) <= a /\ a < Masked(a, p) + k
  BY <1>1, <1>2, <1>3, Stretches
<1>5. k * q + k <= k * 2 ^ p
  <2>1. PICK t \in Nat : t = 2 ^ p
    BY <1>2
  <2>2. CASE q < t
    BY <2>1, <2>2, TimesGrows
  <2>3. CASE q = t
    BY <1>1, <1>2, <1>4, <2>1, <2>3
  <2>4. CASE t < q
    <3>1. k * t + k <= k * q /\ k * t \in Nat /\ k * q \in Nat
      BY <2>4, TimesGrows
    <3>2. k * t = Space /\ k * q <= a
      BY <1>1, <1>4, <2>1
    <3> QED
      BY <1>1, <1>2, <3>1, <3>2
  <2> QED
    BY <2>1, <2>2, <2>3, <2>4
<1> QED
  BY <1>1, <1>2, <1>4, <1>5 DEF Ip

\* Addresses of one stretch have one network.
LEMMA SameNetwork ==
    ASSUME NEW p \in Prefix, NEW a \in Ip, NEW x \in Nat,
           Masked(a, p) <= x, x < Masked(a, p) + Size(p)
    PROVE  x \in Ip /\ x \div Size(p) = a \div Size(p) /\ Masked(x, p) = Masked(a, p)
<1>1. PICK k \in Nat : k = Size(p) /\ k > 0 /\ Space \in Nat
  BY Sizes
<1>2. PICK q \in Nat : q = a \div k /\ Masked(a, p) = k * q /\ Masked(a, p) + k <= Space
  BY <1>1, NetworkOf
<1>3. k * q <= x /\ x < k * q + k /\ k * q \in Nat
  BY <1>1, <1>2
<1>4. x \div k = q
  BY <1>1, <1>3, StretchOf
<1>5. x \in Ip
  BY <1>1, <1>2, <1>3 DEF Ip
<1>6. Masked(x, p) = k * q
  BY <1>1, <1>4, <1>5, NetworkOf
<1> QED
  BY <1>1, <1>2, <1>4, <1>5, <1>6

\* A block, which is what begins alike, is the stretch from its network on.
LEMMA BlockIsStretch ==
    ASSUME NEW p \in Prefix, NEW a \in Ip
    PROVE  Block([base |-> a, prefix |-> p]) = Masked(a, p) .. Masked(a, p) + Size(p) - 1
<1>1. Block([base |-> a, prefix |-> p]) = {x \in Ip : x \div Size(p) = a \div Size(p)}
  BY DEF Block, Size
<1>2. Masked(a, p) \in Nat /\ Size(p) \in Nat /\ Space \in Nat
  BY NetworkOf, Sizes DEF Ip
<1>3. ASSUME NEW x \in Ip, x \div Size(p) = a \div Size(p)
      PROVE  x \in Masked(a, p) .. Masked(a, p) + Size(p) - 1
  <2>1. Masked(x, p) = Masked(a, p)
    BY <1>3, NetworkOf
  <2>2. Masked(x, p) <= x /\ x < Masked(x, p) + Size(p) /\ x \in Nat
    BY NetworkOf DEF Ip
  <2> QED
    BY <1>2, <2>1, <2>2
<1>4. ASSUME NEW x \in Masked(a, p) .. Masked(a, p) + Size(p) - 1
      PROVE  x \in Ip /\ x \div Size(p) = a \div Size(p)
  <2>1. x \in Nat /\ Masked(a, p) <= x /\ x < Masked(a, p) + Size(p)
    BY <1>2
  <2> QED
    BY <2>1, SameNetwork
<1> DEFINE B == {x \in Ip : x \div Size(p) = a \div Size(p)}
           I == Masked(a, p) .. Masked(a, p) + Size(p) - 1
<1>5. B \subseteq I
  BY <1>3
<1>6. I \subseteq B
  BY <1>4
<1> HIDE DEF B, I
<1>7. B = I
  BY <1>5, <1>6
<1> QED
  BY <1>1, <1>7 DEF B, I

\* A set of addresses has two ends.
LEMMA EndsExist ==
    ASSUME NEW S \in SUBSET Nat, NEW top \in Nat, \A a \in S : a <= top, S # {}
    PROVE  /\ Least(S) \in S /\ \A a \in S : Least(S) <= a
           /\ Most(S) \in S /\ \A a \in S : a <= Most(S)
<1>1. \E a \in S : \A b \in S : a <= b
  BY LeastNumber
<1>2. \E a \in S : \A b \in S : b <= a
  <2>1. S \subseteq 0 .. top
    OBVIOUS
  <2> QED
    BY <2>1, GreatestNumber
<1> QED
  BY <1>1, <1>2 DEF Least, Most

LEMMA EndsOfStretch ==
    ASSUME NEW low \in Nat, NEW high \in Nat, low <= high
    PROVE  Least(low .. high) = low /\ Most(low .. high) = high
<1>1. PICK S \in SUBSET Nat : S = low .. high
  OBVIOUS
<1>2. /\ Least(S) \in S /\ \A a \in S : Least(S) <= a
      /\ Most(S) \in S /\ \A a \in S : a <= Most(S)
  <2>1. S # {} /\ \A a \in S : a <= high
    BY <1>1
  <2> QED
    BY <2>1, EndsExist
<1>3. low \in S /\ high \in S
  BY <1>1
<1> QED
  BY <1>1, <1>2, <1>3


\* calculate: the hosts of a network that has some do not leave the space.
LEMMA CalculateIsRight ==
    ASSUME NEW a \in Ip, NEW p \in Prefix, NEW res, res = Calculate(a, p)
    PROVE  /\ res \in [valid : BOOLEAN, first : Ip, last : Ip, usable : 0 .. Space]
           /\ res.valid
           /\ res.usable > 0 =>
                /\ res.first = Masked(a, p) + 1 /\ res.last = Masked(a, p) + Size(p) - 2
                /\ res.usable = Size(p) - 2
<1>1. PICK n \in Nat : n = Masked(a, p) /\ n + Size(p) <= Space
  BY NetworkOf DEF Ip
<1>2. PICK k \in Nat : /\ k = Size(p) /\ k > 0 /\ n + k <= Space
                       /\ HostBits(p) = k - 1 /\ HostBits(p) + 1 = k
  BY <1>1, Sizes
<1>3. Space \in Nat /\ Space > 0
  BY Sizes
<1>4. /\ res.valid = TRUE /\ res.first = (n + 1) % Space /\ res.last = (n + (k - 1) - 1) % Space
      /\ res.usable = IF k > 2 THEN k - 2 ELSE 0
  BY <1>1, <1>2 DEF Calculate
<1>5. res = [valid |-> res.valid, first |-> res.first, last |-> res.last, usable |-> res.usable]
  BY DEF Calculate
<1>6. res.first \in Ip /\ res.last \in Ip
  <2>1. \A x \in Int : x % Space \in 0 .. Space - 1
    BY <1>3
  <2>2. n + 1 \in Int /\ n + (k - 1) - 1 \in Int
    OBVIOUS
  <2> QED
    BY <1>4, <2>1, <2>2 DEF Ip
<1>7. res.usable \in 0 .. Space
  BY <1>2, <1>3, <1>4
<1>8. ASSUME res.usable > 0 
      PROVE  /\ res.first = n + 1 /\ res.last = n + k - 2 /\ res.usable = k - 2
  <2>1. k > 2
    BY <1>4, <1>8
  <2>2. \A x \in Nat : x < Space => x % Space = x
    BY <1>3
  <2>3. n + 1 \in Nat /\ n + 1 < Space /\ n + (k - 1) - 1 \in Nat /\ n + (k - 1) - 1 < Space
    BY <1>2, <1>3, <2>1
  <2> QED
    BY <1>4, <2>1, <2>2, <2>3
<1> QED
  BY <1>1, <1>2, <1>4, <1>5, <1>6, <1>7, <1>8

\* generateRange, for a network with hosts, as many as can be listed.
LEMMA RangeHasHosts ==
    ASSUME NEW a \in Ip, NEW p \in Prefix, NEW res, res = Calculate(a, p), Audible(res.usable)
    PROVE  LET network == Block([base |-> a, prefix |-> p])
           IN  GenerateRange(res.first, res.last) = network \ {Least(network), Most(network)}
<1>1. PICK n \in Nat, k \in Nat : n = Masked(a, p) /\ k = Size(p)
  BY NetworkOf, Sizes DEF Ip
<1>2. res.usable > 0 /\ res.usable <= MaxAudit /\ MaxAudit \in Nat
  BY CalcAssumption DEF Audible
<1>3. res.first = n + 1 /\ res.last = n + k - 2 /\ k - 2 > 0 /\ k - 2 <= MaxAudit
  BY <1>1, <1>2, CalculateIsRight
<1>4. Block([base |-> a, prefix |-> p]) = n .. n + k - 1
  BY <1>1, BlockIsStretch
<1>5. Least(n .. n + k - 1) = n /\ Most(n .. n + k - 1) = n + k - 1
  <2>1. n + k - 1 \in Nat /\ n <= n + k - 1
    BY <1>3
  <2> QED
    BY <2>1, EndsOfStretch
<1>6. GenerateRange(n + 1, n + k - 2) = (n + 1) .. (n + k - 2)
  <2>1. ~(n + 1 > n + k - 2)
    BY <1>3
  <2>2. \A x \in (n + 1) .. (n + k - 2) : x - (n + 1) < MaxAudit
    BY <1>2, <1>3
  <2> QED
    BY <2>1, <2>2 DEF GenerateRange
<1>7. (n + 1) .. (n + k - 2) = (n .. n + k - 1) \ {n, n + k - 1}
  BY <1>3
<1> QED
  BY <1>3, <1>4, <1>5, <1>6, <1>7

\* aggregate: the longest prefix that the two ends share exists, and fits.
LEMMA CommonPrefixFits ==
    ASSUME NEW a \in Ip, NEW b \in Ip
    PROVE  /\ CommonPrefix(a, b) \in Prefix
           /\ Masked(a, CommonPrefix(a, b)) = Masked(b, CommonPrefix(a, b))
           /\ \A longer \in Prefix :
                longer > CommonPrefix(a, b) => Masked(a, longer) # Masked(b, longer)
<1> DEFINE S == {p \in Prefix : Masked(a, p) = Masked(b, p)}
<1>1. Width \in Nat /\ 0 \in Prefix
  BY CalcAssumption DEF Prefix
<1>2. Masked(a, 0) = Masked(b, 0)
  <2>1. Size(0) = Space /\ Space \in Nat
    BY <1>1, Sizes DEF Size, Space
  <2>2. ASSUME NEW x \in Ip PROVE Masked(x, 0) = 0
    <3>1. Masked(x, 0) \in Nat /\ Masked(x, 0) + Size(0) <= Space
      BY <1>1, NetworkOf DEF Ip
    <3> QED
      BY <2>1, <3>1
  <2> QED
    BY <2>2
<1>3. S \subseteq 0 .. Width /\ S # {}
  BY <1>1, <1>2 DEF Prefix
<1>4. PICK p \in S : \A q \in S : q <= p
  BY <1>1, <1>3, GreatestNumber
<1>5. ASSUME NEW longer \in Prefix, longer > p PROVE Masked(a, longer) # Masked(b, longer)
  BY <1>1, <1>4, <1>5 DEF Prefix
<1>6. \E q \in Prefix :
         /\ Masked(a, q) = Masked(b, q)
         /\ \A longer \in Prefix : longer > q => Masked(a, longer) # Masked(b, longer)
  BY <1>4, <1>5
<1> QED
  BY <1>6 DEF CommonPrefix

\* What the mask takes away twice is gone once.
LEMMA MaskedTwice ==
    ASSUME NEW a \in Ip, NEW p \in Prefix
    PROVE  Masked(Masked(a, p), p) = Masked(a, p)
<1>1. PICK n \in Nat : n = Masked(a, p)
  BY NetworkOf DEF Ip
<1>2. n <= n /\ n < n + Size(p)
  BY Sizes
<1> QED
  BY <1>1, <1>2, SameNetwork

\* The bounds of a list of lines, which start at the ends of the address
\* space, are the ends of its addresses, if it has any.
LEMMA BoundsOfList ==
    ASSUME NEW S \in SUBSET Line
    PROVE  /\ Addresses(S) \in SUBSET Ip /\ MinAddr(S) \in Ip /\ MaxAddr(S) \in Ip
           /\ Addresses(S) # {} =>
                /\ MinAddr(S) = Least(Addresses(S))
                /\ MinAddr(S) \in Addresses(S) /\ MaxAddr(S) \in Addresses(S)
                /\ \A a \in Addresses(S) : MinAddr(S) <= a /\ a <= MaxAddr(S)
<1>1. Space \in Nat \ {0} /\ Ip \in SUBSET Nat /\ 0 \in Ip /\ Space - 1 \in Ip
  <2>1. Space \in Nat \ {0}
    BY Sizes, CalcAssumption DEF Prefix
  <2> QED
    BY <2>1 DEF Ip
<1>2. PICK A \in SUBSET Ip : A = Addresses(S)
  BY DEF Addresses, Line
<1>3. PICK low \in SUBSET Nat, high \in SUBSET Nat :
         low = A \cup {Space - 1} /\ high = A \cup {0}
  BY <1>1
<1>4. \A a \in Ip : 0 <= a /\ a <= Space - 1
  BY <1>1 DEF Ip
<1>5. /\ Least(low) \in low /\ \A a \in low : Least(low) <= a
      /\ Most(high) \in high /\ \A a \in high : a <= Most(high)
  <2>1. Space - 1 \in Nat /\ low # {} /\ high # {}
    BY <1>1, <1>3
  <2>2. (\A a \in low : a <= Space - 1) /\ \A a \in high : a <= Space - 1
    BY <1>1, <1>3, <1>4
  <2> QED
    BY <2>1, <2>2, EndsExist
<1>6. MinAddr(S) = Least(low) /\ MaxAddr(S) = Most(high)
  BY <1>2, <1>3 DEF MinAddr, MaxAddr
<1>7. Least(low) \in Ip /\ Most(high) \in Ip
  BY <1>1, <1>3, <1>5
<1>8. ASSUME A # {}
      PROVE  /\ Least(low) = Least(A) /\ Least(low) \in A /\ Most(high) \in A
             /\ \A a \in A : Least(low) <= a /\ a <= Most(high)
  <2>1. /\ Least(A) \in A /\ \A a \in A : Least(A) <= a
        /\ Most(A) \in A /\ \A a \in A : a <= Most(A)
    <3>1. A \in SUBSET Nat /\ Space - 1 \in Nat /\ \A a \in A : a <= Space - 1
      BY <1>1, <1>4
    <3> QED
      BY <1>8, <3>1, EndsExist
  <2>2. PICK l \in Ip, m \in Ip, n \in Ip, o \in Ip :
           l = Least(low) /\ m = Least(A) /\ n = Most(high) /\ o = Most(A)
    BY <1>7, <2>1
  <2>3. l <= m /\ (l = Space - 1 => m <= l) /\ (l \in A => m <= l)
    BY <1>3, <1>4, <1>5, <2>1, <2>2
  <2>4. o <= n /\ (n = 0 => n <= o) /\ (n \in A => n <= o)
    BY <1>3, <1>4, <1>5, <2>1, <2>2
  <2>5. l = m
    <3>1. l = Space - 1 \/ l \in A
      BY <1>3, <1>5, <2>2
    <3> QED
      BY <1>1, <2>3, <3>1
  <2>6. n = o
    <3>1. n = 0 \/ n \in A
      BY <1>3, <1>5, <2>2
    <3> QED
      BY <1>1, <2>4, <3>1
  <2> QED
    BY <1>3, <1>5, <2>1, <2>2, <2>5, <2>6
<1> QED
  BY <1>2, <1>6, <1>7, <1>8

LEMMA AggregateIsTyped ==
    ASSUME NEW S \in SUBSET Line
    PROVE  Aggregate(S) \in Cidr
<1>1. PICK a \in Ip, b \in Ip : a = MinAddr(S) /\ b = MaxAddr(S)
  BY BoundsOfList
<1>2. CommonPrefix(a, b) \in Prefix
  BY CommonPrefixFits
<1>3. Masked(a, CommonPrefix(a, b)) \in Ip
  BY <1>2, NetworkOf
<1> QED
  BY <1>1, <1>2, <1>3 DEF Aggregate, Cidr

LEMMA AggregateIsTight ==
    ASSUME NEW lines \in SUBSET Line, NEW S, S = Addresses(lines), S # {},
           NEW res, res = Aggregate(lines)
    PROVE  /\ S \subseteq Block(res)
           /\ \A longer \in Prefix : longer > res.prefix =>
                ~(S \subseteq Block([base |-> Least(S), prefix |-> longer]))
<1>1. PICK a \in Ip, b \in Ip : a = MinAddr(lines) /\ b = MaxAddr(lines)
  BY BoundsOfList
<1>2. /\ a = Least(S) /\ S \subseteq Ip /\ b \in S /\ a \in S
      /\ \A x \in S : a <= x /\ x <= b
  BY <1>1, BoundsOfList
<1>3. PICK p \in Prefix :
         /\ p = CommonPrefix(a, b) /\ Masked(a, p) = Masked(b, p)
         /\ \A longer \in Prefix : longer > p => Masked(a, longer) # Masked(b, longer)
  BY CommonPrefixFits
<1>4. res = [base |-> Masked(a, p), prefix |-> p] /\ Masked(a, p) \in Ip
  BY <1>1, <1>3, NetworkOf DEF Aggregate
<1>5. PICK k \in Nat : k = Size(p)
  BY Sizes
<1>6. Block(res) = Masked(a, p) .. Masked(a, p) + Size(p) - 1
  BY <1>4, BlockIsStretch, MaskedTwice
<1>7. ASSUME NEW x \in S PROVE x \in Block(res)
  <2>1. a <= x /\ x <= b /\ x \in Nat /\ a \in Nat /\ b \in Nat
    BY <1>2 DEF Ip
  <2>2. Masked(a, p) \in Nat /\ Masked(a, p) <= a /\ b < Masked(a, p) + k
    BY <1>3, <1>5, NetworkOf DEF Ip
  <2> QED
    BY <1>5, <1>6, <2>1, <2>2
<1>8. ASSUME NEW longer \in Prefix, longer > p, S \subseteq Block([base |-> a, prefix |-> longer])
      PROVE  FALSE
  <2>1. b \in Masked(a, longer) .. Masked(a, longer) + Size(longer) - 1
    BY <1>2, <1>8, BlockIsStretch
  <2>2. Masked(a, longer) \in Nat /\ Size(longer) \in Nat /\ b \in Nat
    BY NetworkOf, Sizes DEF Ip
  <2>3. Masked(a, longer) <= b /\ b < Masked(a, longer) + Size(longer)
    BY <2>1, <2>2
  <2>4. Masked(b, longer) = Masked(a, longer)
    BY <2>2, <2>3, SameNetwork
  <2> QED
    BY <1>3, <1>8, <2>4
<1> QED
  BY <1>2, <1>4, <1>7, <1>8

\* createSubnets: the number of bits exists, and what is divided fits.
LEMMA BitsFit ==
    ASSUME NEW count \in 2 .. MaxCount
    PROVE  Bits(count) \in Prefix /\ 2 ^ Bits(count) >= count
<1>1. Width \in Nat /\ Width \in Prefix /\ MaxCount <= 2 ^ Width /\ MaxCount \in Nat
  BY CalcAssumption DEF Prefix
<1>2. 2 ^ Width \in Nat
  BY <1>1, PowersOfTwo
<1>3. count <= 2 ^ Width
  BY <1>1, <1>2
<1>4. PICK S : S = {bits \in Prefix : 2 ^ bits >= count}
  OBVIOUS
<1>5. S \subseteq Nat /\ Width \in S
  BY <1>1, <1>2, <1>3, <1>4 DEF Prefix
<1>6. PICK bits \in S : \A fewer \in S : bits <= fewer
  BY <1>5, LeastNumber
<1>7. \E b \in Prefix :
         2 ^ b >= count /\ \A fewer \in Prefix : 2 ^ fewer >= count => b <= fewer
  BY <1>4, <1>6
<1> QED
  BY <1>7 DEF Bits

LEMMA SubnetsAreTyped ==
    ASSUME NEW a \in Ip, NEW p \in Prefix, NEW count \in 2 .. MaxCount
    PROVE  CreateSubnets(a, p, count) \subseteq Cidr
<1>1. PICK longer \in Nat : longer = p + Bits(count)
  BY BitsFit, CalcAssumption DEF Prefix
<1>2. CASE longer > Width
  BY <1>1, <1>2 DEF CreateSubnets
<1>3. CASE ~(longer > Width)
  <2>1. longer \in Prefix
    BY <1>3, CalcAssumption DEF Prefix
  <2>2. PICK k \in Nat : k = HostBits(longer) + 1
    BY <2>1, Sizes
  <2>3. CreateSubnets(a, p, count)
          = {[base |-> (a + i * k) % Space, prefix |-> longer] : i \in 0 .. count - 1}
    BY <1>1, <1>3, <2>2 DEF CreateSubnets
  <2>4. ASSUME NEW i \in 0 .. count - 1 PROVE (a + i * k) % Space \in Ip
    <3>1. a + i * k \in Nat /\ Space \in Nat /\ Space > 0
      BY <2>1, Sizes, CalcAssumption DEF Ip
    <3> QED
      BY <3>1 DEF Ip
  <2>5. \A i \in 0 .. count - 1 : [base |-> (a + i * k) % Space, prefix |-> longer] \in Cidr
    BY <2>1, <2>4 DEF Cidr
  <2> QED
    BY <2>3, <2>5
<1> QED
  BY <1>2, <1>3

\* The parts of a network, as many as their bits have values, tile it.
LEMMA PartsTile ==
    ASSUME NEW a \in Ip, NEW p \in Prefix, NEW count \in 2 .. MaxCount,
           a = Masked(a, p), 2 ^ Bits(count) = count,
           NEW parts, parts = CreateSubnets(a, p, count), parts # {}
    PROVE  /\ UNION {Block(s) : s \in parts} = Block([base |-> a, prefix |-> p])
           /\ \A s, t \in parts : s # t => Block(s) \cap Block(t) = {}
<1>1. PICK bits \in Prefix : bits = Bits(count) /\ 2 ^ bits = count
  BY BitsFit
<1>2. PICK longer \in Prefix : longer = p + bits
  <2>1. ~(p + bits > Width)
    BY <1>1 DEF CreateSubnets
  <2> QED
    BY <2>1, CalcAssumption DEF Prefix
<1>3. PICK k \in Nat : k = Size(longer) /\ k > 0 /\ HostBits(longer) + 1 = k
  BY Sizes
<1>4. Size(p) = k * count
  BY <1>1, <1>2, <1>3, SizesShrink DEF Prefix
<1>5. PICK n \in Nat : n = a /\ n + k * count <= Space /\ Space \in Nat /\ count \in Nat
  BY <1>4, NetworkOf, Sizes, CalcAssumption DEF Ip
<1>6. PICK q \in Nat : n = k * count * q
  BY <1>4, <1>5, NetworkOf
<1>7. Block([base |-> a, prefix |-> p]) = n .. n + k * count - 1
  BY <1>4, <1>5, BlockIsStretch
\* Part i starts at n + i * k.
<1> DEFINE Part(i) == [base |-> n + i * k, prefix |-> longer]
<1>8. ASSUME NEW i \in 0 .. count - 1
      PROVE  /\ i * k \in Nat /\ i * k + k <= k * count
             /\ n + i * k \in Ip /\ (n + i * k) % Space = n + i * k
             /\ Block(Part(i)) = n + i * k .. n + i * k + k - 1
  <2>1. i \in Nat /\ i < count /\ k * i = i * k /\ i * k \in Nat
    BY <1>5
  <2>2. k * i + k <= k * count
    BY <1>5, <2>1, TimesGrows
  <2>3. k * count \in Nat /\ i * k + k <= k * count
    BY <1>5, <2>1, <2>2
  <2>4. n + i * k \in Nat /\ n + i * k < Space
    BY <1>3, <1>5, <2>1, <2>3
  <2>5. n + i * k \in Ip /\ (n + i * k) % Space = n + i * k
    BY <1>5, <2>4 DEF Ip
  <2>6. PICK b \in Ip : b = n + i * k
    BY <2>5
  <2>7. Masked(b, longer) = b
    <3>1. PICK j \in Nat : j = count * q + i
      BY <1>5, <2>1
    <3>2. b = k * j
      BY <1>5, <1>6, <2>1, <2>6, <3>1
    <3>3. k * j \in Nat /\ k * j <= b /\ b < k * j + k /\ b \in Nat
      BY <1>3, <2>4, <2>6, <3>2
    <3>4. b \div k = j
      BY <1>3, <3>3, StretchOf
    <3> QED
      BY <1>3, <3>2, <3>4, NetworkOf
  <2>8. Block([base |-> b, prefix |-> longer]) = b .. b + k - 1
    BY <1>3, <2>7, BlockIsStretch
  <2> QED
    BY <2>1, <2>3, <2>5, <2>6, <2>8
<1>9. parts = {Part(i) : i \in 0 .. count - 1}
  <2>1. parts = {[base |-> (n + i * k) % Space, prefix |-> longer] : i \in 0 .. count - 1}
    <3>1. ~(longer > Width)
      BY CalcAssumption DEF Prefix
    <3> QED
      BY <1>1, <1>2, <1>3, <1>5, <3>1 DEF CreateSubnets
  <2> QED
    BY <1>8, <2>1
<1>10. ASSUME NEW x \in n .. n + k * count - 1
       PROVE  \E i \in 0 .. count - 1 : x \in Block(Part(i))
  <2>1. PICK y \in Nat : x = n + y /\ y < k * count
    <3>1. k * count \in Nat
      BY <1>5
    <3>2. x - n \in Nat /\ x = n + (x - n) /\ x - n < k * count
      BY <3>1
    <3> QED
      BY <3>2
  <2>2. PICK i \in Nat : i = y \div k /\ k * i <= y /\ y < k * i + k
    BY <1>3, Stretches
  <2>3. i < count
    <3>1. SUFFICES ASSUME ~(i < count) PROVE FALSE
      OBVIOUS
    <3>2. count < i \/ count = i
      BY <1>5, <3>1
    <3>3. k * count \in Nat /\ k * i \in Nat
      BY <1>5
    <3>4. k * count <= k * i
      BY <1>5, <3>2, <3>3, TimesGrows
    <3> QED
      BY <2>1, <2>2, <3>3, <3>4
  <2>4. i \in 0 .. count - 1 /\ k * i = i * k /\ i * k \in Nat
    BY <1>5, <2>3
  <2>5. Block(Part(i)) = n + i * k .. n + i * k + k - 1
    BY <1>8, <2>4
  <2>6. x \in n + i * k .. n + i * k + k - 1
    BY <2>1, <2>2, <2>4
  <2> QED
    BY <2>4, <2>5, <2>6
<1>11. ASSUME NEW i \in 0 .. count - 1, NEW x \in Block(Part(i))
       PROVE  x \in n .. n + k * count - 1
  <2>1. x \in n + i * k .. n + i * k + k - 1 /\ i * k \in Nat /\ i * k + k <= k * count
    BY <1>8, <1>11
  <2>2. k * count \in Nat
    BY <1>5
  <2> QED
    BY <2>1, <2>2
<1>12. ASSUME NEW i \in 0 .. count - 1, NEW j \in 0 .. count - 1, i < j
       PROVE  Block(Part(i)) \cap Block(Part(j)) = {}
  <2>1. k * i + k <= k * j
    BY <1>12, TimesGrows
  <2>2. /\ Block(Part(i)) = n + i * k .. n + i * k + k - 1 /\ i * k \in Nat
        /\ Block(Part(j)) = n + j * k .. n + j * k + k - 1 /\ j * k \in Nat
    BY <1>8
  <2>3. i * k + k <= j * k
    BY <2>1
  <2> QED
    BY <2>2, <2>3
<1> HIDE DEF Part
<1>13. UNION {Block(s) : s \in parts} = n .. n + k * count - 1
  BY <1>9, <1>10, <1>11
<1>14. ASSUME NEW s \in parts, NEW t \in parts, s # t PROVE Block(s) \cap Block(t) = {}
  <2>1. PICK i \in 0 .. count - 1, j \in 0 .. count - 1 : s = Part(i) /\ t = Part(j)
    BY <1>9
  <2>2. i < j \/ j < i
    BY <1>14, <2>1
  <2> QED
    BY <1>12, <2>1, <2>2
<1> QED
  BY <1>7, <1>13, <1>14

\* What the page shows belongs to what was asked: the answer and the button to
\* the question of the last calculation, the list to the answer, the rows and
\* the route to the last division and aggregation.
CalcInv ==
    /\ CalcTypeOK
    /\ answer.valid =>
         /\ question[1] \in Ip /\ answer = Calculate(question[1], question[2])
         /\ generable = Audible(answer.usable)
    /\ audit # {} =>
         answer.valid /\ generable /\ audit = GenerateRange(answer.first, answer.last)
    /\ subnets # {} =>
         /\ division.base \in Ip /\ division.count \in 2 .. MaxCount
         /\ subnets = CreateSubnets(division.base, division.prefix, division.count)
    /\ routes # {} => route = Aggregate(routes)

LEMMA CalcStart == CalcInit => CalcInv
<1> SUFFICES ASSUME CalcInit PROVE CalcInv
  OBVIOUS
<1>1. 0 \in Prefix /\ 0 \in Ip /\ 0 \in 0 .. Space /\ 0 \in 0 .. MaxCount
  <2>1. 0 \in Prefix /\ 0 \in 0 .. MaxCount
    BY CalcAssumption DEF Prefix
  <2> QED
    BY <2>1, Sizes DEF Ip
<1>2. ~answer.valid /\ audit = {} /\ subnets = {} /\ routes = {}
  BY DEF CalcInit, NothingYet
<1>3. CalcTypeOK
  BY <1>1 DEF CalcInit, CalcTypeOK, NothingYet, NoDivision, NoRoute
<1> QED
  BY <1>2, <1>3 DEF CalcInv

LEMMA CalcKept ==
    ASSUME CalcInv, [CalcStep]_calcVars
    PROVE  CalcInv'
<1>1. ASSUME NEW a \in Ip \cup {NoAddress}, NEW p \in Prefix, OnCalculateForensic(a, p),
             InTab("forensic")
      PROVE  CalcInv'
  <2>1. /\ tab' = "forensic" /\ question' = <<a, p>> /\ audit' = {}
        /\ UNCHANGED <<division, subnets, routes, route>>
    BY <1>1 DEF OnCalculateForensic, InTab
  <2>2. CASE a = NoAddress
    <3>1. answer' = NothingYet /\ visible' = FALSE /\ UNCHANGED generable
      BY <1>1, <2>2 DEF OnCalculateForensic
    <3>2. 0 \in Ip /\ 0 \in 0 .. Space
      BY CalcAssumption, Sizes DEF Ip, Prefix
    <3> QED
      BY <2>1, <3>1, <3>2 DEF CalcInv, CalcTypeOK, NothingYet
  <2>3. CASE a # NoAddress
    <3>1. a \in Ip /\ answer' = Calculate(a, p) /\ visible' = TRUE
          /\ generable' = Audible(answer'.usable)
      BY <1>1, <2>3 DEF OnCalculateForensic
    <3>2. answer' \in [valid : BOOLEAN, first : Ip, last : Ip, usable : 0 .. Space]
      BY <3>1, CalculateIsRight
    <3>3. generable' \in BOOLEAN
      BY <3>1 DEF Audible
    <3> QED
      BY <2>1, <3>1, <3>2, <3>3 DEF CalcInv, CalcTypeOK
  <2> QED
    BY <2>2, <2>3
<1>2. ASSUME ClearForensic, InTab("forensic") PROVE CalcInv'
  BY <1>2 DEF ClearForensic, InTab, CalcInv, CalcTypeOK
<1>3. ASSUME GenerateClicked, InTab("forensic") PROVE CalcInv'
  <2>1. /\ tab' = "forensic" /\ generable /\ answer.valid
        /\ audit' = GenerateRange(answer.first, answer.last)
        /\ UNCHANGED <<question, answer, generable, visible, division, subnets, routes, route>>
    BY <1>3 DEF GenerateClicked, InTab
  <2>2. audit' \subseteq Ip
    <3>1. answer.first \in Ip /\ answer.last \in Ip /\ Space \in Nat
      BY Sizes, CalcAssumption DEF CalcInv, CalcTypeOK, Prefix
    <3>2. audit' \subseteq answer.first .. answer.last
      BY <2>1 DEF GenerateRange
    <3> QED
      BY <3>1, <3>2 DEF Ip
  <2> QED
    BY <2>1, <2>2 DEF CalcInv, CalcTypeOK
<1>4. ASSUME NEW a \in Ip \cup {NoAddress}, NEW p \in Prefix, NEW count \in 2 .. MaxCount,
             OnCalculateSubnets(a, p, count), InTab("subnets")
      PROVE  CalcInv'
  <2>1. /\ tab' = "subnets" /\ division' = [base |-> a, prefix |-> p, count |-> count]
        /\ subnets' = IF a = NoAddress THEN {} ELSE CreateSubnets(a, p, count)
        /\ UNCHANGED <<question, answer, generable, visible, audit, routes, route>>
    BY <1>4 DEF OnCalculateSubnets, InTab
  <2>2. count \in 0 .. MaxCount
    OBVIOUS
  <2>3. division' \in [base : Ip \cup {NoAddress}, prefix : Prefix, count : 0 .. MaxCount]
    BY <2>1, <2>2
  <2>4. subnets' \subseteq Cidr
    BY <2>1, SubnetsAreTyped
  <2>5. subnets' # {} =>
          /\ division'.base \in Ip /\ division'.count \in 2 .. MaxCount
          /\ subnets' = CreateSubnets(division'.base, division'.prefix, division'.count)
    BY <2>1
  <2> QED
    BY <2>1, <2>3, <2>4, <2>5 DEF CalcInv, CalcTypeOK
<1>5. ASSUME NEW S \in InputLists, OnAggregateCIDR(S), InTab("aggregation") PROVE CalcInv'
  <2>1. /\ tab' = "aggregation" /\ routes' = S
        /\ route' = IF S = {} THEN NoRoute ELSE Aggregate(S)
        /\ UNCHANGED <<question, answer, generable, visible, audit, division, subnets>>
    BY <1>5 DEF OnAggregateCIDR, InTab
  <2>2. route' \in Cidr \cup {NoRoute}
    BY ListAssumption, <2>1, AggregateIsTyped
  <2> QED
    BY ListAssumption, <2>1, <2>2 DEF CalcInv, CalcTypeOK
<1>6. CASE UNCHANGED calcVars
  BY <1>6 DEF calcVars, CalcInv, CalcTypeOK
<1> QED
  BY <1>1, <1>2, <1>3, <1>4, <1>5, <1>6 DEF CalcStep

\* What the page shows is what the words mean, for every width of an address:
\* the list has the hosts of the network, the parts tile it, and the combined
\* route is the tightest around the addresses listed (calculate, generateRange,
\* createSubnets, aggregate).
THEOREM PageIsRight == CalcSpec => []AnswersAreRight
<1>1. ASSUME CalcInv PROVE AuditListsHosts
  <2> SUFFICES ASSUME audit # {}
               PROVE  LET network == Block([base |-> question[1], prefix |-> question[2]])
                      IN  audit = network \ {Least(network), Most(network)}
    BY DEF AuditListsHosts
  <2>1. PICK a \in Ip, p \in Prefix : a = question[1] /\ p = question[2]
    BY <1>1 DEF CalcInv, CalcTypeOK
  <2>2. /\ answer = Calculate(a, p) /\ Audible(answer.usable)
        /\ audit = GenerateRange(answer.first, answer.last)
    BY <1>1, <2>1 DEF CalcInv
  <2> QED
    BY <2>1, <2>2, RangeHasHosts
<1>2. ASSUME CalcInv PROVE SubnetsTile
  <2> SUFFICES ASSUME subnets # {}, division.base = Masked(division.base, division.prefix),
                      2 ^ Bits(division.count) = division.count
               PROVE  LET network == [base |-> division.base, prefix |-> division.prefix]
                      IN  /\ UNION {Block(s) : s \in subnets} = Block(network)
                          /\ \A s, t \in subnets : s # t => Block(s) \cap Block(t) = {}
    BY DEF SubnetsTile
  <2>1. PICK a \in Ip, p \in Prefix, count \in 2 .. MaxCount :
           a = division.base /\ p = division.prefix /\ count = division.count
    BY <1>2 DEF CalcInv, CalcTypeOK
  <2>2. subnets = CreateSubnets(a, p, count)
    BY <1>2, <2>1 DEF CalcInv
  <2> QED
    BY <2>1, <2>2, PartsTile
<1>3. ASSUME CalcInv PROVE RouteIsTight
  <2>1. routes \in SUBSET Line /\ (routes # {} => route = Aggregate(routes))
    BY <1>3 DEF CalcInv, CalcTypeOK
  <2>2. Addresses(routes) # {} => routes # {}
    BY DEF Addresses
  <2> QED
    BY <2>1, <2>2, AggregateIsTight DEF RouteIsTight
<1>4. CalcInv => AnswersAreRight
  BY <1>1, <1>2, <1>3 DEF AnswersAreRight
<1>5. CalcInv /\ [CalcStep]_calcVars => CalcInv'
  BY CalcKept
<1> QED
  BY <1>4, <1>5, CalcStart, PTL DEF CalcSpec

-----------------------------------------------------------------------------
(* The tools together.                                                     *)

\* In a behaviour of the tools, each part behaves as it does alone.
LEMMA PartsStart ==
    Init => /\ VendorInit /\ NamesInit /\ RouterInit /\ AuditInit /\ TrafficInit
            /\ SweepInit /\ IntelInit /\ StoreInit /\ CalcInit
BY DEF Init

LEMMA PartsMove ==
    ASSUME [Next]_vars
    PROVE  /\ [VendorStep]_vendorVars /\ [NamesStep]_nameVars /\ [RouterStep]_routerVars
           /\ [AuditStep]_auditVars /\ [TrafficStep]_trafficVars
           /\ [SweepStep]_sweepVars /\ [IntelStep]_intelVars /\ [StoreStep]_storeVars
           /\ [CalcStep]_calcVars
<1>1. CASE Next
  BY <1>1 DEF Next, Vendors, Names, Router, Audit, VulnerabilitySweep, Intelligence,
     Accounting, Store, Calculator
<1>2. CASE UNCHANGED vars
  BY <1>2 DEF vars
<1> QED
  BY <1>1, <1>2

\* What was proved of the parts holds of the tools.
THEOREM ToolsAreCorrect ==
    Spec => /\ []NeverAsksTwice /\ []NoWorkerOutlivesCall /\ EvidenceIsKept
            /\ []AuditNeverStalls /\ []CompleteMeansAll /\ []LastTargetIsShown
            /\ HistoryIsKept /\ []NoPhantomTraffic /\ []NoSampleLost
            /\ []AnswersAreRight
<1>1. Spec => /\ VendorSpec /\ NamesSpec /\ RouterSpec /\ AuditSpec /\ TrafficSpec
              /\ SweepSpec /\ IntelSpec /\ StoreSpec /\ CalcSpec
  BY PartsStart, PartsMove, PTL
     DEF Spec, VendorSpec, NamesSpec, RouterSpec, AuditSpec, TrafficSpec, SweepSpec, IntelSpec,
         StoreSpec, CalcSpec
<1> QED
  BY <1>1, AsksOnce, NamesAreJoined, EvidenceStays, AuditGoesOn, SweepsAreComplete,
     LastLookupIsShown, HistoryStays, NoPhantom, SamplesAreKept,
     PageIsRight, PTL
=============================================================================
