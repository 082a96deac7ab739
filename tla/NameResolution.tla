--------------------------- MODULE NameResolution ---------------------------
(***************************************************************************)
(* The names of devices, src/core/HostnameResolver.cpp, and step 4 of a    *)
(* scan, which asks for them.                                              *)
(*                                                                         *)
(* resolveAll gives every address a worker of a pool; a worker starts one  *)
(* sub-thread per protocol and takes the first name.  Three waits have a   *)
(* limit of their own (the worker's condition, its sub-pool, the pool),    *)
(* and a sub-thread may be later than all of them: what it writes to lives *)
(* on the stack of a function that has stopped waiting.                    *)
(*                                                                         *)
(* A name is modelled by who sent it and over which protocol.  A time-out  *)
(* may strike whenever something is waited for.                            *)
(***************************************************************************)
EXTENDS Naturals, FiniteSets

CONSTANTS
    Host,       \* addresses of the network
    Layer,      \* the protocols that are asked: some of "mdns", "nbns", ...
    NameServer, \* the first name server of resolv.conf
    Nobody,     \* no sender, no name
    PoolSize    \* workers at a time

ASSUME NamesAssumption ==
    /\ NameServer \notin Host /\ Nobody \notin Host \cup {NameServer}
    /\ Layer \subseteq {"mdns", "nbns", "llmnr", "rdns", "ssdp"} /\ IsFiniteSet(Layer)
    /\ PoolSize \in Nat \ {0}

VARIABLES
    hostname,   \* the name of each listed device
    resolving,  \* m_hostnameResolvingInProgress
    call,       \* where resolveAll is
    worker,     \* where the PerDeviceRunnable of each address is
    layer,      \* where each sub-thread is
    shared,     \* hostname in the SharedResult of each address
    results,    \* the map that resolveAll returns
    moved       \* it was moved out before the pool's destructor ran

nameVars == <<hostname, resolving, call, worker, layer, shared, results, moved>>

-----------------------------------------------------------------------------

Sender == Host \cup {NameServer}
Name == [from : Sender, via : Layer \cup {"sniffer", "vendor"}]
NoHostname == [from |-> Nobody, via |-> "none"]

\* A sub-thread of SSDP has heard what the device says it is (SERVER), or
\* where its description is (LOCATION, on any host), before it ends.
LayerAt == {"off", "asked", "server"} \X {Nobody} \cup {"described"} \X Host
Off == <<"off", Nobody>>
Asked == <<"asked", Nobody>>

NamesTypeOK ==
    /\ hostname \in [Host -> Name \cup {NoHostname}] /\ resolving \in BOOLEAN
    /\ call \in {"none", "wait", "return"} /\ moved \in BOOLEAN
    /\ worker \in [Host -> {"off", "queued", "wait", "drain", "join"}]
    /\ \A h \in Host, l \in Layer : layer[h][l] \in LayerAt
    /\ shared \in [Host -> Name \cup {NoHostname}]
    /\ results \in [Host -> Name \cup {NoHostname}]

NoNames == [h \in Host |-> NoHostname]

NamesInit ==
    /\ hostname = NoNames /\ resolving = FALSE
    /\ call = "none" /\ moved = FALSE
    /\ worker = [h \in Host |-> "off"]
    /\ layer = [h \in Host |-> [l \in Layer |-> Off]]
    /\ shared = NoNames /\ results = NoNames

-----------------------------------------------------------------------------
(* Step 4 and the pool.                                                    *)

Nameless == {h \in Host : hostname[h] = NoHostname}

\* step4_fingerprint starts a batch, unless one runs or all have names.
StartBatch ==
    /\ ~resolving /\ Nameless # {}
    /\ resolving' = TRUE /\ call' = "wait"
    /\ worker' = [h \in Host |-> IF h \in Nameless THEN "queued" ELSE "off"]
    /\ results' = NoNames /\ moved' = FALSE
    /\ UNCHANGED <<hostname, layer, shared>>

\* A thread of the pool takes a worker, which starts its sub-threads.
StartWorker(h) ==
    /\ worker[h] = "queued"
    /\ Cardinality({other \in Host : worker[other] \in {"wait", "drain", "join"}}) < PoolSize
    /\ worker' = [worker EXCEPT ![h] = "wait"]
    /\ layer' = [layer EXCEPT ![h] = [l \in Layer |-> Asked]]
    /\ shared' = [shared EXCEPT ![h] = NoHostname]
    /\ UNCHANGED <<hostname, resolving, call, results, moved>>

LayersDone(h) == \A l \in Layer : layer[h][l] = Off

\* The wait for the first name or the last layer, which ends in any case.
WorkerWakes(h) ==
    /\ worker[h] = "wait" /\ worker' = [worker EXCEPT ![h] = "drain"]
    /\ UNCHANGED <<hostname, resolving, call, layer, shared, results, moved>>

\* After waitForDone, whether it was done or not: the name is copied.
WorkerReports(h) ==
    /\ worker[h] = "drain" /\ worker' = [worker EXCEPT ![h] = "join"]
    /\ results' =
          IF shared[h] = NoHostname \/ moved THEN results
          ELSE [results EXCEPT ![h] = shared[h]]
    /\ UNCHANGED <<hostname, resolving, call, layer, shared, moved>>

\* The destructor of the sub-pool waits for its threads, without a limit.
WorkerJoins(h) ==
    /\ worker[h] = "join" /\ LayersDone(h)
    /\ worker' = [worker EXCEPT ![h] = "off"]
    /\ UNCHANGED <<hostname, resolving, call, layer, shared, results, moved>>

\* The pool's waitForDone returns, by its limit or not.  Whether the map is
\* moved to the caller now, or built in its place, is the compiler's choice.
ResolveReturns ==
    /\ call = "wait" /\ call' = "return" /\ moved' \in BOOLEAN
    /\ UNCHANGED <<hostname, resolving, worker, layer, shared, results>>

\* Mutant of PoolDrained: the limited wait is believed to be enough.
PoolDrainedAnyway == TRUE

\* The destructor of the pool waits for all workers.
PoolDrained == \A h \in Host : worker[h] = "off"

\* Step 4 has the map.  Names that came in the meantime stay; a device of a
\* known vendor that gave no name is called after it.
ApplyNames ==
    /\ call = "return" /\ PoolDrained /\ call' = "none" /\ resolving' = FALSE
    /\ \E labelled \in SUBSET Host :
          hostname' = [h \in Host |->
              IF hostname[h] # NoHostname THEN hostname[h]
              ELSE IF results[h] # NoHostname THEN results[h]
              ELSE IF h \in labelled THEN [from |-> h, via |-> "vendor"]
              ELSE NoHostname]
    /\ UNCHANGED <<worker, layer, shared, results, moved>>

\* A name that the sniffer saw.
NameSeen(h) ==
    /\ hostname[h] = NoHostname
    /\ hostname' = [hostname EXCEPT ![h] = [from |-> h, via |-> "sniffer"]]
    /\ UNCHANGED <<resolving, call, worker, layer, shared, results, moved>>

\* The device list is cleared, and the device found again.
Relisted(h) ==
    /\ hostname[h] # NoHostname
    /\ hostname' = [hostname EXCEPT ![h] = NoHostname]
    /\ UNCHANGED <<resolving, call, worker, layer, shared, results, moved>>

-----------------------------------------------------------------------------
(* The sub-threads.                                                        *)

\* The end of a sub-thread, under the mutex of the SharedResult: the first
\* name counts.
Ends(h, l, name) ==
    /\ layer' = [layer EXCEPT ![h][l] = Off]
    /\ shared' = IF shared[h] = NoHostname THEN [shared EXCEPT ![h] = name] ELSE shared
    /\ UNCHANGED <<hostname, resolving, call, worker, results, moved>>

Found(h, l, from) == Ends(h, l, [from |-> from, via |-> l])

\* recvfrom times out, or the query cannot be sent.
NoAnswer(h, l) == layer[h][l] = Asked /\ Ends(h, l, NoHostname)

\* tryMDNS skips what others send, and answers without a name; the identifier
\* of an answer is compared with itself.
TryMDNS(h) == layer[h]["mdns"] = Asked /\ Found(h, "mdns", h)

\* tryNBNS and tryLLMNR take one datagram: another's is no name (NoAnswer).
TryUnicast(h, l) ==
    /\ l \in {"nbns", "llmnr"} /\ layer[h][l] = Asked
    /\ Found(h, l, h)

\* tryReverseDNS: the identifier is all that is compared.
TryReverseDNS(h) == layer[h]["rdns"] = Asked /\ Found(h, "rdns", NameServer)

Hears(h, what) ==
    /\ layer' = [layer EXCEPT ![h]["ssdp"] = what]
    /\ UNCHANGED <<hostname, resolving, call, worker, shared, results, moved>>

\* trySSDPUPnP, its receive loop: a response of the device with a LOCATION
\* ends it, one without only tells the SERVER.
TrySSDP(h) ==
    /\ layer[h]["ssdp"][1] \in {"asked", "server"}
    /\ \/ layer[h]["ssdp"] = Asked /\ Hears(h, <<"server", Nobody>>)
       \/ \E other \in Host : Hears(h, <<"described", other>>)
       \/ Found(h, "ssdp", h)
       \/ Ends(h, "ssdp", NoHostname)

\* The description is fetched from the host that LOCATION names.  Every read
\* starts the time-out anew, so that a slow host can take as long as it likes.
FetchDescription(h) ==
    /\ layer[h]["ssdp"][1] = "described"
    /\ \/ Found(h, "ssdp", layer[h]["ssdp"][2])
       \/ Ends(h, "ssdp", NoHostname)

NamesStep ==
    \/ StartBatch \/ ResolveReturns \/ ApplyNames
    \/ \E h \in Host :
          \/ StartWorker(h) \/ WorkerWakes(h) \/ WorkerReports(h) \/ WorkerJoins(h)
          \/ NameSeen(h) \/ Relisted(h)
          \/ \E l \in Layer : NoAnswer(h, l) \/ TryUnicast(h, l)
          \/ "mdns" \in Layer /\ TryMDNS(h)
          \/ "rdns" \in Layer /\ TryReverseDNS(h)
          \/ "ssdp" \in Layer /\ (TrySSDP(h) \/ FetchDescription(h))

NamesSpec == NamesInit /\ [][NamesStep]_nameVars

-----------------------------------------------------------------------------

\* When step 4 has its names, nothing of the batch is left: no worker and no
\* sub-thread that could still write to the map, or to the shared result of a
\* worker, although each of the three waits of resolveAll and
\* PerDeviceRunnable::run may give up before the threads do.
NoWorkerOutlivesCall ==
    call = "none" => \A h \in Host : worker[h] = "off" /\ LayersDone(h)
=============================================================================
