---------------------------- MODULE VendorLookup ----------------------------
(***************************************************************************)
(* The vendor of a MAC, src/core/MacVendorManager.cpp: a fixed table, the  *)
(* IEEE list loaded from oui.csv, a cache in SQLite, and a queue of        *)
(* requests to a web service that allows about one per second.             *)
(*                                                                         *)
(* lookupVendor runs in the network thread and in the thread of a scan;    *)
(* replies arrive in the manager's thread; the list is parsed by threads   *)
(* of their own.  A look-up reads the cache first and asks for a request   *)
(* later: what it read may be out of date by then.                         *)
(***************************************************************************)
EXTENDS Naturals, Sequences, SequencesExt

CONSTANTS
    Oui,         \* prefixes of MACs
    Caller,      \* threads that call lookupVendor
    StaticOui,   \* prefixes in the fixed table
    LocalOui,    \* prefixes with the locally-administered bit
    ListedOui,   \* prefixes in the IEEE list
    Boilerplate, \* corporate suffixes at the end of each registered name
    Unknown,     \* "Unknown Vendor"
    NoName,      \* no entry
    NoOui,       \* no request, no look-up
    Partial,     \* an oui.csv whose writing was cut off
    MaxQueue,    \* kMaxQueueSize
    MaxList      \* bound on the editions of the IEEE list

ASSUME VendorAssumption ==
    /\ StaticOui \subseteq Oui /\ LocalOui \subseteq Oui /\ ListedOui \subseteq Oui
    /\ Boilerplate \in [Oui -> Nat]
    /\ NoOui \notin Oui
    /\ Unknown \notin Nat /\ NoName \notin Nat /\ Unknown # NoName
    /\ Partial \notin Nat
    /\ MaxQueue \in Nat /\ MaxList \in Nat

VARIABLES
    loader,      \* the thread that loadLocalDatabase runs in: "start" or "done"
    csv,         \* oui.csv: an edition, 0 when there is none, or Partial
    csvOld,      \* it is a week old
    downloading, \* m_downloadInProgress
    parsing,     \* editions that threads are parsing
    ouiTable,    \* m_ouiTable, by the edition it holds
    cache,       \* the table oui_cache
    cacheReady,  \* m_cacheDbReady
    apiQueue,    \* m_apiQueue
    apiPending,  \* m_apiPending
    negative,    \* m_negativeCache
    inFlight,    \* the request that m_apiRequestInFlight is about
    apiTimer,    \* m_apiTimer runs
    resolved,    \* vendorResolved signals on their way
    lookup,      \* where each caller is in lookupVendor
    shown        \* the vendor in the device list, NoName where no device is listed

listVars == <<loader, csv, csvOld, downloading, parsing, ouiTable>>
apiVars == <<apiQueue, apiPending, negative, inFlight, apiTimer>>
vendorVars ==
    <<listVars, cache, cacheReady, apiVars, resolved, lookup, shown>>

-----------------------------------------------------------------------------

\* A name is abstracted to the number of suffixes ("Networks", "Inc.") that it
\* still ends in.
VendorName == Nat \cup {Unknown}
Edition == 0 .. MaxList \cup {Partial}
Signal == [oui : Oui, name : Nat]
Idle == [at |-> "idle", oui |-> NoOui, name |-> NoName]

VendorTypeOK ==
    /\ loader \in {"start", "done"} /\ csvOld \in BOOLEAN /\ downloading \in BOOLEAN
    /\ csv \in Edition /\ ouiTable \in Edition /\ parsing \subseteq Edition
    /\ cache \in [Oui -> VendorName \cup {NoName}] /\ cacheReady \in BOOLEAN
    /\ apiQueue \in Seq(Oui) /\ apiPending \subseteq Oui /\ negative \subseteq Oui
    /\ inFlight \in Oui \cup {NoOui} /\ apiTimer \in BOOLEAN
    /\ resolved \in Seq(Signal)
    /\ \A c \in Caller :
        \/ lookup[c] = Idle
        \/ /\ lookup[c].at \in {"enqueue", "write back"}
           /\ lookup[c].oui \in Oui /\ lookup[c].name \in VendorName \cup {NoName}
    /\ shown \in [Oui -> VendorName \cup {NoName}]

\* normalizeVendorName takes off one suffix, the longest that fits.
Normalized(name) == IF name \in Nat /\ name > 0 THEN name - 1 ELSE name

\* The process after a start: nothing is pending, the table is empty.
Started ==
    /\ loader' = "start" /\ downloading' = FALSE /\ parsing' = {} /\ ouiTable' = 0
    /\ apiQueue' = << >> /\ apiPending' = {} /\ negative' = {}
    /\ inFlight' = NoOui /\ apiTimer' = TRUE
    /\ resolved' = << >>
    /\ lookup' = [c \in Caller |-> Idle]
    /\ shown' = [o \in Oui |-> NoName]

VendorInit ==
    /\ loader = "start" /\ downloading = FALSE /\ parsing = {} /\ ouiTable = 0
    /\ apiQueue = << >> /\ apiPending = {} /\ negative = {}
    /\ inFlight = NoOui /\ apiTimer = TRUE
    /\ resolved = << >>
    /\ lookup = [c \in Caller |-> Idle]
    /\ shown = [o \in Oui |-> NoName]
    /\ csv = 0 /\ csvOld = FALSE
    /\ cache = [o \in Oui |-> NoName] /\ cacheReady = TRUE

-----------------------------------------------------------------------------
(* The IEEE list.                                                          *)

\* downloadOuiDatabase: one at a time.
Download == downloading' = TRUE

\* loadLocalDatabase, in its thread; without a file it asks for a download.
LoadLocalDatabase ==
    /\ loader = "start" /\ loader' = "done"
    /\ \/ csv = 0 /\ Download /\ UNCHANGED parsing
       \/ csv # 0 /\ parsing' = parsing \cup {csv} /\ UNCHANGED downloading
    /\ UNCHANGED <<csv, csvOld, ouiTable, cache, cacheReady, apiVars, resolved, lookup, shown>>

\* parseOuiCsv replaces the whole table at its end.
ParseOuiCsv ==
    /\ \E e \in parsing : ouiTable' = e /\ parsing' = parsing \ {e}
    /\ UNCHANGED <<loader, csv, csvOld, downloading, cache, cacheReady, apiVars, resolved, lookup, shown>>

\* The weekly check, after 10 s and then every 24 h.
ScheduleWeeklyUpdate ==
    /\ csv = 0 \/ csvOld
    /\ ~downloading /\ Download
    /\ UNCHANGED <<loader, csv, csvOld, parsing, ouiTable, cache, cacheReady, apiVars, resolved, lookup, shown>>

\* A whole answer is the next edition of the list, saved if the file can be
\* written; an error or a short answer only releases the guard.
Downloaded ==
    /\ downloading /\ downloading' = FALSE
    /\ \/ \E e \in 1 .. MaxList :
            /\ \A seen \in ({csv, ouiTable} \cup parsing) \ {Partial} : seen < e
            /\ \/ csv' = e /\ csvOld' = FALSE
               \/ UNCHANGED <<csv, csvOld>>
            /\ parsing' = parsing \cup {e}
       \/ UNCHANGED <<csv, csvOld, parsing>>
    /\ UNCHANGED <<loader, ouiTable, cache, cacheReady, apiVars, resolved, lookup, shown>>

\* lastModified is a week ago.
CsvAges ==
    /\ csv # 0 /\ ~csvOld /\ csvOld' = TRUE
    /\ UNCHANGED <<loader, csv, downloading, parsing, ouiTable, cache, cacheReady, apiVars, resolved, lookup, shown>>

-----------------------------------------------------------------------------
(* lookupVendor, step by step.                                             *)

\* The fixed table and the IEEE list; a list that was cut off knows nothing.
InTables(o) == o \in StaticOui \/ (o \in ListedOui /\ ouiTable \in 1 .. MaxList)

Returns(o, name) == shown' = [shown EXCEPT ![o] = name]

\* The tables and the cache are read.
Lookup(c, o) ==
    /\ lookup[c] = Idle
    /\ LET cached == IF cacheReady THEN cache[o] ELSE NoName
           to(at, name) == lookup' = [lookup EXCEPT ![c] = [at |-> at, oui |-> o, name |-> name]]
       IN  \/ InTables(o) /\ Returns(o, 0) /\ UNCHANGED lookup
           \/ /\ ~InTables(o) /\ cached # NoName
              /\ IF Normalized(cached) = cached
                   THEN Returns(o, cached) /\ UNCHANGED lookup
                   ELSE to("write back", Normalized(cached)) /\ UNCHANGED shown
           \/ /\ ~InTables(o) /\ cached = NoName
              /\ IF o \in LocalOui
                   THEN Returns(o, Unknown) /\ UNCHANGED lookup
                   ELSE to("enqueue", Unknown) /\ UNCHANGED shown
    /\ UNCHANGED <<listVars, cache, cacheReady, apiVars, resolved>>

Leave(c) ==
    /\ lookup' = [lookup EXCEPT ![c] = Idle]
    /\ Returns(lookup[c].oui, lookup[c].name)

\* The name is stored as it was cleaned.
WriteBack(c) ==
    /\ lookup[c].at = "write back" /\ Leave(c)
    /\ cache' = [cache EXCEPT ![lookup[c].oui] = lookup[c].name]
    /\ UNCHANGED <<listVars, cacheReady, apiVars, resolved>>

Wanted(o) == o \notin apiPending \cup negative /\ Len(apiQueue) < MaxQueue

\* enqueueApiLookup, which has the queue's mutex.
Enqueue(c) ==
    /\ lookup[c].at = "enqueue" /\ Leave(c)
    /\ IF Wanted(lookup[c].oui)
         THEN /\ apiPending' = apiPending \cup {lookup[c].oui}
              /\ apiQueue' = Append(apiQueue, lookup[c].oui)
         ELSE UNCHANGED <<apiPending, apiQueue>>
    /\ UNCHANGED <<listVars, cache, cacheReady, negative, inFlight, apiTimer, resolved>>

-----------------------------------------------------------------------------
(* The web service.                                                        *)

\* processApiQueue, at a tick of the timer.
ProcessApiQueue ==
    /\ apiTimer /\ inFlight = NoOui /\ apiQueue # << >>
    /\ inFlight' = Head(apiQueue) /\ apiQueue' = Tail(apiQueue)
    /\ UNCHANGED <<listVars, cache, cacheReady, apiPending, negative, apiTimer, resolved, lookup, shown>>

\* cacheVendor.
CacheVendor(o, name) ==
    cache' = IF cacheReady THEN [cache EXCEPT ![o] = name] ELSE cache

\* Mutant of Forgotten: an answered request may be asked again.
ForgottenOnSuccess == apiPending \ {inFlight}

\* What remains pending when a name was found: everything.
Forgotten == apiPending

ReplyFound ==
    /\ inFlight # NoOui /\ inFlight' = NoOui
    /\ LET name == Normalized(Boilerplate[inFlight])
       IN  /\ CacheVendor(inFlight, name)
           /\ resolved' = Append(resolved, [oui |-> inFlight, name |-> name])
    /\ apiPending' = Forgotten
    /\ UNCHANGED <<listVars, cacheReady, apiQueue, negative, apiTimer, lookup, shown>>

\* 404.
ReplyUnregistered ==
    /\ inFlight # NoOui /\ inFlight' = NoOui
    /\ CacheVendor(inFlight, Unknown)
    /\ negative' = negative \cup {inFlight}
    /\ UNCHANGED <<listVars, cacheReady, apiQueue, apiPending, apiTimer, resolved, lookup, shown>>

\* 429: the request goes back to the front, and the timer stops for 5 s.
ReplyRateLimited ==
    /\ inFlight # NoOui /\ inFlight' = NoOui
    /\ apiQueue' = <<inFlight>> \o apiQueue /\ apiTimer' = FALSE
    /\ UNCHANGED <<listVars, cache, cacheReady, apiPending, negative, resolved, lookup, shown>>

TimerRestarts ==
    /\ ~apiTimer /\ apiTimer' = TRUE
    /\ UNCHANGED <<listVars, cache, cacheReady, apiQueue, apiPending, negative, inFlight, resolved, lookup, shown>>

\* Any other error, a time-out included: somebody may ask again.
ReplyFailed ==
    /\ inFlight # NoOui /\ inFlight' = NoOui
    /\ apiPending' = apiPending \ {inFlight}
    /\ UNCHANGED <<listVars, cache, cacheReady, apiQueue, negative, apiTimer, resolved, lookup, shown>>

\* NetworkManager's handler: only a device without a vendor takes the name.
VendorResolved ==
    /\ resolved # << >> /\ resolved' = Tail(resolved)
    /\ LET signal == Head(resolved)
       IN  IF shown[signal.oui] = Unknown THEN Returns(signal.oui, signal.name) ELSE UNCHANGED shown
    /\ UNCHANGED <<listVars, cache, cacheReady, apiVars, lookup>>

\* A restart; when it is a crash, oui.csv may have been in the middle of
\* being written, and then it is new but not whole.
VendorRestart ==
    /\ Started
    /\ \/ UNCHANGED <<csv, csvOld>>
       \/ downloading /\ csv' = Partial /\ csvOld' = FALSE
    /\ cacheReady' \in BOOLEAN
    /\ UNCHANGED cache

VendorStep ==
    \/ LoadLocalDatabase \/ ParseOuiCsv \/ ScheduleWeeklyUpdate \/ Downloaded \/ CsvAges
    \/ \E c \in Caller : (\E o \in Oui : Lookup(c, o)) \/ WriteBack(c) \/ Enqueue(c)
    \/ ProcessApiQueue \/ ReplyFound \/ ReplyUnregistered \/ ReplyRateLimited \/ ReplyFailed
    \/ TimerRestarts \/ VendorResolved \/ VendorRestart

VendorSpec == VendorInit /\ [][VendorStep]_vendorVars

-----------------------------------------------------------------------------

Requested == ToSet(apiQueue) \cup ({inFlight} \ {NoOui})

\* The service is asked once about a prefix: no two requests about one prefix
\* wait or run, and none is about a prefix whose answer is cached, although a
\* caller decides to ask before it has the queue's mutex, and the answer of
\* another's request may come in between (lookupVendor, enqueueApiLookup,
\* processApiQueue).
NeverAsksTwice ==
    /\ IsInjective(apiQueue) /\ inFlight \notin ToSet(apiQueue)
    /\ cacheReady => \A o \in Requested : cache[o] = NoName
=============================================================================
