------------------------------ MODULE Traffic ------------------------------
(***************************************************************************)
(* Bytes per device: src/core/TrafficMonitor.cpp counts them per address,  *)
(* and src/core/BandwidthEngine.cpp turns snapshots of its counters into   *)
(* totals per MAC, with a map from addresses to MACs that NetworkManager   *)
(* pushes.  The capture thread counts; snapshots and maps reach the        *)
(* network thread as queued events, so that a snapshot may be older than   *)
(* the latest reset, and a map older than the latest change of addresses.  *)
(*                                                                         *)
(* Downloads are modelled; uploads are counted alike, and here only create *)
(* entries.  Rates, peaks and names are copies of what is modelled here.   *)
(***************************************************************************)
EXTENDS Naturals, Sequences

CONSTANTS
    Device,      \* MACs
    IP,          \* their addresses
    None,        \* no MAC, no address, no entry
    Uses,        \* pairs <<ip, device>>: who may use which address
    MaxBytes,    \* bound on what each device receives
    MaxUpdates,  \* bound on the events on their way to the network thread
    MaxTotal     \* bound on the bytes of a record

ASSUME TrafficAssumption ==
    /\ Device \cap IP = {} /\ None \notin Device \cup IP
    /\ Uses \subseteq IP \X Device
    /\ None \notin Nat
    /\ MaxBytes \in [Device -> Nat] /\ MaxUpdates \in Nat \ {0} /\ MaxTotal \in Nat

VARIABLES
    carried,     \* bytes a device really received; no variable of the code
    counter,     \* totalBytesDown in m_deviceStats, for the addresses it has
    updates,     \* trafficUpdated signals and updateMacIpMap calls on their way
    ipToMac,     \* m_ipToMac
    total,       \* rxTotal in m_records
    prev         \* prevTotalBytesDown in m_records

trafficVars == <<carried, counter, updates, ipToMac, total, prev>>

-----------------------------------------------------------------------------

\* A record belongs to a MAC, or to an address ("ip:...") while its MAC is
\* not known.  A record without bytes is like none.
Key == Device \cup IP
Counters == [IP -> Nat \cup {None}]
Place == [Device -> IP \cup {None}]
Update == [kind : {"stats"}, counter : Counters] \cup [kind : {"map"}, place : Place]

\* updateMacIpMap starts from an empty map: a MAC has one address in it, so
\* that a record is fed from one counter at a time.
TrafficTypeOK ==
    /\ carried \in [Device -> Nat] /\ \A m \in Device : carried[m] <= MaxBytes[m]
    /\ counter \in Counters
    /\ updates \in Seq(Update) /\ Len(updates) <= MaxUpdates
    /\ ipToMac \in [IP -> Device \cup {None}]
    /\ \A i, j \in IP : ipToMac[i] = ipToMac[j] => i = j \/ ipToMac[i] = None
    /\ total \in [Key -> Nat]
    /\ prev \in [Key -> Nat]

TrafficInit ==
    /\ carried = [m \in Device |-> 0]
    /\ counter = [ip \in IP |-> None]
    /\ updates = << >>
    /\ ipToMac = [ip \in IP |-> None]
    /\ total = [k \in Key |-> 0]
    /\ prev = [k \in Key |-> 0]

-----------------------------------------------------------------------------
(* The monitor.                                                            *)

\* m_deviceStats[ip] += size, which makes an entry where there is none.
Credited(ip, size) ==
    [counter EXCEPT ![ip] = IF @ = None THEN size ELSE @ + size]

\* processPacket.
Packet(ip, m) ==
    /\ <<ip, m>> \in Uses
    /\ \/ /\ carried[m] < MaxBytes[m]
          /\ carried' = [carried EXCEPT ![m] = @ + 1]
          /\ counter' = Credited(ip, 1)
       \/ counter' = Credited(ip, 0) /\ UNCHANGED carried
    /\ UNCHANGED <<updates, ipToMac, total, prev>>

Posted(update) == Len(updates) < MaxUpdates /\ updates' = Append(updates, update)

\* calculateRates, every second.
CalculateRates ==
    /\ Posted([kind |-> "stats", counter |-> counter])
    /\ UNCHANGED <<carried, counter, ipToMac, total, prev>>

\* resetStats, when a scan finds another network.
ResetStats ==
    /\ counter' = [ip \in IP |-> None]
    /\ UNCHANGED <<carried, updates, ipToMac, total, prev>>

\* A new lease, or activate: what the leases and the device list say of the
\* place of each MAC, which may be out of date or missing.
PushMap(place) ==
    /\ \A m \in Device : place[m] = None \/ <<place[m], m>> \in Uses
    /\ Posted([kind |-> "map", place |-> place])
    /\ UNCHANGED <<carried, counter, ipToMac, total, prev>>

-----------------------------------------------------------------------------
(* The engine.                                                             *)

KeyOf(ip) == IF ipToMac[ip] = None THEN ip ELSE ipToMac[ip]

\* Mutant of Delta: a distance instead of a difference.
DeltaAbsolute(new, old) == IF new >= old THEN new - old ELSE old - new

\* A counter that fell is taken for one that was reset, and what it says now is
\* not counted; so is a smaller one of another address the map has brought.
Delta(new, old) == IF new >= old THEN new - old ELSE 0

Sources(k, stats) == {ip \in IP : stats[ip] # None /\ KeyOf(ip) = k}
Reading(k, stats) == stats[CHOOSE ip \in Sources(k, stats) : TRUE]

Account(stats) ==
    /\ prev' = [k \in Key |->
          IF Sources(k, stats) = {} THEN prev[k] ELSE Reading(k, stats)]
    /\ total' = [k \in Key |-> total[k] + Delta(prev'[k], prev[k])]

OnRawStats ==
    /\ updates # << >> /\ Head(updates).kind = "stats"
    /\ updates' = Tail(updates)
    /\ Account(Head(updates).counter)
    /\ \A k \in Key : total'[k] <= MaxTotal
    /\ UNCHANGED <<carried, counter, ipToMac>>

\* Mutant of KeptRecords: a device that changed its address gets a new record.
KeptRecordsInPlace(place) ==
    LET moved(k) == k \in Device /\ place[k] # None /\ ipToMac[place[k]] # k
    IN  /\ total' = [k \in Key |-> IF moved(k) THEN 0 ELSE total[k]]
        /\ prev' = [k \in Key |-> IF moved(k) THEN 0 ELSE prev[k]]

KeptRecords(place) == UNCHANGED <<total, prev>>

Claims(place, ip) == {m \in Device : place[m] = ip}

\* Two MACs may claim an address; the one iterated last gets it.
Mapping(place) ==
    {owner \in [IP -> Device \cup {None}] : \A ip \in IP :
        IF Claims(place, ip) = {} THEN owner[ip] = None
        ELSE owner[ip] \in Claims(place, ip)}

UpdateMacIpMap ==
    /\ updates # << >> /\ Head(updates).kind = "map"
    /\ updates' = Tail(updates)
    /\ ipToMac' \in Mapping(Head(updates).place)
    /\ KeptRecords(Head(updates).place)
    /\ UNCHANGED <<carried, counter>>

TrafficStep ==
    \/ \E u \in Uses : Packet(u[1], u[2])
    \/ CalculateRates \/ ResetStats
    \/ \E place \in Place : PushMap(place)
    \/ OnRawStats \/ UpdateMacIpMap

TrafficSpec == TrafficInit /\ [][TrafficStep]_trafficVars

-----------------------------------------------------------------------------
(* Properties.                                                             *)

\* "Carries historical totals forward if DHCP assigns a new IP": no record
\* ever loses bytes, whatever maps and snapshots arrive.
HistoryIsKept == [][\A k \in Key : total'[k] >= total[k]]_trafficVars

\* The device at ip never used another address, nor anybody else this one.
Settled(ip, m) ==
    /\ <<ip, m>> \in Uses
    /\ \A u \in Uses : u[1] = ip \/ u[2] = m => u = <<ip, m>>

\* "Detects and discards negative/wrap-around counter deltas": a device with
\* an address of its own is never charged more than it carried, neither under
\* its MAC nor under its address, with resets, stale snapshots, stale maps.
NoPhantomTraffic ==
    \A u \in Uses : Settled(u[1], u[2]) =>
        total[u[2]] <= carried[u[2]] /\ total[u[1]] <= carried[u[2]]
=============================================================================
