--------------------------- MODULE DeviceInventory ---------------------------
(***************************************************************************)
(* The list of devices of src/core/NetworkManager.cpp (m_allDevices): an   *)
(* entry per address, fed by the passive sniffer, the ARP cache and sweep, *)
(* the DHCP server's leases, ping replies and name resolvers, and aged by  *)
(* a timer.  All of it runs in the network thread, except steps 3 and 4 of *)
(* a scan, which run in a thread of their own and meet the others at       *)
(* m_resultsMutex: a step below is one locked region.                      *)
(*                                                                         *)
(* Device types, latencies and rates only decorate an entry and are left   *)
(* out; a vendor matters where it stands in for a name.  Blocking itself   *)
(* is the business of BlockEnforcement; here it is the set of blacklisted  *)
(* MACs.                                                                   *)
(***************************************************************************)
EXTENDS Naturals, FiniteSets

CONSTANTS
    IP,          \* addresses of the network
    HostIP,      \* this machine's address, m_myIpAddr
    GatewayIP,   \* the router's address, m_gatewayIp
    NoIP,
    MAC,         \* hardware addresses
    HostMAC,     \* m_myMac
    NoMAC,       \* the empty MAC of a ping reply, and of a gateway not known yet
    Checking,    \* "Checking...", the MAC of a gateway that has not answered yet
    Name,        \* hostnames
    HostName,    \* this machine's own hostname
    Unknown,     \* "Unknown", the hostname of a device without one
    Trusted,     \* the white list of the network
    Sighting,    \* pairs <<ip, mac>> that frames of the segment may show
    NameOf,      \* the hostname a device gives when asked
    Label,       \* its vendor's name, Unknown when there is none
    LeaseName,   \* hostnames in the lease file of another DHCP server
    Suspect,     \* the devices the operator may block
    Stale        \* steps of the clock until lastSeen is more than 45 s ago

Special == {HostIP, GatewayIP}
Hostname == Name \cup {Unknown}
Attainable == Hostname \cup {HostName}

ASSUME InventoryAssumption ==
    /\ Special \subseteq IP /\ HostIP # GatewayIP /\ NoIP \notin IP
    /\ HostMAC \in MAC /\ NoMAC \notin MAC /\ Checking \notin MAC /\ NoMAC # Checking
    /\ Unknown \notin Name /\ HostName \notin Name /\ HostName # Unknown
    /\ Trusted \subseteq MAC
    /\ Sighting \subseteq IP \X MAC
    /\ NameOf \in [MAC -> Name]
    /\ Label \in [MAC \cup {Checking} -> Hostname]
    /\ LeaseName \in [IP -> Hostname]
    /\ Suspect \subseteq MAC
    /\ Stale \in Nat \ {0}

VARIABLES
    dev,         \* m_allDevices
    cache,       \* m_dbDeviceCache: the hostname last stored for a MAC
    gatewayMac,  \* m_gatewayMac
    strict,      \* m_strictMode
    blacklist,   \* the blacklist of the network
    resolving    \* step 4: the addresses it resolves, or Resting

lists == <<dev, cache>>
policy == <<strict, blacklist>>
vars == <<dev, cache, gatewayMac, strict, blacklist, resolving>>

-----------------------------------------------------------------------------
(* Entries.                                                                *)

Status == {"Online", "Gateway", "Self", "Offline", "Blocked"}
None == [mac |-> NoMAC]
Entry == [mac: MAC \cup {Checking}, name: Attainable, status: Status, age: 0..Stale]
Listed(ip) == dev[ip] # None
Resting == {NoIP}

\* The lastSeen of this machine's own entry is never looked at.
Self == [mac |-> HostMAC, name |-> HostName, status |-> "Self", age |-> 0]
HostEntry(old) ==
    IF old = None THEN Self
    ELSE [old EXCEPT !.status = "Self", !.age = 0,
                     !.name = IF @ = Unknown THEN HostName ELSE @]

TypeOK ==
    /\ dev \in [IP -> Entry \cup {None}]
    /\ cache \in [MAC \cup {Checking} -> Attainable]
    /\ gatewayMac \in MAC \cup {NoMAC}
    /\ strict \in BOOLEAN
    /\ blacklist \subseteq MAC
    /\ resolving \in (SUBSET IP) \cup {Resting}

Init ==
    /\ dev = [ip \in IP |-> None]
    /\ cache = [m \in MAC \cup {Checking} |-> Unknown]
    /\ gatewayMac = NoMAC
    /\ strict = FALSE
    /\ blacklist = {}
    /\ resolving = Resting

\* Nothing reaches the list before activate() has made the first scan.
Active == Listed(HostIP)

-----------------------------------------------------------------------------
(* What merging an observation into the list depends on.                   *)

\* Mutant of Judged: the router is known by its MAC alone.
JudgedByMac(ip, mac, g) == mac # HostMAC /\ mac # g

\* Neither this machine nor the router, as the code tells with the gateway's
\* MAC g; only such a device is judged.
Judged(ip, mac, g) == ip \notin Special /\ mac # HostMAC /\ mac # g
Refused(mac) == mac \in blacklist \/ (strict /\ mac \notin Trusted)
Shown(ip, mac, g) == IF Judged(ip, mac, g) /\ Refused(mac) THEN "Blocked" ELSE "Online"

\* enforceStrictModeBlock, in gateway mode.
Enforced(ip, mac, g) ==
    IF Judged(ip, mac, g) /\ strict /\ mac \notin Trusted \cup {NoMAC}
    THEN blacklist \cup {mac}
    ELSE blacklist

\* Mutant of Departed: nobody looks for the old entry.
DepartedNever(ip, mac) == {NoIP}

\* The address a MAC leaves when it shows up at ip.  The code looks at the
\* first entry with that MAC, and leaves it alone when the host's or the
\* gateway's address is involved; which one is first depends on the spelling
\* of the addresses.
Elsewhere(ip, mac) == {q \in IP \ {ip} : dev[q].mac = mac}
Departed(ip, mac) ==
    IF mac = NoMAC \/ Elsewhere(ip, mac) = {} THEN {NoIP}
    ELSE {IF {q, ip} \cap Special = {} THEN q ELSE NoIP : q \in Elsewhere(ip, mac)}

Without(old) == [ip \in IP |-> IF ip = old THEN None ELSE dev[ip]]

\* The hostname of a new entry: its own, or the one last stored for its MAC.
Recall(name, mac) == IF name = Unknown THEN cache[mac] ELSE name

Store(rest, ip, d) ==
    /\ dev' = [rest EXCEPT ![ip] = d]
    /\ cache' = [cache EXCEPT ![d.mac] = d.name]

-----------------------------------------------------------------------------
(* Frames and ping replies: mergeArpEntry, with g the gateway's MAC.       *)

\* A known address: a status is only worked out anew for a device that was
\* offline, and the hostname stays whoever has the address now.
RefreshEntry(rest, ip, mac, g) ==
    LET returns == rest[ip].status = "Offline"
        d == [rest[ip] EXCEPT !.mac = IF mac = NoMAC THEN @ ELSE mac,
                              !.status = IF returns THEN Shown(ip, mac, g) ELSE @,
                              !.age = 0]
    IN  /\ dev' = [rest EXCEPT ![ip] = d]
        /\ cache' = IF mac = NoMAC THEN cache ELSE [cache EXCEPT ![mac] = d.name]
        /\ blacklist' = IF returns THEN Enforced(ip, mac, g) ELSE blacklist
        /\ gatewayMac' = IF ip = GatewayIP /\ mac # HostMAC THEN mac ELSE g

\* A new address; a device that moved keeps its old entry's time stamp.
InsertEntry(rest, old, ip, mac, g) ==
    LET moved == old # NoIP
    IN  /\ Store(rest, ip,
              [mac |-> mac,
               name |-> Recall(IF moved THEN dev[old].name ELSE Unknown, mac),
               status |-> Shown(ip, mac, g),
               age |-> IF moved THEN dev[old].age ELSE 0])
        /\ blacklist' = Enforced(ip, mac, g)
        /\ gatewayMac' = g

MergeArpEntry(ip, mac, g) ==
    \/ /\ mac = HostMAC /\ ip # HostIP   \* a frame this machine forwarded
       /\ gatewayMac' = g
       /\ UNCHANGED <<dev, cache, blacklist>>
    \/ /\ ~(mac = HostMAC /\ ip # HostIP)
       /\ \E old \in Departed(ip, mac) :
             IF Listed(ip) THEN RefreshEntry(Without(old), ip, mac, g)
             ELSE IF mac # NoMAC THEN InsertEntry(Without(old), old, ip, mac, g)
             ELSE gatewayMac' = g /\ UNCHANGED <<dev, cache, blacklist>>

\* onDeviceSeen, a frame the sniffer saw.
DeviceSeen(ip, mac) ==
    /\ Active
    /\ MergeArpEntry(ip, mac,
          IF ip = GatewayIP /\ mac # HostMAC THEN mac ELSE gatewayMac)
    /\ UNCHANGED <<strict, resolving>>

\* Steps 1 and 2 of a scan, an entry of the ARP cache or a reply to the sweep.
ArpReply(ip, mac) ==
    /\ Active
    /\ MergeArpEntry(ip, mac, gatewayMac)
    /\ UNCHANGED <<strict, resolving>>

\* Mutant of Unconfirmed: the gateway is not confirmed beforehand.
UnconfirmedWithGateway == IP \ {HostIP}

\* Step 3 pings what did not answer the sweep; this machine and the gateway
\* count as confirmed without an answer, whatever else answered.
Unconfirmed == IP \ Special
PingReply(ip) ==
    /\ Active
    /\ ip \in Unconfirmed
    /\ MergeArpEntry(ip, NoMAC, gatewayMac)
    /\ UNCHANGED <<strict, resolving>>

\* triggerRouterDetection reads the gateway's MAC from the kernel's ARP cache,
\* which holds neighbours and not this machine.
LearnGateway(mac) ==
    /\ Active
    /\ gatewayMac = NoMAC
    /\ <<GatewayIP, mac>> \in Sighting /\ mac # HostMAC
    /\ gatewayMac' = mac
    /\ UNCHANGED <<lists, policy, resolving>>

-----------------------------------------------------------------------------
(* Leases: addDiscoveredDevice for a device the DHCP server acknowledged.  *)

\* Mutant of LeaseDiscovered: a leased device is shown blocked, not blocked.
LeaseDiscoveredOnly(ip, mac, name) ==
    /\ Active
    /\ name \in {NameOf[mac], Unknown}
    /\ Store(dev, ip, [mac |-> mac, name |-> name,
                       status |-> Shown(ip, mac, gatewayMac), age |-> 0])
    /\ UNCHANGED <<gatewayMac, policy, resolving>>

LeaseDiscovered(ip, mac, name) ==
    /\ Active
    /\ name \in {NameOf[mac], Unknown}
    /\ \E old \in Departed(ip, mac) :
         Store(Without(old), ip,
           [mac |-> mac,
            name |-> IF Listed(ip) \/ name # Unknown THEN name
                     ELSE Recall(IF old # NoIP THEN dev[old].name ELSE Unknown, mac),
            status |-> Shown(ip, mac, gatewayMac),
            age |-> 0])
    /\ blacklist' = Enforced(ip, mac, gatewayMac)
    /\ UNCHANGED <<gatewayMac, strict, resolving>>

-----------------------------------------------------------------------------
(* Hostnames.                                                              *)

Nameless(ip) == Listed(ip) /\ dev[ip].name = Unknown

\* Mutant of WithNames: a name found meanwhile is overwritten.
WithNamesAnyway(found) ==
    [ip \in IP |-> IF Listed(ip) /\ ip \in DOMAIN found
                   THEN [dev[ip] EXCEPT !.name = found[ip]] ELSE dev[ip]]

WithNames(found) ==
    [ip \in IP |-> IF Nameless(ip) /\ ip \in DOMAIN found
                   THEN [dev[ip] EXCEPT !.name = found[ip]] ELSE dev[ip]]

\* What the devices seen at an address may answer.
Answers(ip) == {NameOf[mac] : mac \in {m \in MAC : <<ip, m>> \in Sighting}}

\* onHostnameDiscovered, from mDNS or NetBIOS traffic.
HostnameDiscovered(ip, name) ==
    /\ name \in Answers(ip)
    /\ Nameless(ip)
    /\ dev' = WithNames([q \in {ip} |-> name])
    /\ UNCHANGED <<cache, gatewayMac, policy, resolving>>

-----------------------------------------------------------------------------
(* A scan.  The threads of earlier scans may be at any stage, so that their *)
(* steps need no count of threads; only step 4 admits one at a time.        *)

\* runScan registers this machine and the gateway; a list of another network
\* is thrown away first.
GatewayEntry(old) ==
    LET mac == IF old # None THEN old.mac
               ELSE IF gatewayMac = NoMAC THEN Checking ELSE gatewayMac
    IN  [mac |-> mac,
         name |-> IF old = None THEN Recall(LeaseName[GatewayIP], mac)
                  ELSE IF old.name = Unknown THEN LeaseName[GatewayIP] ELSE old.name,
         status |-> "Gateway",
         age |-> 0]

RunScan(moved) ==
    /\ LET kept == IF moved THEN [ip \in IP |-> None] ELSE dev
            host == HostEntry(kept[HostIP])
            gw == GatewayEntry(kept[GatewayIP])
       IN  /\ dev' = [kept EXCEPT ![HostIP] = host, ![GatewayIP] = gw]
           /\ cache' = [cache EXCEPT ![host.mac] = host.name, ![gw.mac] = gw.name]
    /\ UNCHANGED <<gatewayMac, policy, resolving>>

\* The lease file is applied before the thread starts and when it ends.
EnrichFromLeases ==
    /\ dev' = WithNames(LeaseName)
    /\ UNCHANGED <<cache, gatewayMac, policy, resolving>>

\* Step 4 takes the nameless addresses, unless another thread is at it or
\* there is none.
ToProbe == {ip \in IP : Nameless(ip)}
StartStep4 ==
    /\ resolving = Resting /\ ToProbe # {}
    /\ resolving' = ToProbe
    /\ UNCHANGED <<lists, gatewayMac, policy>>

\* More than a second later the results go to the entries that are still
\* there and still nameless, whoever has the address now; a device that did
\* not answer is called by its vendor.
Results(ip) ==
    IF Listed(ip) THEN Answers(ip) \cup {Label[dev[ip].mac]} ELSE {Unknown}

FinishStep4 ==
    /\ resolving # Resting
    /\ \E found \in [resolving -> Hostname] :
         /\ \A ip \in resolving : found[ip] \in Results(ip)
         /\ dev' = WithNames(found)
    /\ resolving' = Resting
    /\ UNCHANGED <<cache, gatewayMac, policy>>

-----------------------------------------------------------------------------
(* Time, the operator, and the whole.                                      *)

\* More than 45 s pass in Stale of these steps.
Elapse ==
    /\ Active
    /\ dev' = [ip \in IP |->
                 IF ip # HostIP /\ Listed(ip) /\ dev[ip].age < Stale
                 THEN [dev[ip] EXCEPT !.age = @ + 1] ELSE dev[ip]]
    /\ dev' # dev
    /\ UNCHANGED <<cache, gatewayMac, policy, resolving>>

\* Mutant of Lapsed: silence is counted once too often.
LapsedLate(ip) ==
    Listed(ip) /\ dev[ip].status \in {"Online", "Gateway"} /\ dev[ip].age > Stale

\* cleanUpStaleDevices, every 20 s.
Lapsed(ip) ==
    /\ ip # HostIP /\ Listed(ip)
    /\ dev[ip].status \in {"Online", "Gateway"}
    /\ dev[ip].age = Stale

CleanUpStaleDevices ==
    /\ dev' = [ip \in IP |->
                 IF Lapsed(ip) THEN [dev[ip] EXCEPT !.status = "Offline"] ELSE dev[ip]]
    /\ UNCHANGED <<cache, gatewayMac, policy, resolving>>

\* The operator's refresh button.
ClearDevices ==
    /\ Active
    /\ dev' = [ip \in IP |-> IF ip = HostIP THEN Self ELSE None]
    /\ UNCHANGED <<cache, gatewayMac, policy, resolving>>

SetStrictMode(enabled) ==
    /\ strict' = enabled
    /\ UNCHANGED <<lists, gatewayMac, blacklist, resolving>>

BlockDevice(mac) ==
    /\ Active
    /\ mac \in Suspect \ {HostMAC}
    /\ blacklist' = blacklist \cup {mac}
    /\ UNCHANGED <<lists, gatewayMac, strict, resolving>>

UnblockDevice(mac) ==
    /\ blacklist' = blacklist \ {mac}
    /\ UNCHANGED <<lists, gatewayMac, strict, resolving>>

Leasable == {s \in Sighting : s[1] \notin Special /\ s[2] # HostMAC}

Next ==
    \/ \E s \in Sighting : DeviceSeen(s[1], s[2]) \/ ArpReply(s[1], s[2])
    \/ \E s \in Leasable, name \in Hostname : LeaseDiscovered(s[1], s[2], name)
    \/ \E ip \in IP : PingReply(ip) \/ (\E name \in Name : HostnameDiscovered(ip, name))
    \/ \E mac \in MAC : LearnGateway(mac) \/ BlockDevice(mac) \/ UnblockDevice(mac)
    \/ \E b \in BOOLEAN : RunScan(b) \/ SetStrictMode(b)
    \/ EnrichFromLeases \/ StartStep4 \/ FinishStep4
    \/ Elapse \/ CleanUpStaleDevices \/ ClearDevices

Spec == Init /\ [][Next]_vars

\* The timer is served, and so is the thread of step 4.
Fairness == WF_vars(CleanUpStaleDevices) /\ WF_vars(FinishStep4)
FairSpec == Spec /\ Fairness

-----------------------------------------------------------------------------
(* Properties.                                                             *)

\* What the segment shows at an ordinary address only.
Ordinary == {mac \in MAC : \A s \in Sighting : s[2] = mac => s[1] \notin Special}

\* An ordinary device has one entry, under its latest address, whichever of
\* the six sources reported the move; this machine has none but its own,
\* although the frames it forwards carry its MAC and the senders' addresses.
OneEntryPerDevice ==
    \A p, q \in IP :
        Listed(p) /\ Listed(q) /\ dev[p].mac = dev[q].mac /\ p # q =>
            dev[p].mac \notin Ordinary /\ dev[p].mac # HostMAC

\* Default deny never cuts off the router or this machine: neither is listed
\* as blocked, nor blacklisted unless the operator did it, also before the
\* router's MAC is known and after the list was cleared.
RouterNeverBlocked ==
    /\ Listed(GatewayIP) => dev[GatewayIP].status # "Blocked"
    /\ HostMAC \notin blacklist
    /\ \A mac \in blacklist : mac \in Suspect \/ \E s \in Sighting : s[2] = mac /\ s[1] \notin Special

\* Once known, the router's MAC, the key of all that is stored about a
\* network, is never forgotten, not even by a reply without a MAC.  The window
\* in which a new scan has cleared m_confirmedIps and not yet put the router
\* back, with an older scan still at its third step, is not modelled.
GatewayStaysKnown == [][gatewayMac # NoMAC => gatewayMac' # NoMAC]_vars

\* The name of an entry, once found, is only replaced by a DHCP lease or
\* with the entry: a slow resolver does not overwrite what came meanwhile.
NamesAreKept ==
    [][\A ip \in IP \ Special :
          Listed(ip) /\ ~Nameless(ip) /\ dev'[ip] # None /\ dev'[ip].name # dev[ip].name =>
              \E s \in Leasable, name \in Hostname :
                  s[1] = ip /\ LeaseDiscovered(ip, s[2], name)]_vars

\* In strict mode, and with gateway mode on, as it is throughout this module
\* (enforceStrictModeBlock does nothing otherwise), a device that enters the
\* list and is not trusted is shown blocked and blacklisted in the same step,
\* whoever reports it.
DefaultDeny ==
    [][\A ip \in IP \ Special :
          strict /\ ~Listed(ip) /\ dev'[ip] # None
            /\ dev'[ip].mac \notin Trusted \cup {HostMAC, gatewayMac'} =>
              dev'[ip].status = "Blocked" /\ dev'[ip].mac \in blacklist']_vars

\* "45 s silence = offline": time and again no entry is online that has been
\* silent too long, whatever the segment, the scans and the operator do.
Overdue(ip) == Listed(ip) /\ dev[ip].status \in {"Online", "Gateway"} /\ dev[ip].age = Stale
SilentGoesOffline == []<>(\A ip \in IP : ~Overdue(ip))

=============================================================================
