--------------------------- MODULE InventoryProofs ---------------------------
(***************************************************************************)
(* DeviceInventory for every segment: the type of the list, one entry per  *)
(* device, and what the judgement of devices never does to the router.     *)
(***************************************************************************)
EXTENDS DeviceInventory, TLAPS

-----------------------------------------------------------------------------
(* Entries.                                                                *)

LEMMA EntryFacts ==
    ASSUME TypeOK, NEW ip \in IP
    PROVE  /\ Listed(ip) => dev[ip] \in Entry /\ dev[ip].mac # NoMAC
           /\ ~Listed(ip) => dev[ip].mac = NoMAC
BY InventoryAssumption DEF TypeOK, Listed, None, Entry

LEMMA NoneIsNoEntry == None \notin Entry /\ None.mac = NoMAC
BY InventoryAssumption DEF None, Entry

\* The entry that makes room lies elsewhere, under the MAC that shows up, and
\* neither address is this machine's or the router's.
LEMMA DepartedFacts ==
    ASSUME TypeOK, NEW ip \in IP, NEW mac \in MAC \cup {NoMAC}, NEW old \in Departed(ip, mac)
    PROVE  \/ old = NoIP
           \/ /\ old \in IP \ {ip} /\ Listed(old) /\ dev[old].mac = mac /\ mac # NoMAC
              /\ {old, ip} \cap Special = {}
<1>1. CASE mac = NoMAC \/ Elsewhere(ip, mac) = {}
    BY <1>1 DEF Departed
<1>2. CASE mac # NoMAC /\ Elsewhere(ip, mac) # {}
    <2>1. PICK q \in Elsewhere(ip, mac) :
            old = IF {q, ip} \cap Special = {} THEN q ELSE NoIP
        BY <1>2 DEF Departed
    <2>2. q \in IP \ {ip} /\ dev[q].mac = mac
        BY <2>1 DEF Elsewhere
    <2>3. Listed(q)
        BY <1>2, <2>2, EntryFacts
    <2> QED BY <1>2, <2>1, <2>2, <2>3
<1> QED BY <1>1, <1>2

\* The list with the entry of old taken away and d at ip.
Put(old, ip, d) ==
    [q \in IP |-> IF q = ip THEN d ELSE IF q = old THEN None ELSE dev[q]]

LEMMA PutIsStore ==
    ASSUME NEW ip \in IP, NEW old, NEW d,
           dev' = [Without(old) EXCEPT ![ip] = d]
    PROVE  dev' = Put(old, ip, d)
BY DEF Put, Without

Names == [MAC \cup {Checking} -> Attainable]

LEMMA RefreshFacts ==
    ASSUME TypeOK, NEW ip \in IP, NEW mac \in MAC \cup {NoMAC}, NEW g,
           Listed(ip), NEW old \in Departed(ip, mac),
           RefreshEntry(Without(old), ip, mac, g)
    PROVE  \E d \in Entry :
             /\ dev' = Put(old, ip, d)
             /\ d.mac = IF mac = NoMAC THEN dev[ip].mac ELSE mac
             /\ d.name = dev[ip].name
             /\ d.status = dev[ip].status \/ d.status = Shown(ip, mac, g)
             /\ cache' \in Names
             /\ blacklist' \in {blacklist, Enforced(ip, mac, g)}
             /\ gatewayMac' = IF ip = GatewayIP /\ mac # HostMAC THEN mac ELSE g
<1> DEFINE rest == Without(old)
           returns == rest[ip].status = "Offline"
           d == [rest[ip] EXCEPT !.mac = IF mac = NoMAC THEN @ ELSE mac,
                                 !.status = IF returns THEN Shown(ip, mac, g) ELSE @,
                                 !.age = 0]
<1>1. old # ip
    BY DepartedFacts, InventoryAssumption
<1>2. rest[ip] = dev[ip] /\ dev[ip] \in Entry
    BY <1>1, EntryFacts DEF Without
<1>3. Shown(ip, mac, g) \in Status /\ 0 \in 0 .. Stale
    BY InventoryAssumption DEF Shown, Status
<1>4. /\ d \in Entry /\ d.mac = (IF mac = NoMAC THEN dev[ip].mac ELSE mac)
      /\ d.name = dev[ip].name
      /\ d.status = dev[ip].status \/ d.status = Shown(ip, mac, g)
    BY <1>2, <1>3 DEF Entry
<1>5. /\ dev' = [rest EXCEPT ![ip] = d]
      /\ cache' = IF mac = NoMAC THEN cache ELSE [cache EXCEPT ![mac] = d.name]
      /\ blacklist' = IF returns THEN Enforced(ip, mac, g) ELSE blacklist
      /\ gatewayMac' = IF ip = GatewayIP /\ mac # HostMAC THEN mac ELSE g
    BY DEF RefreshEntry
<1> HIDE DEF d, returns
<1>6. dev' = Put(old, ip, d)
    BY <1>5, PutIsStore
<1> HIDE DEF rest
<1>7. cache' \in Names
    BY <1>4, <1>5 DEF TypeOK, Names, Entry
<1>8. blacklist' \in {blacklist, Enforced(ip, mac, g)}
    BY <1>5
<1> QED BY <1>4, <1>5, <1>6, <1>7, <1>8

LEMMA InsertFacts ==
    ASSUME TypeOK, NEW ip \in IP, NEW mac \in MAC, NEW g,
           NEW old \in Departed(ip, mac), InsertEntry(Without(old), old, ip, mac, g)
    PROVE  \E d \in Entry :
             /\ dev' = Put(old, ip, d)
             /\ d.mac = mac /\ d.status = Shown(ip, mac, g)
             /\ cache' \in Names
             /\ blacklist' = Enforced(ip, mac, g) /\ gatewayMac' = g
<1> DEFINE moved == old # NoIP
           d == [mac |-> mac,
                 name |-> Recall(IF moved THEN dev[old].name ELSE Unknown, mac),
                 status |-> Shown(ip, mac, g),
                 age |-> IF moved THEN dev[old].age ELSE 0]
<1>1. moved => dev[old] \in Entry
    BY DepartedFacts, EntryFacts
<1>2. Shown(ip, mac, g) \in Status /\ 0 \in 0 .. Stale
    BY InventoryAssumption DEF Shown, Status
<1>3. Recall(IF moved THEN dev[old].name ELSE Unknown, mac) \in Attainable
    BY <1>1 DEF Recall, TypeOK, Entry, Attainable, Hostname
<1>4. d \in Entry
    BY <1>1, <1>2, <1>3 DEF Entry
<1>5. d.mac = mac /\ d.status = Shown(ip, mac, g) /\ d.name \in Attainable
    BY <1>3
<1>6. /\ Store(Without(old), ip, d)
      /\ blacklist' = Enforced(ip, mac, g) /\ gatewayMac' = g
    BY DEF InsertEntry
<1> HIDE DEF d
<1>7. dev' = Put(old, ip, d) /\ cache' = [cache EXCEPT ![d.mac] = d.name]
    BY <1>6, PutIsStore DEF Store
<1>8. cache' \in Names
    BY <1>5, <1>7 DEF TypeOK, Names
<1> QED BY <1>4, <1>5, <1>6, <1>7, <1>8

\* An observation leaves the list alone, refreshes an entry or inserts one.
Seen(ip, mac, g) ==
    \/ UNCHANGED <<dev, cache, blacklist>> /\ gatewayMac' = g
    \/ /\ ~(mac = HostMAC /\ ip # HostIP) /\ cache' \in Names
       /\ \E old \in Departed(ip, mac), d \in Entry :
            /\ dev' = Put(old, ip, d)
            /\ \/ /\ Listed(ip) /\ d.name = dev[ip].name
                  /\ d.mac = IF mac = NoMAC THEN dev[ip].mac ELSE mac
                  /\ d.status = dev[ip].status \/ d.status = Shown(ip, mac, g)
                  /\ blacklist' \in {blacklist, Enforced(ip, mac, g)}
                  /\ gatewayMac' = IF ip = GatewayIP /\ mac # HostMAC THEN mac ELSE g
               \/ /\ ~Listed(ip) /\ mac # NoMAC
                  /\ d.mac = mac /\ d.status = Shown(ip, mac, g)
                  /\ blacklist' = Enforced(ip, mac, g) /\ gatewayMac' = g

LEMMA MergeFacts ==
    ASSUME TypeOK, NEW ip \in IP, NEW mac \in MAC \cup {NoMAC}, NEW g,
           MergeArpEntry(ip, mac, g)
    PROVE  Seen(ip, mac, g)
<1>1. CASE mac = HostMAC /\ ip # HostIP
    BY <1>1 DEF MergeArpEntry, Seen
<1>2. CASE ~(mac = HostMAC /\ ip # HostIP)
    <2>1. PICK old \in Departed(ip, mac) :
            IF Listed(ip) THEN RefreshEntry(Without(old), ip, mac, g)
            ELSE IF mac # NoMAC THEN InsertEntry(Without(old), old, ip, mac, g)
            ELSE gatewayMac' = g /\ UNCHANGED <<dev, cache, blacklist>>
        BY <1>2 DEF MergeArpEntry
    <2>2. CASE Listed(ip)
        BY <1>2, <2>1, <2>2, RefreshFacts DEF Seen
    <2>3. CASE ~Listed(ip) /\ mac # NoMAC
        <3>1. mac \in MAC
            BY <2>3
        <3> QED BY <1>2, <2>1, <2>3, <3>1, InsertFacts DEF Seen
    <2>4. CASE ~Listed(ip) /\ mac = NoMAC
        BY <2>1, <2>4 DEF Seen
    <2> QED BY <2>2, <2>3, <2>4
<1> QED BY <1>1, <1>2

LEMMA LeaseFacts ==
    ASSUME TypeOK, NEW ip \in IP, NEW mac \in MAC, NEW name \in Hostname,
           LeaseDiscovered(ip, mac, name)
    PROVE  /\ cache' \in Names /\ blacklist' = Enforced(ip, mac, gatewayMac)
           /\ UNCHANGED <<gatewayMac, strict, resolving>>
           /\ \E old \in Departed(ip, mac), d \in Entry :
                /\ dev' = Put(old, ip, d)
                /\ d.mac = mac /\ d.status = Shown(ip, mac, gatewayMac)
<1>1. PICK old \in Departed(ip, mac) :
         Store(Without(old), ip,
           [mac |-> mac,
            name |-> IF Listed(ip) \/ name # Unknown THEN name
                     ELSE Recall(IF old # NoIP THEN dev[old].name ELSE Unknown, mac),
            status |-> Shown(ip, mac, gatewayMac),
            age |-> 0])
    BY DEF LeaseDiscovered
<1> DEFINE given == IF Listed(ip) \/ name # Unknown THEN name
                    ELSE Recall(IF old # NoIP THEN dev[old].name ELSE Unknown, mac)
           d == [mac |-> mac, name |-> given,
                 status |-> Shown(ip, mac, gatewayMac), age |-> 0]
<1>2. old # NoIP => dev[old] \in Entry
    BY DepartedFacts, EntryFacts
<1>3. Shown(ip, mac, gatewayMac) \in Status /\ 0 \in 0 .. Stale
    BY InventoryAssumption DEF Shown, Status
<1>4. given \in Attainable
    BY <1>2 DEF Recall, TypeOK, Entry, Attainable, Hostname
<1>5. Store(Without(old), ip, d)
    BY <1>1
<1> HIDE DEF given
<1>6. d \in Entry /\ d.mac = mac /\ d.status = Shown(ip, mac, gatewayMac) /\ d.name = given
    BY <1>3, <1>4 DEF Entry
<1> HIDE DEF d
<1>7. dev' = Put(old, ip, d) /\ cache' = [cache EXCEPT ![d.mac] = d.name]
    BY <1>5, PutIsStore DEF Store
<1>8. cache' \in Names
    BY <1>4, <1>6, <1>7 DEF TypeOK, Names
<1> QED BY <1>6, <1>7, <1>8 DEF LeaseDiscovered

\* A name that is looked up, time and the timer change no MAC, a name only
\* where there was none, and a status only to "Offline".
Rewrite ==
    \/ \E ip \in IP, name \in Name : HostnameDiscovered(ip, name)
    \/ EnrichFromLeases \/ FinishStep4 \/ Elapse \/ CleanUpStaleDevices

Rewritten ==
    /\ dev' \in [IP -> Entry \cup {None}]
    /\ \A ip \in IP :
         /\ dev'[ip] # None <=> Listed(ip)
         /\ Listed(ip) => /\ dev'[ip].mac = dev[ip].mac
                          /\ dev'[ip].status \in {dev[ip].status, "Offline"}
                          /\ ~Nameless(ip) => dev'[ip].name = dev[ip].name

LEMMA NamesFacts ==
    ASSUME TypeOK, NEW found, NEW dom \in SUBSET IP, found \in [dom -> Hostname],
           dev' = WithNames(found)
    PROVE  Rewritten
<1>1. ASSUME NEW ip \in IP
      PROVE  /\ dev'[ip] \in Entry \cup {None}
             /\ dev'[ip] # None <=> Listed(ip)
             /\ Listed(ip) => /\ dev'[ip].mac = dev[ip].mac
                              /\ dev'[ip].status = dev[ip].status
             /\ ~Nameless(ip) => dev'[ip] = dev[ip]
    <2>1. CASE Nameless(ip) /\ ip \in dom
        <3>1. dev'[ip] = [dev[ip] EXCEPT !.name = found[ip]] /\ found[ip] \in Attainable
            BY <2>1 DEF WithNames, Attainable
        <3>2. dev[ip] \in Entry
            BY <2>1, EntryFacts DEF Nameless
        <3>3. /\ dev'[ip] \in Entry /\ dev'[ip].mac = dev[ip].mac
              /\ dev'[ip].status = dev[ip].status
            BY <3>1, <3>2 DEF Entry
        <3> QED BY <2>1, <3>3, NoneIsNoEntry DEF Nameless
    <2>2. CASE ~(Nameless(ip) /\ ip \in dom)
        <3>1. dev'[ip] = dev[ip]
            BY <2>2 DEF WithNames
        <3> QED BY <2>2, <3>1, EntryFacts DEF Listed
    <2> QED BY <2>1, <2>2
<1>2. dev' = [ip \in IP |-> dev'[ip]]
    BY DEF WithNames
<1>3. dev' \in [IP -> Entry \cup {None}]
    BY <1>1, <1>2
<1> QED BY <1>1, <1>3 DEF Rewritten

LEMMA RewriteFacts ==
    ASSUME TypeOK, Rewrite
    PROVE  /\ Rewritten
           /\ UNCHANGED <<cache, gatewayMac, strict, blacklist>>
           /\ resolving' \in {resolving, Resting}
<1>1. /\ UNCHANGED <<cache, gatewayMac, strict, blacklist>>
      /\ resolving' \in {resolving, Resting}
    BY DEF Rewrite, HostnameDiscovered, EnrichFromLeases, FinishStep4, Elapse,
           CleanUpStaleDevices, policy
<1>2. ASSUME NEW dom \in SUBSET IP, NEW found \in [dom -> Hostname], dev' = WithNames(found)
      PROVE  Rewritten
    BY <1>2, NamesFacts
<1>3. ASSUME NEW ip \in IP, NEW name \in Name, HostnameDiscovered(ip, name)
      PROVE  Rewritten
    <2>1. [q \in {ip} |-> name] \in [{ip} -> Hostname] /\ {ip} \in SUBSET IP
        BY DEF Hostname
    <2>2. dev' = WithNames([q \in {ip} |-> name])
        BY <1>3 DEF HostnameDiscovered
    <2> QED BY <1>2, <2>1, <2>2
<1>4. CASE EnrichFromLeases
    <2>1. LeaseName \in [IP -> Hostname] /\ IP \in SUBSET IP
        BY InventoryAssumption
    <2>2. dev' = WithNames(LeaseName)
        BY <1>4 DEF EnrichFromLeases
    <2> QED BY <1>1, <1>2, <2>1, <2>2
<1>5. CASE FinishStep4
    <2>1. PICK found \in [resolving -> Hostname] : dev' = WithNames(found)
        BY <1>5 DEF FinishStep4
    <2>2. resolving \in SUBSET IP
        BY <1>5 DEF FinishStep4, TypeOK
    <2> QED BY <1>1, <1>2, <2>1, <2>2
<1>6. ASSUME Elapse \/ CleanUpStaleDevices, NEW ip \in IP
      PROVE  /\ dev'[ip] \in Entry \cup {None}
             /\ dev'[ip] # None <=> Listed(ip)
             /\ Listed(ip) => /\ dev'[ip].mac = dev[ip].mac
                              /\ dev'[ip].status \in {dev[ip].status, "Offline"}
                              /\ dev'[ip].name = dev[ip].name
    <2>1. CASE dev'[ip] = dev[ip]
        BY <2>1, EntryFacts DEF Listed
    <2>2. CASE dev'[ip] # dev[ip] /\ Elapse
        <3>1. /\ Listed(ip) /\ dev[ip].age < Stale
              /\ dev'[ip] = [dev[ip] EXCEPT !.age = @ + 1]
            BY <2>2 DEF Elapse
        <3>2. dev[ip] \in Entry
            BY <3>1, EntryFacts
        <3>3. dev[ip].age + 1 \in 0 .. Stale
            BY <3>1, <3>2, InventoryAssumption DEF Entry
        <3>4. /\ dev'[ip] \in Entry /\ dev'[ip].mac = dev[ip].mac
              /\ dev'[ip].status = dev[ip].status /\ dev'[ip].name = dev[ip].name
            BY <3>1, <3>2, <3>3 DEF Entry
        <3> QED BY <3>1, <3>4, NoneIsNoEntry
    <2>3. CASE dev'[ip] # dev[ip] /\ CleanUpStaleDevices
        <3>1. Listed(ip) /\ dev'[ip] = [dev[ip] EXCEPT !.status = "Offline"]
            BY <2>3 DEF CleanUpStaleDevices, Lapsed
        <3>2. dev[ip] \in Entry
            BY <3>1, EntryFacts
        <3>3. /\ dev'[ip] \in Entry /\ dev'[ip].mac = dev[ip].mac
              /\ dev'[ip].status = "Offline" /\ dev'[ip].name = dev[ip].name
            BY <3>1, <3>2 DEF Entry, Status
        <3> QED BY <3>1, <3>3, NoneIsNoEntry
    <2> QED BY <1>6, <2>1, <2>2, <2>3
<1>7. Elapse \/ CleanUpStaleDevices => dev' = [ip \in IP |-> dev'[ip]]
    BY DEF Elapse, CleanUpStaleDevices
<1>8. ASSUME Elapse \/ CleanUpStaleDevices PROVE Rewritten
    <2>1. dev' \in [IP -> Entry \cup {None}]
        BY <1>6, <1>7, <1>8
    <2>2. ASSUME NEW ip \in IP
          PROVE  /\ dev'[ip] # None <=> Listed(ip)
                 /\ Listed(ip) => /\ dev'[ip].mac = dev[ip].mac
                                  /\ dev'[ip].status \in {dev[ip].status, "Offline"}
                                  /\ ~Nameless(ip) => dev'[ip].name = dev[ip].name
        BY <1>6, <1>8
    <2> QED BY <2>1, <2>2 DEF Rewritten
<1> QED BY <1>1, <1>2, <1>3, <1>4, <1>5, <1>6, <1>8 DEF Rewrite

\* A scan registers this machine and the router; the router's entry is new, or
\* keeps its MAC.
LEMMA ScanFacts ==
    ASSUME TypeOK, NEW moved \in BOOLEAN, RunScan(moved)
    PROVE  /\ cache' \in Names
           /\ \E kept, host, gw :
                /\ \A ip \in IP : kept[ip] \in {dev[ip], None}
                /\ host \in Entry /\ gw \in Entry /\ gw.status = "Gateway"
                /\ \/ host.mac = HostMAC
                   \/ Listed(HostIP) /\ host.mac = dev[HostIP].mac
                /\ \/ gw.mac = Checking \/ (gatewayMac # NoMAC /\ gw.mac = gatewayMac)
                   \/ Listed(GatewayIP) /\ gw.mac = dev[GatewayIP].mac
                /\ dev' = [ip \in IP |-> IF ip = HostIP THEN host
                                         ELSE IF ip = GatewayIP THEN gw ELSE kept[ip]]
<1> DEFINE kept == IF moved THEN [ip \in IP |-> None] ELSE dev
           host == HostEntry(kept[HostIP])
           gw == GatewayEntry(kept[GatewayIP])
<1>0. HostIP \in IP /\ GatewayIP \in IP /\ HostIP # GatewayIP /\ 0 \in 0 .. Stale
    BY InventoryAssumption DEF Special
<1>1. (\A ip \in IP : kept[ip] \in {dev[ip], None}) /\ kept = [ip \in IP |-> kept[ip]]
    BY DEF TypeOK
<1>2. /\ dev' = [kept EXCEPT ![HostIP] = host, ![GatewayIP] = gw]
      /\ cache' = [cache EXCEPT ![host.mac] = host.name, ![gw.mac] = gw.name]
    BY DEF RunScan
<1> HIDE DEF kept
<1>3. /\ host \in Entry
      /\ host.mac = HostMAC \/ (Listed(HostIP) /\ host.mac = dev[HostIP].mac)
    <2>1. CASE kept[HostIP] = None
        <3>1. Self \in Entry /\ Self.mac = HostMAC
            BY <1>0, InventoryAssumption DEF Self, Entry, Status, Attainable
        <3> QED BY <2>1, <3>1 DEF HostEntry
    <2>2. CASE kept[HostIP] # None
        <3>1. Listed(HostIP) /\ kept[HostIP] = dev[HostIP] /\ dev[HostIP] \in Entry
            BY <1>0, <1>1, <2>2, EntryFacts DEF Listed
        <3>2. host = [dev[HostIP] EXCEPT !.status = "Self", !.age = 0,
                                         !.name = IF @ = Unknown THEN HostName ELSE @]
            BY <2>2, <3>1 DEF HostEntry
        <3>3. host \in Entry /\ host.mac = dev[HostIP].mac
            BY <1>0, <3>1, <3>2 DEF Entry, Status, Attainable
        <3> QED BY <3>1, <3>3
    <2> QED BY <2>1, <2>2
<1>4. /\ gw \in Entry /\ gw.status = "Gateway"
      /\ \/ gw.mac = Checking \/ (gatewayMac # NoMAC /\ gw.mac = gatewayMac)
         \/ Listed(GatewayIP) /\ gw.mac = dev[GatewayIP].mac
    <2> DEFINE old == kept[GatewayIP]
               mac == IF old # None THEN old.mac
                      ELSE IF gatewayMac = NoMAC THEN Checking ELSE gatewayMac
               name == IF old = None THEN Recall(LeaseName[GatewayIP], mac)
                       ELSE IF old.name = Unknown THEN LeaseName[GatewayIP] ELSE old.name
    <2>1. gw = [mac |-> mac, name |-> name, status |-> "Gateway", age |-> 0]
        BY DEF GatewayEntry
    <2>2. old = None \/ (Listed(GatewayIP) /\ old = dev[GatewayIP] /\ old \in Entry)
        BY <1>0, <1>1, EntryFacts DEF Listed
    <2>3. /\ mac \in MAC \cup {Checking}
          /\ \/ mac = Checking \/ (gatewayMac # NoMAC /\ mac = gatewayMac)
             \/ Listed(GatewayIP) /\ mac = dev[GatewayIP].mac
        BY <2>2 DEF TypeOK, Entry
    <2>4. LeaseName[GatewayIP] \in Hostname
        BY <1>0, InventoryAssumption
    <2>5. name \in Attainable
        BY <2>2, <2>3, <2>4 DEF Recall, TypeOK, Entry, Attainable
    <2> HIDE DEF mac, name
    <2>6. gw.mac = mac /\ gw.status = "Gateway" /\ gw \in Entry
        BY <1>0, <2>1, <2>3, <2>5 DEF Entry, Status
    <2> QED BY <2>3, <2>6
<1> HIDE DEF host, gw
<1>5. cache' \in Names
    BY <1>2, <1>3, <1>4 DEF TypeOK, Names, Entry
<1>6. dev' = [ip \in IP |-> IF ip = HostIP THEN host
                            ELSE IF ip = GatewayIP THEN gw ELSE kept[ip]]
    BY <1>0, <1>1, <1>2
<1> QED BY <1>1, <1>3, <1>4, <1>5, <1>6

LEMMA SelfIsEntry == Self \in Entry /\ Self.mac = HostMAC
BY InventoryAssumption DEF Self, Entry, Status, Attainable

\* The steps that leave the list alone.
Other ==
    \/ \E mac \in MAC : LearnGateway(mac) \/ BlockDevice(mac) \/ UnblockDevice(mac)
    \/ \E b \in BOOLEAN : SetStrictMode(b)
    \/ StartStep4

Frame(ip, mac) ==
    /\ <<ip, mac>> \in Sighting
    /\ Seen(ip, mac, gatewayMac) \/ (ip = GatewayIP /\ mac # HostMAC /\ Seen(ip, mac, mac))

\* The next-state relation by what it does to the list.
LEMMA StepFacts ==
    ASSUME TypeOK, Next
    PROVE  \/ \E ip \in IP, mac \in MAC : Frame(ip, mac) /\ UNCHANGED <<strict, resolving>>
           \/ \E ip \in IP \ Special :
                Seen(ip, NoMAC, gatewayMac) /\ UNCHANGED <<strict, resolving>>
           \/ \E ip \in IP \ Special, mac \in MAC \ {HostMAC}, name \in Hostname :
                <<ip, mac>> \in Leasable /\ LeaseDiscovered(ip, mac, name)
           \/ Rewrite
           \/ \E b \in BOOLEAN : RunScan(b)
           \/ ClearDevices
           \/ Other
<1>0. /\ Sighting \subseteq IP \X MAC /\ gatewayMac \in MAC \cup {NoMAC}
    BY InventoryAssumption DEF TypeOK
<1>1. ASSUME NEW s \in Sighting, DeviceSeen(s[1], s[2]) \/ ArpReply(s[1], s[2])
      PROVE  \E ip \in IP, mac \in MAC : Frame(ip, mac) /\ UNCHANGED <<strict, resolving>>
    <2>1. s = <<s[1], s[2]>> /\ s[1] \in IP /\ s[2] \in MAC
        BY <1>0
    <2>2. CASE ArpReply(s[1], s[2])
        BY <2>1, <2>2, MergeFacts DEF ArpReply, Frame
    <2>3. CASE DeviceSeen(s[1], s[2])
        BY <2>1, <2>3, MergeFacts DEF DeviceSeen, Frame
    <2> QED BY <1>1, <2>2, <2>3
<1>2. ASSUME NEW ip \in IP, PingReply(ip)
      PROVE  \E q \in IP \ Special : Seen(q, NoMAC, gatewayMac) /\ UNCHANGED <<strict, resolving>>
    BY <1>2, MergeFacts DEF PingReply, Unconfirmed
<1>3. ASSUME NEW s \in Leasable, NEW name \in Hostname, LeaseDiscovered(s[1], s[2], name)
      PROVE  \E ip \in IP \ Special, mac \in MAC \ {HostMAC}, n \in Hostname :
                <<ip, mac>> \in Leasable /\ LeaseDiscovered(ip, mac, n)
    <2>1. /\ s = <<s[1], s[2]>> /\ s[1] \in IP \ Special /\ s[2] \in MAC \ {HostMAC}
        BY <1>0 DEF Leasable
    <2> QED BY <1>3, <2>1
<1> QED BY <1>1, <1>2, <1>3 DEF Next, Rewrite, Other

-----------------------------------------------------------------------------
(* Types.                                                                  *)

LEMMA PutIsTyped ==
    ASSUME TypeOK, NEW ip \in IP, NEW old, NEW d \in Entry, dev' = Put(old, ip, d)
    PROVE  dev' \in [IP -> Entry \cup {None}]
BY DEF Put, TypeOK

LEMMA SeenIsTyped ==
    ASSUME TypeOK, NEW ip \in IP, NEW mac \in MAC \cup {NoMAC}, NEW g \in MAC \cup {NoMAC},
           Seen(ip, mac, g), UNCHANGED <<strict, resolving>>
    PROVE  TypeOK'
<1>1. Enforced(ip, mac, g) \subseteq MAC
    BY DEF Enforced, TypeOK
<1>2. CASE UNCHANGED <<dev, cache, blacklist>> /\ gatewayMac' = g
    BY <1>2 DEF TypeOK
<1>3. CASE ~(UNCHANGED <<dev, cache, blacklist>> /\ gatewayMac' = g)
    <2>1. /\ cache' \in Names /\ \E old : \E d \in Entry : dev' = Put(old, ip, d)
          /\ blacklist' \in {blacklist, Enforced(ip, mac, g)} /\ gatewayMac' \in {g, mac}
        BY <1>3 DEF Seen
    <2>2. dev' \in [IP -> Entry \cup {None}]
        BY <2>1, PutIsTyped
    <2> QED BY <1>1, <2>1, <2>2 DEF TypeOK, Names
<1> QED BY <1>2, <1>3

LEMMA InventoryTypes == TypeOK /\ [Next]_vars => TypeOK'
<1> SUFFICES ASSUME TypeOK, [Next]_vars PROVE TypeOK'
    OBVIOUS
<1>0. gatewayMac \in MAC \cup {NoMAC}
    BY DEF TypeOK
<1>1. ASSUME NEW ip \in IP, NEW mac \in MAC, Frame(ip, mac), UNCHANGED <<strict, resolving>>
      PROVE  TypeOK'
    BY <1>0, <1>1, SeenIsTyped DEF Frame
<1>2. ASSUME NEW ip \in IP, Seen(ip, NoMAC, gatewayMac), UNCHANGED <<strict, resolving>>
      PROVE  TypeOK'
    BY <1>0, <1>2, SeenIsTyped
<1>3. ASSUME NEW ip \in IP, NEW mac \in MAC, NEW name \in Hostname, LeaseDiscovered(ip, mac, name)
      PROVE  TypeOK'
    <2>1. /\ cache' \in Names /\ blacklist' = Enforced(ip, mac, gatewayMac)
          /\ UNCHANGED <<gatewayMac, strict, resolving>>
          /\ \E old : \E d \in Entry : dev' = Put(old, ip, d)
        BY <1>3, LeaseFacts
    <2>2. dev' \in [IP -> Entry \cup {None}]
        BY <2>1, PutIsTyped
    <2> QED BY <2>1, <2>2 DEF TypeOK, Names, Enforced
<1>4. CASE Rewrite
    BY <1>4, RewriteFacts DEF TypeOK, Rewritten
<1>5. ASSUME NEW b \in BOOLEAN, RunScan(b) PROVE TypeOK'
    <2>1. cache' \in Names /\ dev' \in [IP -> Entry \cup {None}]
        BY <1>5, ScanFacts DEF TypeOK
    <2> QED BY <1>5, <2>1 DEF RunScan, policy, TypeOK, Names
<1>6. CASE ClearDevices
    BY <1>6, SelfIsEntry DEF ClearDevices, policy, TypeOK
<1>7. CASE Other
    BY <1>7 DEF Other, LearnGateway, BlockDevice, UnblockDevice, SetStrictMode, StartStep4,
       ToProbe, lists, policy, TypeOK
<1>8. CASE UNCHANGED vars
    BY <1>8 DEF vars, TypeOK
<1> QED BY <1>1, <1>2, <1>3, <1>4, <1>5, <1>6, <1>7, <1>8, StepFacts

LEMMA InventoryStart == Init => TypeOK
BY DEF Init, TypeOK, Attainable, Hostname

\* Entries, the name cache, the blacklist and the addresses of step 4 are well
\* formed whatever the segment shows and whichever thread merges it.
THEOREM InventoryTypeCorrect == Spec => []TypeOK
BY InventoryStart, InventoryTypes, PTL DEF Spec

-----------------------------------------------------------------------------
(* The router.                                                             *)

LEMMA EnforcedSparesRouter ==
    ASSUME RouterNeverBlocked, NEW ip \in IP, NEW mac \in MAC \cup {NoMAC}, NEW g,
           mac # NoMAC => <<ip, mac>> \in Sighting, NEW listed,
           listed \in {blacklist, Enforced(ip, mac, g)}
    PROVE  /\ HostMAC \notin listed
           /\ \A m \in listed :
                m \in Suspect \/ \E s \in Sighting : s[2] = m /\ s[1] \notin Special
<1>1. CASE listed = blacklist
    BY <1>1 DEF RouterNeverBlocked
<1>2. CASE listed # blacklist
    <2>1. /\ listed = blacklist \cup {mac} /\ ip \notin Special /\ mac # HostMAC /\ mac # NoMAC
        BY <1>2 DEF Enforced, Judged
    <2>2. <<ip, mac>> \in Sighting /\ <<ip, mac>>[2] = mac /\ <<ip, mac>>[1] = ip
        BY <2>1
    <2>3. \E s \in Sighting : s[2] = mac /\ s[1] \notin Special
        BY <2>1, <2>2
    <2> QED BY <2>1, <2>3 DEF RouterNeverBlocked
<1> QED BY <1>1, <1>2

LEMMA SeenSparesRouter ==
    ASSUME TypeOK, RouterNeverBlocked, NEW ip \in IP, NEW mac \in MAC \cup {NoMAC}, NEW g,
           mac # NoMAC => <<ip, mac>> \in Sighting, Seen(ip, mac, g)
    PROVE  RouterNeverBlocked'
<1>0. GatewayIP \in IP /\ GatewayIP \in Special /\ NoIP # GatewayIP
    BY InventoryAssumption DEF Special
<1>1. blacklist' \in {blacklist, Enforced(ip, mac, g)}
    BY DEF Seen
<1>2. dev'[GatewayIP] # None => dev'[GatewayIP].status # "Blocked"
    <2>1. CASE dev' = dev
        BY <2>1 DEF RouterNeverBlocked, Listed
    <2>2. CASE dev' # dev
        <3>1. PICK old \in Departed(ip, mac), d \in Entry :
                /\ dev' = Put(old, ip, d)
                /\ \/ Listed(ip) /\ d.status = dev[ip].status
                   \/ d.status = Shown(ip, mac, g)
            BY <2>2 DEF Seen
        <3>2. ip = GatewayIP => d.status # "Blocked"
            BY <1>0, <3>1 DEF Shown, Judged, RouterNeverBlocked
        <3>3. dev'[GatewayIP] = IF ip = GatewayIP THEN d
                                ELSE IF old = GatewayIP THEN None ELSE dev[GatewayIP]
            BY <1>0, <3>1 DEF Put
        <3> QED BY <3>2, <3>3 DEF RouterNeverBlocked, Listed
    <2> QED BY <2>1, <2>2
<1> QED BY <1>1, <1>2, EnforcedSparesRouter DEF RouterNeverBlocked, Listed

LEMMA RouterIsSpared == TypeOK /\ RouterNeverBlocked /\ [Next]_vars => RouterNeverBlocked'
<1> SUFFICES ASSUME TypeOK, RouterNeverBlocked, [Next]_vars PROVE RouterNeverBlocked'
    OBVIOUS
<1>0. GatewayIP \in IP /\ GatewayIP \in Special /\ HostIP # GatewayIP
    BY InventoryAssumption DEF Special
<1>1. ASSUME NEW ip \in IP, NEW mac \in MAC, Frame(ip, mac) PROVE RouterNeverBlocked'
    BY <1>1, SeenSparesRouter DEF Frame
<1>2. ASSUME NEW ip \in IP, Seen(ip, NoMAC, gatewayMac) PROVE RouterNeverBlocked'
    BY <1>2, SeenSparesRouter
<1>3. ASSUME NEW ip \in IP \ Special, NEW mac \in MAC, NEW name \in Hostname,
             <<ip, mac>> \in Leasable, LeaseDiscovered(ip, mac, name)
      PROVE  RouterNeverBlocked'
    <2>1. blacklist' = Enforced(ip, mac, gatewayMac) /\ <<ip, mac>> \in Sighting
        BY <1>3, LeaseFacts DEF Leasable
    <2>2. \E old : \E d \in Entry : dev' = Put(old, ip, d)
        BY <1>3, LeaseFacts
    <2>3. dev'[GatewayIP] \in {None, dev[GatewayIP]}
        BY <1>0, <2>2 DEF Put
    <2>4. dev'[GatewayIP] # None => dev'[GatewayIP].status # "Blocked"
        BY <2>3 DEF RouterNeverBlocked, Listed
    <2> QED BY <2>1, <2>4, EnforcedSparesRouter DEF RouterNeverBlocked, Listed
<1>4. CASE Rewrite
    BY <1>0, <1>4, RewriteFacts DEF RouterNeverBlocked, Rewritten, Listed
<1>5. ASSUME NEW b \in BOOLEAN, RunScan(b) PROVE RouterNeverBlocked'
    <2>1. dev'[GatewayIP].status = "Gateway"
        BY <1>0, <1>5, ScanFacts
    <2> QED BY <1>5, <2>1 DEF RunScan, policy, RouterNeverBlocked, Listed
<1>6. CASE ClearDevices
    BY <1>0, <1>6 DEF ClearDevices, policy, RouterNeverBlocked, Listed
<1>7. CASE Other
    BY <1>7 DEF Other, LearnGateway, BlockDevice, UnblockDevice, SetStrictMode, StartStep4,
       lists, policy, RouterNeverBlocked, Listed
<1>8. CASE UNCHANGED vars
    BY <1>8 DEF vars, RouterNeverBlocked, Listed
<1> QED BY <1>1, <1>2, <1>3, <1>4, <1>5, <1>6, <1>7, <1>8, StepFacts

\* Default deny, in whatever order frames, leases, scans and the operator's
\* clearing of the list come, neither shows the router as blocked nor blacklists
\* it or this machine.
THEOREM RouterIsSafe == Spec => []RouterNeverBlocked
<1>1. Init => RouterNeverBlocked
    BY InventoryAssumption DEF Init, RouterNeverBlocked, Listed, Special
<1> QED BY <1>1, InventoryStart, InventoryTypes, RouterIsSpared, PTL DEF Spec

\* No step forgets the MAC of the router, under which everything about a
\* network is stored: a reply without a MAC never reaches the router's entry.
THEOREM GatewayIsKept == Spec => GatewayStaysKnown
<1>1. ASSUME TypeOK, gatewayMac # NoMAC, [Next]_vars PROVE gatewayMac' # NoMAC
    <2>0. (\A mac \in MAC : mac # NoMAC) /\ GatewayIP \in Special
        BY InventoryAssumption DEF Special
    <2>1. ASSUME NEW ip \in IP, NEW mac \in MAC, Frame(ip, mac) PROVE gatewayMac' # NoMAC
        BY <1>1, <2>0, <2>1 DEF Frame, Seen
    <2>2. ASSUME NEW ip \in IP \ Special, Seen(ip, NoMAC, gatewayMac) PROVE gatewayMac' # NoMAC
        BY <1>1, <2>0, <2>2 DEF Seen
    <2>3. ASSUME NEW ip \in IP, NEW mac \in MAC, NEW name \in Hostname,
                 LeaseDiscovered(ip, mac, name)
          PROVE  gatewayMac' # NoMAC
        BY <1>1, <2>3, LeaseFacts
    <2>4. CASE Rewrite
        BY <1>1, <2>4, RewriteFacts
    <2>5. CASE ClearDevices \/ (\E b \in BOOLEAN : RunScan(b)) \/ UNCHANGED vars
        BY <1>1, <2>5 DEF ClearDevices, RunScan, vars
    <2>6. CASE Other
        BY <1>1, <2>6 DEF Other, LearnGateway, BlockDevice, UnblockDevice, SetStrictMode,
           StartStep4
    <2> QED BY <1>1, <2>1, <2>2, <2>3, <2>4, <2>5, <2>6, StepFacts
<1>2. TypeOK /\ [Next]_vars => [gatewayMac # NoMAC => gatewayMac' # NoMAC]_vars
    BY <1>1
<1> QED BY <1>2, InventoryStart, InventoryTypes, PTL DEF Spec, GatewayStaysKnown

-----------------------------------------------------------------------------
(* One entry per device.                                                   *)

\* This machine has no entry but its own, and no ordinary device is listed at
\* this machine's or the router's address.
Home ==
    /\ \A ip \in IP : Listed(ip) /\ dev[ip].mac = HostMAC => ip = HostIP
    /\ \A ip \in Special : Listed(ip) /\ dev[ip].mac \in Ordinary => dev[ip].mac = HostMAC
    /\ gatewayMac # NoMAC => <<GatewayIP, gatewayMac>> \in Sighting /\ gatewayMac # HostMAC

Places == Home /\ OneEntryPerDevice

\* A step after which every entry has its MAC from before.
LEMMA SamePlaces ==
    ASSUME Places, gatewayMac' = gatewayMac,
           \A ip \in IP : dev'[ip] # None => Listed(ip) /\ dev'[ip].mac = dev[ip].mac
    PROVE  Places'
<1>1. Special \subseteq IP
    BY InventoryAssumption
<1>2. Home'
    BY <1>1 DEF Places, Home, Listed
<1>3. OneEntryPerDevice'
    BY DEF Places, OneEntryPerDevice, Listed
<1> QED BY <1>2, <1>3 DEF Places

\* A device that was seen takes its entry along.
LEMMA PutPlaces ==
    ASSUME TypeOK, Places, NEW ip \in IP, NEW mac \in MAC, <<ip, mac>> \in Sighting,
           mac = HostMAC => ip = HostIP,
           NEW old \in Departed(ip, mac), NEW d \in Entry, d.mac = mac,
           dev' = Put(old, ip, d),
           gatewayMac' = gatewayMac \/ (ip = GatewayIP /\ mac # HostMAC /\ gatewayMac' = mac)
    PROVE  Places'
<1>0. /\ Special \subseteq IP /\ HostMAC # NoMAC /\ mac # NoMAC
      /\ <<ip, mac>>[1] = ip /\ <<ip, mac>>[2] = mac
    BY InventoryAssumption
<1>1. \A q \in IP : dev'[q] = IF q = ip THEN d ELSE IF q = old THEN None ELSE dev[q]
    BY DEF Put
<1>2. mac \in Ordinary => ip \notin Special
    BY <1>0 DEF Ordinary
<1>3. Home'
    <2>1. \A q \in IP : dev'[q] # None /\ dev'[q].mac = HostMAC => q = HostIP
        BY <1>1 DEF Places, Home, Listed
    <2>2. \A q \in Special : dev'[q] # None /\ dev'[q].mac \in Ordinary => dev'[q].mac = HostMAC
        BY <1>0, <1>1, <1>2 DEF Places, Home, Listed
    <2> QED BY <2>1, <2>2 DEF Places, Home, Listed
<1>4. ASSUME NEW q \in IP, q # ip, dev'[q] # None, dev'[q].mac = mac, mac \in Ordinary,
             mac # HostMAC
      PROVE  FALSE
    <2>1. Listed(q) /\ dev[q].mac = mac /\ q # old
        BY <1>1, <1>4 DEF Listed
    <2>2. \A e \in Elsewhere(ip, mac) : Listed(e) /\ e = q
        BY <1>0, <1>4, <2>1, EntryFacts DEF Elsewhere, Places, OneEntryPerDevice
    <2>3. q \in Elsewhere(ip, mac)
        BY <1>4, <2>1 DEF Elsewhere
    <2>4. q \notin Special /\ ip \notin Special
        BY <1>0, <1>2, <1>4, <2>1 DEF Places, Home
    <2>5. Departed(ip, mac) = {q}
        BY <1>0, <2>2, <2>3, <2>4 DEF Departed
    <2> QED BY <2>1, <2>5
<1>5. OneEntryPerDevice'
    <2> SUFFICES ASSUME NEW p \in IP, NEW q \in IP, dev'[p] # None, dev'[q] # None,
                        dev'[p].mac = dev'[q].mac, p # q
                 PROVE  dev'[p].mac \notin Ordinary /\ dev'[p].mac # HostMAC
        BY DEF OneEntryPerDevice, Listed
    <2>1. dev'[p].mac # HostMAC
        BY <1>3 DEF Home, Listed
    <2>2. CASE p = ip \/ q = ip
        BY <1>1, <1>4, <2>1, <2>2
    <2>3. CASE p # ip /\ q # ip
        BY <1>1, <2>3 DEF Places, OneEntryPerDevice, Listed
    <2> QED BY <2>1, <2>2, <2>3
<1> QED BY <1>3, <1>5 DEF Places

LEMMA SeenPlaces ==
    ASSUME TypeOK, Places, NEW ip \in IP, NEW mac \in MAC, <<ip, mac>> \in Sighting,
           NEW g, Seen(ip, mac, g),
           g = gatewayMac \/ (ip = GatewayIP /\ mac # HostMAC /\ g = mac)
    PROVE  Places'
<1>0. mac # NoMAC
    BY InventoryAssumption
<1>1. CASE dev' = dev /\ gatewayMac' = gatewayMac
    BY <1>1, SamePlaces DEF Listed
<1>2. CASE dev' = dev /\ ip = GatewayIP /\ mac # HostMAC /\ gatewayMac' = mac
    <2>1. Home'
        BY <1>2 DEF Places, Home, Listed
    <2>2. OneEntryPerDevice'
        BY <1>2 DEF Places, OneEntryPerDevice, Listed
    <2> QED BY <2>1, <2>2 DEF Places
<1>3. CASE dev' # dev
    <2>1. ~(mac = HostMAC /\ ip # HostIP)
        BY <1>3 DEF Seen
    <2>2. PICK old \in Departed(ip, mac), d \in Entry : dev' = Put(old, ip, d) /\ d.mac = mac
        BY <1>0, <1>3 DEF Seen
    <2>3. gatewayMac' = gatewayMac \/ (ip = GatewayIP /\ mac # HostMAC /\ gatewayMac' = mac)
        BY <1>3 DEF Seen
    <2> QED BY <2>1, <2>2, <2>3, PutPlaces
<1>4. gatewayMac' = gatewayMac \/ (ip = GatewayIP /\ mac # HostMAC /\ gatewayMac' = mac)
    BY DEF Seen
<1> QED BY <1>1, <1>2, <1>3, <1>4

LEMMA PlacesKept == TypeOK /\ Places /\ [Next]_vars => Places'
<1> SUFFICES ASSUME TypeOK, Places, [Next]_vars PROVE Places'
    OBVIOUS
<1>0. /\ HostIP \in IP /\ GatewayIP \in IP /\ HostIP # GatewayIP
      /\ Special = {HostIP, GatewayIP} /\ Checking \notin MAC /\ HostMAC \in MAC
      /\ Ordinary \subseteq MAC
    BY InventoryAssumption DEF Special, Ordinary
<1>1. ASSUME NEW ip \in IP, NEW mac \in MAC, Frame(ip, mac) PROVE Places'
    BY <1>1, SeenPlaces DEF Frame
<1>2. ASSUME NEW ip \in IP \ Special, Seen(ip, NoMAC, gatewayMac) PROVE Places'
    <2>1. gatewayMac' = gatewayMac
        BY <1>0, <1>2 DEF Seen
    <2>2. \A q \in IP : dev'[q] # None => Listed(q) /\ dev'[q].mac = dev[q].mac
        <3>1. CASE dev' = dev
            BY <3>1 DEF Listed
        <3>2. CASE dev' # dev
            <4>1. PICK old, d : dev' = Put(old, ip, d) /\ d.mac = dev[ip].mac /\ Listed(ip)
                BY <1>2, <3>2 DEF Seen
            <4> QED BY <4>1 DEF Put, Listed
        <3> QED BY <3>1, <3>2
    <2> QED BY <2>1, <2>2, SamePlaces
<1>3. ASSUME NEW ip \in IP \ Special, NEW mac \in MAC \ {HostMAC}, NEW name \in Hostname,
             <<ip, mac>> \in Leasable, LeaseDiscovered(ip, mac, name)
      PROVE  Places'
    <2>1. <<ip, mac>> \in Sighting
        BY <1>3 DEF Leasable
    <2>2. /\ gatewayMac' = gatewayMac
          /\ \E old \in Departed(ip, mac), d \in Entry : dev' = Put(old, ip, d) /\ d.mac = mac
        BY <1>3, LeaseFacts
    <2> QED BY <2>1, <2>2, PutPlaces
<1>4. CASE Rewrite
    BY <1>4, RewriteFacts, SamePlaces DEF Rewritten
<1>5. ASSUME NEW b \in BOOLEAN, RunScan(b) PROVE Places'
    <2>1. PICK kept, host, gw :
            /\ \A ip \in IP : kept[ip] \in {dev[ip], None}
            /\ \/ host.mac = HostMAC
               \/ Listed(HostIP) /\ host.mac = dev[HostIP].mac
            /\ \/ gw.mac = Checking \/ (gatewayMac # NoMAC /\ gw.mac = gatewayMac)
               \/ Listed(GatewayIP) /\ gw.mac = dev[GatewayIP].mac
            /\ dev' = [ip \in IP |-> IF ip = HostIP THEN host
                                     ELSE IF ip = GatewayIP THEN gw ELSE kept[ip]]
        BY <1>5, ScanFacts
    <2>2. gatewayMac' = gatewayMac
        BY <1>5 DEF RunScan
    <2>3. dev'[HostIP] = host /\ dev'[GatewayIP] = gw
        BY <1>0, <2>1
    <2>4. \A ip \in IP \ Special : dev'[ip] # None => Listed(ip) /\ dev'[ip] = dev[ip]
        BY <1>0, <2>1 DEF Listed
    <2>5. host.mac \in Ordinary => host.mac = HostMAC
        BY <1>0, <2>1 DEF Places, Home
    <2>6. gw.mac # HostMAC /\ gw.mac \notin Ordinary
        <3>1. gatewayMac # NoMAC => gatewayMac # HostMAC /\ gatewayMac \notin Ordinary
            <4>1. \A x, y : <<x, y>>[1] = x /\ <<x, y>>[2] = y
                OBVIOUS
            <4> QED BY <1>0, <4>1 DEF Places, Home, Ordinary
        <3>2. Listed(GatewayIP) => dev[GatewayIP].mac # HostMAC /\ dev[GatewayIP].mac \notin Ordinary
            BY <1>0 DEF Places, Home
        <3> QED BY <1>0, <2>1, <3>1, <3>2
    <2>7. \A ip \in IP : dev'[ip] # None /\ dev'[ip].mac = HostMAC => ip = HostIP
        BY <1>0, <2>3, <2>4, <2>6 DEF Places, Home
    <2>8. Home'
        BY <1>0, <2>2, <2>3, <2>5, <2>6, <2>7 DEF Places, Home, Listed
    <2>9. ASSUME NEW p \in IP, NEW q \in IP, dev'[p] # None, dev'[q] # None,
                 dev'[p].mac = dev'[q].mac, p # q
          PROVE  dev'[p].mac \notin Ordinary /\ dev'[p].mac # HostMAC
        <3>1. dev'[p].mac # HostMAC
            BY <2>7, <2>9
        <3>2. CASE p \in Special \/ q \in Special
            BY <1>0, <2>3, <2>5, <2>6, <2>9, <3>1, <3>2
        <3>3. CASE p \notin Special /\ q \notin Special
            BY <2>4, <2>9, <3>1, <3>3 DEF Places, OneEntryPerDevice
        <3> QED BY <3>1, <3>2, <3>3
    <2> QED BY <2>8, <2>9 DEF Places, OneEntryPerDevice, Listed
<1>6. CASE ClearDevices
    <2>1. \A ip \in IP : dev'[ip] # None => ip = HostIP /\ dev'[ip].mac = HostMAC
        BY <1>6, SelfIsEntry DEF ClearDevices
    <2>2. gatewayMac' = gatewayMac
        BY <1>6 DEF ClearDevices
    <2>3. Home'
        BY <1>0, <2>1, <2>2 DEF Places, Home, Listed
    <2> QED BY <2>1, <2>3 DEF Places, OneEntryPerDevice, Listed
<1>7. CASE Other
    <2>1. dev' = dev
        BY <1>7 DEF Other, LearnGateway, BlockDevice, UnblockDevice, SetStrictMode,
           StartStep4, lists
    <2>2. \/ gatewayMac' = gatewayMac
          \/ <<GatewayIP, gatewayMac'>> \in Sighting /\ gatewayMac' # HostMAC
        BY <1>7 DEF Other, LearnGateway, BlockDevice, UnblockDevice, SetStrictMode, StartStep4
    <2> QED BY <2>1, <2>2 DEF Places, Home, OneEntryPerDevice, Listed
<1>8. CASE UNCHANGED vars
    BY <1>8, SamePlaces DEF vars, Listed
<1> QED BY <1>1, <1>2, <1>3, <1>4, <1>5, <1>6, <1>7, <1>8, StepFacts

\* A device that the segment shows at ordinary addresses has one entry, wherever
\* and by whichever source it was seen last, and this machine has its own only.
THEOREM DevicesAreListedOnce == Spec => []OneEntryPerDevice
<1>1. Init => Places
    <2>1. Init => Home /\ OneEntryPerDevice
        BY InventoryAssumption DEF Init, Home, OneEntryPerDevice, Listed
    <2> QED BY <2>1 DEF Places
<1>2. Places => OneEntryPerDevice
    BY DEF Places
<1> QED BY <1>1, <1>2, InventoryStart, InventoryTypes, PlacesKept, PTL DEF Spec

-----------------------------------------------------------------------------
(* Names and default deny.                                                 *)

\* A name that was found stays until a lease replaces it or the entry goes: what
\* a resolver learned meanwhile is not written over it.
THEOREM NamesStay == Spec => NamesAreKept
<1>1. ASSUME TypeOK, [Next]_vars, NEW ip \in IP \ Special,
             Listed(ip), ~Nameless(ip), dev'[ip] # None, dev'[ip].name # dev[ip].name
      PROVE  \E s \in Leasable, name \in Hostname :
                s[1] = ip /\ LeaseDiscovered(ip, s[2], name)
    <2>1. ASSUME NEW q \in IP, NEW old, NEW d, dev' = Put(old, q, d)
          PROVE  q = ip /\ d.name # dev[ip].name
        BY <1>1, <2>1 DEF Put
    <2>2. ASSUME NEW q \in IP, NEW mac, NEW g, Seen(q, mac, g) PROVE FALSE
        BY <1>1, <2>1, <2>2 DEF Seen
    <2>3. ASSUME NEW q \in IP \ Special, NEW mac \in MAC, NEW name \in Hostname,
                 <<q, mac>> \in Leasable, LeaseDiscovered(q, mac, name)
          PROVE  \E s \in Leasable, n \in Hostname : s[1] = ip /\ LeaseDiscovered(ip, s[2], n)
        <3>1. q = ip
            BY <1>1, <2>1, <2>3, LeaseFacts
        <3>2. <<q, mac>>[1] = q /\ <<q, mac>>[2] = mac
            OBVIOUS
        <3> QED BY <2>3, <3>1, <3>2
    <2>4. ~Rewrite
        BY <1>1, RewriteFacts DEF Rewritten
    <2>5. ~\E b \in BOOLEAN : RunScan(b)
        BY <1>1, ScanFacts, EntryFacts DEF Special, Listed
    <2>6. ~ClearDevices
        BY <1>1 DEF ClearDevices, Special
    <2>7. ~Other /\ ~UNCHANGED vars
        BY <1>1 DEF Other, LearnGateway, BlockDevice, UnblockDevice, SetStrictMode,
           StartStep4, lists, vars
    <2> QED BY <1>1, <2>2, <2>3, <2>4, <2>5, <2>6, <2>7, StepFacts DEF Frame
<1> DEFINE Kept ==
        \A ip \in IP \ Special :
          Listed(ip) /\ ~Nameless(ip) /\ dev'[ip] # None /\ dev'[ip].name # dev[ip].name =>
              \E s \in Leasable, name \in Hostname :
                  s[1] = ip /\ LeaseDiscovered(ip, s[2], name)
<1>2. TypeOK /\ [Next]_vars => [Kept]_vars
    BY <1>1
<1>3. [][Kept]_vars => NamesAreKept
    BY DEF NamesAreKept
<1> HIDE DEF Kept
<1> QED BY <1>2, <1>3, InventoryStart, InventoryTypes, PTL DEF Spec

\* In strict mode a device that enters the list is blocked by the same step,
\* unless it is trusted, this machine, or the router as known after the step.
THEOREM StrictnessIsImmediate == Spec => DefaultDeny
<1>1. ASSUME TypeOK, [Next]_vars, NEW ip \in IP \ Special,
             strict, ~Listed(ip), dev'[ip] # None,
             dev'[ip].mac \notin Trusted \cup {HostMAC, gatewayMac'}
      PROVE  dev'[ip].status = "Blocked" /\ dev'[ip].mac \in blacklist'
    <2>0. \A mac \in MAC : mac # NoMAC
        BY InventoryAssumption
    <2>1. ASSUME NEW q \in IP, NEW old, NEW d, dev' = Put(old, q, d) PROVE q = ip /\ dev'[ip] = d
        BY <1>1, <2>1 DEF Put, Listed
    <2>2. ASSUME NEW g, NEW mac, mac # NoMAC, mac \notin Trusted \cup {HostMAC, g}
          PROVE  Shown(ip, mac, g) = "Blocked" /\ mac \in Enforced(ip, mac, g)
        BY <1>1, <2>2 DEF Shown, Enforced, Judged, Refused
    <2>3. ASSUME NEW q \in IP, NEW mac, NEW g, Seen(q, mac, g)
          PROVE  dev'[ip].status = "Blocked" /\ dev'[ip].mac \in blacklist'
        <3>1. dev' # dev
            BY <1>1 DEF Listed
        <3>2. PICK old, d :
                /\ dev' = Put(old, q, d)
                /\ \/ Listed(q)
                   \/ /\ mac # NoMAC /\ d.mac = mac /\ d.status = Shown(q, mac, g)
                      /\ blacklist' = Enforced(q, mac, g) /\ gatewayMac' = g
            BY <2>3, <3>1 DEF Seen
        <3>3. q = ip /\ dev'[ip] = d
            BY <2>1, <3>2
        <3> QED BY <1>1, <2>2, <3>2, <3>3
    <2>4. ASSUME NEW q \in IP, NEW mac \in MAC, NEW name \in Hostname,
                 LeaseDiscovered(q, mac, name)
          PROVE  dev'[ip].status = "Blocked" /\ dev'[ip].mac \in blacklist'
        <3>1. PICK old \in Departed(q, mac), d \in Entry :
                /\ dev' = Put(old, q, d) /\ d.mac = mac
                /\ d.status = Shown(q, mac, gatewayMac)
            BY <1>1, <2>4, LeaseFacts
        <3>2. blacklist' = Enforced(q, mac, gatewayMac) /\ gatewayMac' = gatewayMac
            BY <1>1, <2>4, LeaseFacts
        <3>3. q = ip /\ dev'[ip] = d
            BY <2>1, <3>1
        <3> QED BY <1>1, <2>0, <2>2, <3>1, <3>2, <3>3
    <2>5. ~Rewrite
        BY <1>1, RewriteFacts DEF Rewritten
    <2>6. ~\E b \in BOOLEAN : RunScan(b)
        BY <1>1, ScanFacts DEF Special, Listed
    <2>7. ~ClearDevices
        BY <1>1 DEF ClearDevices, Special
    <2>8. ~Other /\ ~UNCHANGED vars
        BY <1>1 DEF Other, LearnGateway, BlockDevice, UnblockDevice, SetStrictMode,
           StartStep4, lists, vars, Listed
    <2> QED BY <1>1, <2>3, <2>4, <2>5, <2>6, <2>7, <2>8, StepFacts DEF Frame
<1> DEFINE Denied ==
        \A ip \in IP \ Special :
          strict /\ ~Listed(ip) /\ dev'[ip] # None
            /\ dev'[ip].mac \notin Trusted \cup {HostMAC, gatewayMac'} =>
              dev'[ip].status = "Blocked" /\ dev'[ip].mac \in blacklist'
<1>2. TypeOK /\ [Next]_vars => [Denied]_vars
    BY <1>1
<1>3. [][Denied]_vars => DefaultDeny
    BY DEF DefaultDeny
<1> HIDE DEF Denied
<1> QED BY <1>2, <1>3, InventoryStart, InventoryTypes, PTL DEF Spec

=============================================================================
