# LAN Monitor: verification project

TLA+ models of *LAN Monitor* (a Qt program in C++ that watches and controls a
local network), model-checked with TLC and proved with TLAPS. The reference is
the code under `src/`; every definition below is translated from it, and
`PROJECT.json` gives the lines.

## 1. The system

`LAN Monitor` runs on one machine of a LAN. It discovers devices, serves DHCP,
filters DNS, blocks devices, accounts for traffic and looks things up.

| Component | State it keeps | Operations | Threads |
|---|---|---|---|
| DHCP server, `core/DhcpServer` | lease table, allocator offset, blocked set, two raw sockets | DISCOVER, REQUEST, DECLINE, RELEASE; static lease, expire, kick, set blocked; ARP timer | own thread; public methods from the manager's thread, under `m_leaseMutex` |
| DHCP manager, `core/DHCPManager` | the current server, its configuration, its own blocked and white lists | configure, start, stop, block, unblock, static lease, kick | network thread, some calls straight from the GUI thread |
| Block enforcement, `core/NetworkManager` + `core/FirewallManager` + `core/DatabaseManager` | blacklist in the database, nftables sets, the manager's and the server's blocked sets, gateway mode | block, unblock, strict mode, activate, gateway mode on and off | network thread; gateway mode from the GUI thread |
| Device inventory, `core/NetworkManager` | devices, their last-seen times, strict mode, scan state | ARP, sniffer, DHCP, mDNS events, scans, ageing | network thread, one thread per scan |
| DNS proxy, `core/DnsProxyServer` | pending queries, cache, rate counters, blocked domains | client datagram, upstream datagram, clean-up tick, start, stop | its own thread, by queued calls |
| Block lists, `DnsBlocklistManager`, `ThreatIntelManager` | enabled flag, last list | enable, refresh, reply | network thread |
| Traffic accounting, `TrafficMonitor`, `BandwidthEngine`, sample tables | counters per address, totals per device, samples, rows per minute, hour and day | packet, rate tick, map update, housekeeping, roll-up, pruning | capture thread, network thread |
| Vendor look-up, `MacVendorManager` | fixed table, IEEE list, cache in SQLite, queue for a web service | look-up, reply, download, parse | callers' threads, manager's thread, parsers |
| Host names, `HostnameResolver` | results of a batch | a batch of addresses | a pool of workers, a pool of protocols in each |
| Router detection, `RouterDetector`, `RouterPage` | record of the running detection, last result | detect, eight stages, rescan | own thread |
| Port audit, `PortScanner`, `PortScanDialog` | current port, one socket, a timer per port | next port, connected, error, timer | GUI thread |
| Vulnerability sweep, `VulnerabilityScanner`, two pages | pending count, pool, results | scan all, scan one | own thread, pool, GUI thread |
| Intelligence look-up, `IntelLookupService`, `IntelLookupPage` | target, replies waited for, cards | look-up, replies | own thread, GUI thread |
| IP calculator, `IPCalculator`, its page | last result | forensic view, subnets, aggregation | GUI thread |
| Captive portal, block page | on/off | datagram, connection | never switched on |
| GUI | pages | | GUI thread |

The GUI sends requests to `NetworkManager` in its thread through queued calls;
some pages call `DHCPManager` and `setGatewayModeActive` directly. Managers
answer with signals. The DHCP server tells `NetworkManager` of leases with
`leaseUpdated` and `leaseExpired`. The sniffer feeds the device inventory and
the traffic counters; the inventory pushes the map of addresses to the
accounting and asks for vendors and names.

What is hard, and where:

* **DHCP**: a handler drops and retakes the mutex between testing, recording
  and answering; the table is rewritten by other threads meanwhile; clients
  retry, give up, reboot and lose packets; leases and offers run out; the pool
  runs out; numbers change byte order on the way.
* **Blocking**: three copies of one set, changed one after the other by two
  threads, and one of them lost when the server is restarted.
* **Inventory**: six sources report the same devices at different ages; a
  device changes its address, another takes the address over; a scan's results
  come seconds later; default deny judges whatever enters.
* **DNS proxy**: identifiers run out, retries on a second upstream, late and
  doubled answers.
* **Lists**: two switches in two threads for one resolver, downloads that end
  late, tables rebuilt while a set is loaded.
* **Accounting**: counters per address turned into totals per device while
  addresses move; a roll-up that sees the same samples again.
* **Look-ups and scanners**: what is read under one mutex and used under
  another; waits with limits, threads that outlast them; counts that say the
  work is over before its results have arrived; timers that nobody cancels.

`PROJECT.json` lists each hazard at its line with the properties that cover it.

## 2. The modules

```
LeaseBook            what a DHCP server promises about addresses
   ^ implemented by
DhcpServer           core/DhcpServer.cpp, one action per locked region
   ^ extended by        ^ extended by
DhcpNetwork          DhcpServerProofs
   the server, RFC 2131 clients, a segment that loses frames
   ^ extended by        ^ extended by
   DhcpNetworkProofs: a behaviour of the segment is one of the server
BlockEnforcement     core/NetworkManager, FirewallManager, DHCPManager, DatabaseManager
DeviceInventory      core/NetworkManager: the list of devices
DnsProxy             core/DnsProxyServer
FilterControl        core/NetworkManager, the two list managers, FirewallManager
Tools                one of nine parts that share nothing:
   VendorLookup      core/MacVendorManager
   NameResolution    core/HostnameResolver, step 4 of a scan
   RouterDetection   core/RouterDetector, gui/RouterPage
   PortAudit         core/PortScanner, gui/PortScanDialog
   VulnSweep         core/VulnerabilityScanner, gui/VulnerabilityPage, gui/RouterPage
   IntelLookup       core/IntelLookupService, gui/IntelLookupPage
   Traffic           core/TrafficMonitor, core/BandwidthEngine
   SampleStore       core/BandwidthEngine, core/DatabaseManager
   AddressCalc       core/IPCalculator, gui/IPCalculatorPage
...Proofs            theorems about the module of that name (BlockSafetyProofs: more
                     about BlockEnforcement; InventoryProofs: about DeviceInventory)
MC...                constants for TLC
```

The subsystems meet in few places, and each module takes the others as its
environment there: a MAC rotation is an input of `BlockEnforcement`, the
blacklist is a set in `DeviceInventory`, calls of the DNS proxy are produced by
`FilterControl` and may come at any time in `DnsProxy`.

### DhcpServer

`leases` is `m_leases` (with the time left instead of the expiry date),
`offset` is `m_currentIpOffset`, `blocked` is `m_blockedMACs`. A handler of
the code is one thread of control that holds the mutex for parts of its way;
`srv` is its program counter between two of these parts:

| `srv.at` | where the handler stands | code |
|---|---|---|
| `idle` | in `poll` | `run` |
| `store` | the asserted address was found free, the lock is dropped | `sendAck` 781 |
| `nakked` | a conflicting address was refused, an offer is to follow | `sendAck` 855 |
| `answer` | the lease is recorded, `isBlocked` has not been asked | `sendOffer` 634, `sendAck` 799, 913 |
| `send` | the reply is composed, poisoned or not, but not sent | `sendOffer` 692, `sendAck` 846, 963 |

`Discover`, `Request`, `CheckAsserted`, `Decline`, `Release` and `NakForeign`
take a packet; `StoreAsserted`, `OfferAfterNak`, `AskBlocked` and `SendReply`
go on with it. `AddStaticLease`, `ExpireLease`, `KickClient` and
`SetBlockedMACs` are the calls of other threads (each one locked region, so they
fit between any two steps), `Restart` is `stopServer` and `startServer` of the
manager, which leave a new server without leases, offset and blocked set,
`PoisonBlockedArpEntries` is the timer and `Tick` is the clock. `out` holds what
the last step transmitted or emitted. `late` is a history variable: the client
whose block was changed by a call after `isBlocked` was asked for the reply that
is about to leave. `contested` is a history
variable: the addresses that may legally be listed twice, because one was
pinned by `addStaticLease`, which tests nothing, or handed out by the
allocator's fallback.

Abstractions:

* An address has two octets in base `Base`. Byte order matters in two places
  (option 50 in `sendOffer`, the ARP frames), so `ByteSwap` is kept.
* A pending lease differs from another one by its time only; the `(pending)`
  hostname is looked at by the display alone.
* Packets are arbitrary records: the server trusts no client, and the model
  does not either.
* A lease's remaining time is counted in ticks. Nothing depends on the ratios
  60 s : lease time : 10 years except their order.
* Lines 872-894 of `sendAck` are not reached: an INIT-REBOOT or renewing
  client that asserts an address never comes there, and one that asserts none
  has nothing to compare.
* The pool is a proper range. `RangeStart > RangeEnd` (nothing in the GUI
  forbids it) is excluded by `AddressAssumption` and listed as a hazard.

### DhcpNetwork

The same server with clients as `sendAck` expects them (DISCOVER, SELECTING,
INIT-REBOOT, RENEWING, RELEASE, DECLINE), a receive buffer that keeps the order
of frames, and loss in both directions. Every action of the server occurs: the
packets in `Receive`, the rest of a handler in `Proceed`, blocking in `Block`,
`addStaticLease`, `expireLease` and `kickClient` in `Touch`, the timer in `Poison`,
a new server in `RestartServer`. The NAK of `kickClient` bears no client's xid: a
client ignores it or starts over, which it may do anyway (`PowerOff`, `Timeout`). Clients
are external code: they are modelled from what the handlers expect. A client
that gives up its exchange starts one with another xid; the frames of the old
exchange stay in the buffer and the server does handle them, while replies to
them are ignored (`live`).

`upset` is a history variable: the clients whose own record a call or a restart
changed since they last started from nothing. The code has no way to tell such a
client, so that it may go on using an address which the table gives to another
one: pin another address for a client that is bound, and its old one is free.
The two safety properties except exactly these clients.

`Patient` chooses between two worlds: clients that may give up at any moment
and a clock that runs while frames are in flight (safety), and clients that
wait for the frames still in flight with a tick longer than an exchange
(liveness).

### LeaseBook

An address has one owner. Ownership is gained by one client at a time and may
lapse at any moment; exceptions (pinned, exhausted) are on the record in
`shared`. `Book` in `DhcpServer` maps a live lease to ownership.

### BlockEnforcement

What it takes to block a device, across four classes and two threads.

| Variable | Code |
|---|---|
| `blacklist` | the table of that name, rows of network and device |
| `gatewayMac`, `gatewayMode` | `NetworkManager::m_gatewayMac`, `m_gatewayModeActive` |
| `firewall` | `FirewallManager`: `m_blockedMACs`, whether `m_interface` is set, `m_active` |
| `kernel` | nftables: whether the netdev table (the only one with a drop rule) exists, and its set |
| `dhcpBanned`, `server` | `DHCPManager::m_blockedMACs`, `m_dhcpThread` and that thread's blocked set |
| `pc` | what each thread is doing, step by step |

The network thread runs `NetworkManager`: `Activate`, `BlockDevice`,
`EnforceStrictModeBlock`, `PossibleMacRotation`, `UnblockDevice`,
`SetGatewayMac`. The GUI thread calls `DHCPManager` directly (`StartServer`,
`StopServer`), and `DHCPPage::dhcpStatusChanged` runs
`setGatewayModeActive` in it (`EngageGateway`, `DisengageGateway`). Both end in
`FirewallManager`, which has no lock, so its steps are actions of either
thread. `pc[t].at` says where the thread stands:

| `pc[t].at` | next step | code |
|---|---|---|
| `record` | the row is written | `applyBlockEnforcement` 947 |
| `edit` | the firewall manager's set changes | `blockMAC` 100, `unblockMAC` 123 |
| `flush`, `read`, `add` | the kernel's set is emptied, `m_blockedMACs` is read, what was read is added | `syncBlockedMACs` 329-344 |
| `dhcp` | the DHCP manager's and the server's sets change | `DHCPManager::blockMAC` 121 |
| `delete`, `create` | tables are deleted, then created | `initFirewall` 39-69 |
| `list`, `next` | the persisted list is read, its next entry is taken | `activate` 766, `setGatewayModeActive` 934 |
| `engage`, `disengage`, `clear` | the mode changes, `unblockAll` starts | `setGatewayModeActive` 929, `unblockAll` 154 |

Three variables are history: `applied` (gateway mode read the list of the
current network), `unguarded` (devices blocked by `activate` or the MAC
rotation handler, neither of which asks for gateway mode), `freed` (devices
unblocked on this network while the GUI thread was at rest, and not blocked
again).

`Crash` forgets memory and keeps the database and the kernel's tables; `Boot`
is the constructor, which deletes them. `CloseEvent` is the orderly end.

Abstractions:

* nft is there and its commands succeed, except those that name a table that
  is gone (`AddDrops`): that failure is part of the races.
* `activate` runs once per start, as the start-up page calls it; the gateway is
  learnt and devices are seen after it, from the sniffer it starts.
* Strict mode, the white list and the setting that clears other networks' rows
  are chosen freely at each use, which allows more than the code does.
* An update of the server's set by `DHCPManager::blockMAC` is one step; the
  race on the pointer to a deleted server is a hazard in the list.
* A DHCP client recognised after a MAC rotation is not this machine: the
  server ignores its own host (`DhcpServer.cpp` 428-445).

### DeviceInventory

`dev` is `m_allDevices` (address to MAC, hostname, status, age), `cache` the
hostnames of `m_dbDeviceCache`, `gatewayMac`, `strict` and `blacklist` what
merging reads, `resolving` what step 4 of a scan is at. The clock is the age
of an entry: `Elapse` is one step of it, `Stale` steps are the 45 s of
`cleanUpStaleDevices`.

| Action | Code |
|---|---|
| `DeviceSeen`, `ArpReply` | `onDeviceSeen`; steps 1 and 2 of a scan; both go through `MergeArpEntry` |
| `PingReply` | step 3, for what did not answer the sweep |
| `LeaseDiscovered` | the `leaseDiscovered` handler, `addDiscoveredDevice` |
| `HostnameDiscovered` | names the sniffer reads from mDNS and NetBIOS |
| `RunScan`, `EnrichFromLeases` | `runScan`: this machine, the gateway, the other server's lease file |
| `StartStep4`, `FinishStep4` | the snapshot of nameless devices, and the results a second later |
| `LearnGateway` | the gateway's MAC from the kernel's ARP cache, which has no entry for this machine |
| `CleanUpStaleDevices`, `ClearDevices` | the 20 s timer, the refresh button |
| `SetStrictMode`, `BlockDevice`, `UnblockDevice` | the operator |

`MergeArpEntry` keeps the code's two ways: `RefreshEntry` for an address that
is listed (the status is only judged again when the entry was offline, the
hostname stays with the address) and `InsertEntry` for a new one (the entry
under the old address of the same MAC goes, unless this machine's or the
gateway's address is involved). Which old entry is found first depends on the
order of a `QHash`, hence a choice in `Departed`.

Gateway mode is on throughout this module: without it `enforceStrictModeBlock`
does nothing (`NetworkManager.cpp:1054`), and default deny only shows a device as
blocked. A scan that starts clears `m_confirmedIps` and puts the router back some
sixty lines later (2112, 2170); what the third step of an older scan does in
between is not modelled.

### DnsProxy and FilterControl

`DnsProxy` is the resolver thread: `Refuse`, `RelayFromCache` and `Forward`
are the three ways of `onClientDatagram`, `UpstreamAnswer` is
`onUpstreamDatagram`, `CleanupTick` retries, gives up and forgets. `asked` is
the other side, the questions whose answers may still come, any number of
times: an answer does not leave it. `shared` is a history field: the identifier
was drawn while an answer to another question was due under it, which happens
after 20 draws that all collide, when an older answer is late, or after a
retry. A step of the clock is a second, `RetryAge` and `MaxAge` are the two
time-outs in such steps.

`FilterControl` is what surrounds it: DHCP server and DNS visibility are two
switches in two threads for one resolver, with queued signals (`events`) and
queued calls (`calls`) in between. `startServer` and `stopServer` first change the
server's thread (`StartServer`, `StopServer`, `Begin`), then run nft commands, and
only then the flag and the signal follow (`Started`, `Stopped`); the network thread
may switch visibility in between, and asks `IsServerRunning`, the flag and the
thread. That thread may end on its own (`ServerEnds`: `DhcpServer::run` returns at
164 or 193, or leaves its loop at 211 or 231), and nobody is told. Downloads of the
domain list and the threat list end late or fail; what a list of domains does in
the resolver is in `DnsProxy`, so here it only takes its turn in the queue. The
threat set is emptied and loaded in single nft
commands (`Flush`, `Load`, `Clear`) while the GUI thread deletes and creates the
tables (`DeleteTables`, `CreateTables`).

### Tools and its nine parts

These parts share no variable and no thread, so a product of their states would
show nothing that each alone does not. `Tools` chooses one part at the start of
a behaviour (`tool`), and leaves the others as they are; one run checks them
all, and `ToolsAreCorrect` carries the theorems about the parts over to `Tools`.
Each part has its own `...Spec`.

| Part | State | What can go wrong |
|---|---|---|
| `VendorLookup` | the IEEE list with its downloads and parses, the cache in SQLite, the queue of the web service, and where each caller is between reading the cache and asking (`lookup`) | an answer that arrives in between |
| `NameResolution` | `call`, `worker`, `layer`: a batch, the worker of each address, a sub-thread per protocol; any wait may time out at any moment | a thread that outlives the stack it writes to |
| `RouterDetection` | the record of the running detection (`info`), the eight `Stages`, events on their way to the page | a later stage that overwrites an earlier one |
| `PortAudit` | the socket's `attempt`, the `timers` that still run | a stale timer |
| `VulnSweep` | the scanner's `inbox`, a `task` per device, `pendingCount`, `reports` to the pages | the end overtaking a result |
| `IntelLookup` | the running look-up, replies waited for, `signals`, `cards` | cards of two look-ups under one name |
| `Traffic` | `counter` per address, `updates` on their way, `ipToMac`, `total` and `prev` per record | bytes counted twice, lost, or charged to another device |
| `SampleStore` | samples, rows per minute, hour and day, the pruning timer | history that is pruned before it is rolled up |
| `AddressCalc` | the last calculation of each tab, what its buttons show | arithmetic that wraps at the width |

Texts are abstracted to where they come from: a hostname is its sender and
protocol, a manufacturer is the stage that reported it, a vendor name is the
number of corporate suffixes it still ends in (each cleaning takes one away), a
card is the target it is about. `carried` in `Traffic` and `written` in
`SampleStore` are history variables.

## 3. What the runs show

| Run | Instance | Checks |
|---|---|---|
| `dhcp_server` | 3 clients, pool of 2 addresses and so exhaustion, a foreign address that reads backwards as a pool address, one address the operator pins, every packet of RFC 2131, every call, all times one tick, symmetry | `TypeOK`, `NoDuplicateLease`, `ReplyNamesRecordedAddress`, `BlockedGetsPoison`, `LiveLeaseIsKept`, `ImplementsLeaseBook` |
| `dhcp_network` | 2 impatient clients, pool of 2 of which 1 may be pinned, buffer of 1, loss, one call on a record or restart at any moment, symmetry, states told apart without `out` | `NoAddressConflict`, `RecordOutlivesUse` |
| `dhcp_liveness` | 2 patient clients, pool of 1, buffer of 1, loss that ends; one client may be blocked, and pinned, expired or kicked once, or the server restarted once | `EventuallyBound` |
| `block_enforcement` | this host, 2 devices of which 1 is remembered, 2 networks and the unknown one, 2 rows, symmetry of networks | `TypeOK`, `NoLostBlock`, `BlacklistEnforced`, `OffMeansOpen`, `UnblockHolds`, `HostNeverBlocked` |
| `device_inventory` | this host, the router, a device that moves and one that takes over its address; 2 ordinary addresses | `OneEntryPerDevice`, `RouterNeverBlocked`, `GatewayStaysKnown`, `NamesAreKept`, `DefaultDeny`, `SilentGoesOffline` |
| `dns_proxy` | 2 clients, 2 names of which one has a parent on the list, 2 identifiers, restarts | `OwnAnswer`, `BlockedIsRefused`, `NoQueryWaitsForever` |
| `filter_control` | 3 queued calls and 3 queued signals, 1 download of each list at a time | `ProxyFollowsSwitches`, `ThreatOffDropsNothing`, `ThreatListComesBack` |
| `tools` | the nine parts, see Bounds | `NeverAsksTwice`, `NoWorkerOutlivesCall`, `EvidenceIsKept`, `AuditNeverStalls`, `CompleteMeansAll`, `LastTargetIsShown`, `NoPhantomTraffic`, `HistoryIsKept`, `NoSampleLost`, `AnswersAreRight` |
| `block_ban` | this host, 1 device, 1 network | finds `BanIsPermanent` violated |
| `dhcp_arp` | 1 client | finds `ArpClaimsGateway` violated |
| `dhcp_offer_ack` | 2 impatient clients, pool of 2, buffer of 2, loss | finds `AckMatchesOffer` violated |
| `sample_store` | the history alone | finds `AggregatedOnce` violated |

DHCP:

* **NoDuplicateLease** is the purpose of the table. It holds although
  `sendAck` tests and stores in two locked regions, because the only call that
  can take an address in between is `addStaticLease`, whose addresses are
  accounted for in `contested`.
* **ReplyNamesRecordedAddress** and **BlockedGetsPoison** are about the gaps
  between recording, asking `isBlocked` and sending. The second one holds of every
  reply but one: a block or unblock that comes after `isBlocked` and before the
  transmission is too late for it (`late`). **LiveLeaseIsKept** is about step 1 of
  `allocateIP`. **ImplementsLeaseBook** is the refinement of `LeaseBook`.
* **NoAddressConflict** and **RecordOutlivesUse** are seen from the devices:
  what the table must guarantee whatever is lost, late or retried. The second
  one is subtle because `sendOffer` replaces a long lease with one of 60 s;
  it holds because a client that sends DISCOVER has stopped using its address.
  Both leave out the clients in `upset`, whose own record was rewritten or
  forgotten under their hands: two devices do use one address after a static
  lease for a client in use, or after a restart. They say that the clients whose
  records were left alone are not drawn in, whatever is done to the others.
* **EventuallyBound** holds for blocked clients too: they are refused when
  they reboot, and trapped with a poisoned lease when they start over.

Blocking:

* **NoLostBlock** is the race of two syncs: one thread may flush what the other
  has just added. It holds because every update re-reads `m_blockedMACs` after
  its own flush and only adds.
* **BlacklistEnforced** relates the database to the kernel. The gap is a block
  that overlaps a stop and start of gateway mode: the row may be written before
  `setGatewayModeActive` reads the list and the set changed after
  `unblockAll` cleared it, or the other way round; either order ends well. It
  asks for `applied`: a gateway learnt after gateway mode was started brings
  no list with it.
* **OffMeansOpen**: a block admitted while the mode was on does not survive the
  mode in the kernel, because `unblockAll` takes the table away and an `add`
  without a table fails. A crash leaves the table; the next start deletes it.
* **UnblockHolds** is about copies: the row, the manager's set, the elements a
  thread has read, the list it is applying, the server's set. It is limited to
  unblocks made with the GUI thread at rest. One made while the GUI thread
  re-applies the list may be undone: the list, or the elements of a sync, were
  read before it. TLC shows both when the limit is lifted; no document of the
  repository claims otherwise, so there is no run for it.
* **HostNeverBlocked** covers the three ways to a block at once.

Devices and names:

* **OneEntryPerDevice**: six sources report moves, two devices swap addresses,
  and old ARP entries tell the story backwards; an ordinary device still has
  one entry, and this machine, whose MAC is on every frame it forwards, has
  none but its own.
* **RouterNeverBlocked** and **DefaultDeny** are the two sides of strict mode:
  whoever enters unknown is refused in the same step, but never the router or
  this machine, also before the router's MAC is known and after the list was
  cleared. **GatewayStaysKnown** protects the key under which everything about
  a network is stored from replies without a MAC.
* **NamesAreKept**: step 4 answers seconds later; it must not replace what a
  lease or the sniffer brought meanwhile. **SilentGoesOffline** is the promise
  of the 45 s.

Filtering:

* **OwnAnswer** is what an identifier is for. The
  exception `shared` is the price of matching by the identifier alone; without
  it TLC shows an answer to another name in the cache.
* **BlockedIsRefused** is about what the cache and the retry still hold of the
  time before the list came.
* **NoQueryWaitsForever** covers answers that are lost on both upstreams.
* **ProxyFollowsSwitches** speaks of the moments when no call is on its way: the
  order of calls may differ from the order of switching, the end may not. The
  resolver is then on only if the server was started and visibility is on, and
  always if the server's thread is there as well.
* **ThreatOffDropsNothing**, **ThreatListComesBack**: a late download must not
  load a list that is off, and a rebuilt table is not left without addresses for
  ever.

Tools:

* **NeverAsksTwice**: a caller that found nothing in the cache asks later under
  another mutex; the answer may have come meanwhile.
* **NoWorkerOutlivesCall**: three nested waits have limits; what a late thread
  writes to must still exist. The destructors of the pools wait without limit.
* **EvidenceIsKept**: stages weigh less from one to the next; none takes back a
  capability, a maker or a model.
* **AuditNeverStalls**: a stale timer aborts a later port, but it also goes on.
* **CompleteMeansAll**: the last thread counts itself out after its result.
* **LastTargetIsShown**: what the thread fills in belongs to the target that
  was asked for last, once no look-up runs.
* **NoPhantomTraffic**, **HistoryIsKept**: with a
  device that keeps its address and one that moves, resets of the counters and
  maps that arrive late, no device with an address of its own is charged more
  than it received, and no record loses bytes.
* **NoSampleLost**: what pruning deletes has been rolled up before.
* **AnswersAreRight** compares the bit arithmetic with sets of addresses: the
  audit lists the hosts, the parts tile the network, the route is the tightest
  around the addresses in front of the slashes. Lines may have no address, and
  they have prefixes; a list without any address gives the whole space, of which
  the property says nothing.

Findings (details in `PROJECT.json`): the ARP frames for blocked clients name
the byte-reversed gateway address (comment at `core/DhcpServer.cpp:1100`); an
ACK may differ from its OFFER when the pending lease ran out
(`DHCP_SERVER_IMPLEMENTATION.md:230`); a ban does not reach a server started
after it (`DHCPManager.h:67`, "Permanently block a MAC"); every roll-up pass
inserts the rows it inserted before (`DatabaseManager.cpp:694`, "that don't
already exist").

Three more places where the code and what it says of itself differ were met while
modelling. The models follow the code, and the properties leave these cases out
by name; they have no runs of their own:

* The resolver does not run "in lockstep with the DHCP server itself"
  (`NetworkManager.cpp:568`): when the server's thread ends on its own, `m_isRunning`
  stays true, no signal is sent, and the resolver is started or runs on. Switching
  DNS visibility off and on then leaves it off, because that path asks for the
  thread (1017). In `FilterControl`: `ServerEnds` with `proxy` on.
* "If totalBytesDown < prevTotalBytesDown it means TrafficMonitor was reset"
  (`BandwidthEngine.cpp:193`) is not so: the previous counter belongs to the MAC,
  the counter to the address. A device that moves to an address which has counted
  less loses what was counted there, against "Carries historical totals forward"
  (`BandwidthEngine.h:24`). In `Traffic`: two bytes at one address, one at the next.
* "Combine into Single Network" (`gui/IPCalculatorPage.cpp:303`) does not: `aggregate`
  cuts the prefixes off (`IPCalculator.cpp:77`), so that 192.168.0.0/16 alone gives
  192.168.0.0/32, and lines without any IPv4 address give 0.0.0.0/0 as the "Optimal
  Combined Route". In `AddressCalc`: the single line 0/0.

What was met as well and is part of the models, and no document claims otherwise:

* Inventory: the status of a listed, online address is not judged again when
  another device takes it over; a lease without a hostname overwrites the name
  by "Unknown"; a moved device keeps its old time stamp.
* DNS: answers are matched by identifier alone; after 20 draws a pending query
  is overwritten and its client is never answered.
* Filter: `initFirewall` empties the threat set while the page goes on showing
  its size; a domain list that arrives after the switch-off is applied.
* Vendors: a cached name loses a suffix per hit; an older parse may overwrite a
  newer table; a file cut off by a crash counts as fresh; a 404 is kept for
  ever within a run.
* Names and router: a description is fetched from whatever host the reply
  names; a rescan without a gateway leaves the button disabled; the old
  gateway's result is shown after a change of networks.
* Scanners: a stale timer makes a later port look closed; progress arrives
  after the end; a sweep's result for the gateway ends the router page's scan.
* DHCP: a static lease, an expiry or a restart does not reach the client whose
  record it changes; a block that comes while a reply is being composed is too
  late for it.
* Traffic: a device that takes over an address is charged its counter; bytes
  counted while a MAC is unknown stay with the address; bytes between a reset and
  the next tick are skipped.
* Calculator: first and last host of /31 and /32 wrap around.

### Bounds

* DHCP: three clients on a pool of two exhaust it; two are enough for every
  conflict between two records and are used where frames multiply the states.
  `Pinnable`, the addresses the operator pins, is the address that is not the
  fallback, so that the fallback can become shared through exhaustion alone; in
  `dhcp_liveness` the pool's one address may be pinned for the wrong client.
* Pool 5..6 in base 4 is 1.1 (the same both ways) and 1.2 (9 when reversed);
  the foreign address 9 makes option 50 of a DISCOVER name a pool address by
  accident.
* With clients, `LeaseTime` 2 > `PendingTime` 1 keeps the order of the real
  times. In `dhcp_server` all times are one tick: what its properties say of a
  record does not depend on how long it still runs, and the proofs hold for all
  times. Static leases last as long as ordinary ones, which is worse than ten
  years for every safety property.
* `MaxCalls` 1 is one call on a record or one restart, at any moment and on any
  client; in `dhcp_network` that leaves one client out of the properties, or both.
  `dhcp_network` has no block-list changes: a block changes replies only, and
  `dhcp_liveness` and `dhcp_server` have them.
* `Buffer` 1 lets a retry, or another client's packet, wait behind the one the
  handler is at; the proofs hold for every length. What the last step sent (`out`)
  is read by no guard and by neither invariant of `dhcp_network`, hence its `VIEW`.
* `MaxListed` 2 bounds the rows of the blacklist: two devices on one network,
  or one on each of two. Two networks let the gateway change while the other
  network's rows exist; the devices differ in being remembered (`Known`).
* `Sighting` in `device_inventory` is what the segment may show: every device
  at its place, one that moves between two addresses, one that takes the first
  of them over, and a frame this machine forwarded. `Stale` 1: an entry is
  fresh or due. `Suspect`, whom the operator blocks, is one device; the other
  one is trusted.
* `Id` in `dns_proxy` has two identifiers, so that they run out with three
  questions; `MaxAge` 2 > `RetryAge` 1 leaves a step for the retry; one query
  per second and client exercises the rate limit.
* `MaxQueue` 3 lets a start, a stop and a list be on their way together;
  `MaxFetch` 1, because the code aborts no download but a second one brings
  nothing the first does not.
* `tools`: two callers and two prefixes, one of them in the IEEE list, a queue
  of one; two addresses and four protocols on a pool of one (NBNS runs through
  the code of LLMNR); two gateways, one a hotspot with a random MAC in turn,
  two models that both match; five ports, so that a 200 ms timer outlives
  several; three devices on two threads; two domains and an address, two
  look-ups overlapping; two devices on three addresses, one byte each; a clock
  of six units with buckets of 2, 4 and 8; addresses of 3 bits, lists of lines
  with and without an address.
* Actions are guarded by bounds where a frame needs room in the buffer
  (`Buffer`), a block a row in the table (`MaxListed`), a call, signal or reply
  room in a queue (`MaxQueue`, `MaxFetch`, `MaxEvents`, `MaxAsked`,
  `MaxBacklog`, `MaxLookups`, `MaxReplies`, `MaxSignals`, `MaxUpdates`), and
  where counts grow (`MaxList`, `MaxBytes`, `MaxTotal`, `MaxClock`, `MaxRx`).
  `MaxQueue` of `VendorLookup` and `MaxThreads` are limits of the code itself.

### Fairness

`NetFairness` is weak fairness of the server thread (`Receive`, `Proceed`: the
poll loop never waits for anything but frames), and of a client that takes
what it received or gives up. A client that has no address keeps trying, and
answers an offer: strong fairness there, since other clients can fill the
bounded buffer again and again. The segment loses frames only finitely often.
Nobody has to renew, release, block or unblock, and time need not pass.

`DeviceInventory` and `DnsProxy` assume weak fairness of what a repeating timer
runs (`CleanUpStaleDevices` every 20 s, `CleanupTick` every second), the former
also of the scan thread, which has a limit on everything it waits for.

`FilterControl` assumes that event loops serve what is queued (`ServeProxy`,
`DhcpStatus`), that a function which has started runs to its end (`Clear`,
`Flush`, `Load`, `DeleteTables`, `CreateTables`: weak fairness of its next
command), and that the refresh timer fires and not every download fails (strong
fairness of `RefreshThreats` and of a successful `ThreatsFetched`): a list that
can never be fetched cannot come back.

## 4. What is proved

`DhcpServerProofs` proves, for every set of clients, pool, set of packets and
choice of times allowed by the three assumptions of `DhcpServer`:

| Theorem | Property |
|---|---|
| `TypeCorrect` | `TypeOK` |
| `OneOwnerPerAddress` | `NoDuplicateLease` |
| `RepliesAreRecorded` | `ReplyNamesRecordedAddress` |
| `BlockedIsPoisoned` | `BlockedGetsPoison` |
| `LiveLeasesStay` | `LiveLeaseIsKept` |
| `Refinement` | `ImplementsLeaseBook` |

The inductive invariant is

    TableInv == TypeOK /\ NoDuplicateLease /\ StoreIsFree /\ AnswerIsRecorded
    IInv == TableInv /\ PoisonIsCurrent

`NoDuplicateLease` alone is not inductive: `StoreAsserted` writes without
looking, so the proof must know that the address found free by `CheckAsserted`
is still free (`StoreIsFree`), or was pinned. `AnswerIsRecorded` does the same
for the gaps before the reply, and `PoisonIsCurrent` says that a composed reply
agrees with the block list unless a call has changed it since. The first two are
preserved by every public call: a call
that makes a lease live is `AddStaticLease`, which puts the address into
`contested`; the others only shorten leases; the clock too. `IInv` was
checked with TLC on the constants of `dhcp_server` before it was proved.

The allocator's part is one lemma (`Allocation`): the address returned is the
client's own, the one asked for, or the first free one of the walk, is in use
by no other client unless the pool is exhausted, and lies in the pool or in
the client's record; the walk visits the whole pool (`CandidateCoversPool`),
which the refinement needs to show that the fallback is used only when every
pool address is owned.

The action properties and the refinement follow from `Spec => []IInv`, one
step per action.

`DhcpNetworkProofs` puts that server on a segment that loses and delays frames,
with any number of RFC 2131 clients that give up, retry, renew and stop, any
buffer and any times:

| Theorem | Property |
|---|---|
| `SegmentImplementsServer` | `Spec` of `DhcpServer` |
| `ServerGuaranteesHold` | the five properties of the server and its refinement |
| `NetTypeCorrect` | `NetTypeOK` |
| `RecordsOutliveUse` | `RecordOutlivesUse` |
| `AddressesDoNotConflict` | `NoAddressConflict` |

Every step of the segment is a step of the server with some packet, or leaves
its variables alone (`NetStepIsServerStep`), so that all that was proved of the
server holds here without another proof. What concerns the clients needs

    NetInv == NetTypeOK /\ FramesInv /\ AnswerIsExact /\ \A m \in MAC : ClientInv(m)

`RecordOutlivesUse` says nothing of an exchange that is under way, and so is not
inductive: what if an acknowledgement of long ago arrives now? The argument goes
along the life of a frame. The frame of the exchange a client is in is the newest
of that client (`LiveFrameIsLast`); while the server works for it, and while its
reply is on the wire, nothing else of that client waits to be handled
(`LiveHandlerIsLast`, `RepliesAreLast`), so that no older DISCOVER can turn the
record into a pending one of 60 s between the acknowledgement and its arrival.
What is granted then lasts, counted from the moment the client asked, the full
lease time (`GrantIsFresh`). A client that uses an address sends nothing but
renewals of it, which the server grants (`UserOnlyRenews`), and its record
outlives its own clock (`RecordOutlives`). `NoAddressConflict` follows: two
clients with one address would have two records of it that run, against
`NoDuplicateLease` of the server. Calls on records and restarts are part of the
argument: what is said of a client is said of those outside `upset`, and what is
done to another client's record leaves it true. The invariant was checked with TLC on small
instances, patient clients and impatient ones, before it was proved.

`BlockEnforcementProofs` and, on top of it, `BlockSafetyProofs` prove, for every
set of devices and networks and any bound on the rows:

| Theorem | Property |
|---|---|
| `BlockTypeCorrect` | `TypeOK` |
| `NoBlockIsLost` | `NoLostBlock` |
| `UnblockIsLasting` | `UnblockHolds` |
| `HostIsSpared` | `HostNeverBlocked` |
| `OffIsOpen` | `OffMeansOpen` |
| `BlacklistIsEnforced` | `BlacklistEnforced` |

`TInv` adds to the types that a thread at rest has nothing left over. For
`NoLostBlock` the strengthening is `Covered`: every device the firewall manager
holds is in the kernel's set, or some thread has yet to read `m_blockedMACs`,
or has read it with the device in it and has yet to add. A flush moves devices
from the first case to the second, a read to the third, an add back to the
first. For `UnblockHolds` it is `FInv`: no copy of a freed device is on its way
(`NotUnderway`), not in a list, nor in elements read, nor in the hands of a
thread that blocks; what the kernel and the DHCP manager still hold, the
unblock itself is about to remove (`Unbanning`).

The last three are one argument each. `HostInv`: this machine is in no list, in
no elements read, and in no thread's hands but those of an unblock. `OpenInv`:
with the mode off and a table there, or about to be created by `activate`, what
the firewall holds and what the network thread is about to add was blocked by a
call that ignores the mode (`Open`, `Allowed`); a block overtaken by the end of
the mode finds no table, and `activate` creates the tables over a list that
`unblockAll` has emptied (`Empty`). `ListInv`: in gateway mode the tables exist
or a thread is creating them (`Rebuilt`), and once the list was read each row is
blocked, or still to be re-applied by the GUI thread, or in the hands of a thread
before its edit (`Reapplied`); with `Covered` that reaches the kernel. All three
need the shapes of the two threads' tasks (`Shapes`): which thread may stand
where, for which operation.

`InventoryProofs` proves, for every set of addresses, devices and names, every
segment (`Sighting`) and every white list:

| Theorem | Property |
|---|---|
| `InventoryTypeCorrect` | `TypeOK` |
| `RouterIsSafe` | `RouterNeverBlocked` |
| `GatewayIsKept` | `GatewayStaysKnown` |
| `DevicesAreListedOnce` | `OneEntryPerDevice` |
| `NamesStay` | `NamesAreKept` |
| `StrictnessIsImmediate` | `DefaultDeny` |

`StepFacts` sorts the steps by what they do to the list: a device was seen at an
address (`Seen`: its old entry goes, one entry is written), a lease was reported,
entries were rewritten in place (`Rewritten`: names, ages, offline), a scan
registered this machine and the router, or the list was cleared. Each theorem
goes through these instead of the actions. `RouterNeverBlocked` is inductive
with the types (`EnforcedSparesRouter`: what is blacklisted was seen at an
ordinary address). `OneEntryPerDevice` is not: the strengthening `Places` adds
`Home`, that this machine's MAC is listed at its own address only and no ordinary
device at the address of this machine or the router, so that the entry which
`Departed` finds is the only one to be taken away. The action properties need
the types only.

`DnsProxyProofs` proves, for every set of clients, names and identifiers, every
list and all time-outs:

| Theorem | Property |
|---|---|
| `TypeCorrect` | `TypeOK` |
| `AnswersAreOwn` | `OwnAnswer` |
| `FilterIsKept` | `BlockedIsRefused` |

`OwnAnswer` speaks of the datagram just sent. Its invariant, `AnswerInv`, speaks
of what such a datagram may come from: a cache entry is the answer to its name
or marked `shared`, and whatever may still be answered under the identifier of
a pending query is the query's name, or the query is `shared` (`Matches`).

`FilterControlProofs`, for every length of the queues:

| Theorem | Property |
|---|---|
| `ProxyFollows` | `ProxyFollowsSwitches` |
| `OffDropsNothing` | `ThreatOffDropsNothing` |

`ProxyInv` looks through the queues: the last signal on its way carries the
DHCP manager's flag, and the state the resolver will have when its queue
is served (`WillRun`: the last start or stop in it, or what it is now) is what
the switches call for as soon as the signals are served.

`ToolsProofs`, each theorem about the `...Spec` of its part, and
`ToolsAreCorrect` about `Tools`:

| Theorem | Property | Invariant |
|---|---|---|
| `AsksOnce` | `NeverAsksTwice` | `VendorInv`: what is queued or asked is in `m_apiPending`, a prefix with an answer in the cache is in neither; `CallerFits`: what a caller has read before its next step |
| `NamesAreJoined` | `NoWorkerOutlivesCall` | `NamesInv`: a worker that is off has no sub-thread, and when the call returns all workers are off |
| `EvidenceStays` | `EvidenceIsKept` | `RouterInv`: the fields of the record |
| `AuditGoesOn` | `AuditNeverStalls` | `AuditInv`: the port being tried has a timer of its own, the newest |
| `SweepsAreComplete` | `CompleteMeansAll` | `SweepInv`: a sweep is called, in the pool, or over with the news on its way, one at a time; the count is that of the tasks; every result is heard before the end (`HeardBefore`) |
| `LastLookupIsShown` | `LastTargetIsShown` | `IntelInv`: the last call that waits, or else the thread, is at the last target, and what it has filled is up to date (`UpToDate`: the last signal for a card, or the card) |
| `TrafficTypeCorrect` | `TrafficTypeOK` | a map gives every device one address at most |
| `HistoryStays` | `HistoryIsKept` | that type invariant |
| `NoPhantom` | `NoPhantomTraffic` | `PhantomInv`, see below |
| `PageIsRight` | `AnswersAreRight` | `CalcInv`: the answer belongs to the last question, the list to the answer, the rows and the route to the last division and aggregation |
| `SamplesAreKept` | `NoSampleLost` | `StoreInv`: the types, and no total above the bound, so that every bucket has a greatest one |

`NoPhantomTraffic` compares a total with what the device really carried, and the
two are far apart: snapshots wait in the queue while the counter runs on or is
reset, and the map may change between two of them. `PhantomInv` speaks of all
readings a record has taken or will take (`Told`: the last one, those in the
queue, the counter) and says that the bytes carried at the moment of each can be
chosen so that they never fall, no two readings differ by more than was carried
between them, and the total is no more than what was carried at the last reading
taken (`Explains`, `Explained`). A packet moves the last reading only
(`CounterMoves`), a snapshot copies it (`EventIsPosted`), an event that is served
makes the next reading the last one taken (`EventIsTaken`), and a reset is a
reading that is not there. The maps matter in one place: those on their way place
a device where it may be (`PlacesAreLegal`), so that the records of a settled
device are fed from one address (`FedFromOneAddress`).

`NoSampleLost` needs a greatest element of a bounded set of numbers. Induction
with an operator as a parameter is out of reach, but a well-founded order has
minimal elements (`WFMin`), a theorem about sets, which gives `LeastNumber` and
`GreatestNumber`, and with them proofs by a least counterexample.

`AnswersAreRight` is arithmetic with powers of two, of which the provers know
nothing. The library's theorem on the number of subsets of a finite set gives
their recursion (`PowersOfTwo`), a least counterexample their sums
(`PowersAdd`). A block, defined by the leading bits, is then a stretch of
addresses from a multiple of its size on (`BlockIsStretch`), and the rest is
about stretches: the hosts are what lies between the ends of one
(`RangeHasHosts`), the parts cut one up (`PartsTile`), and addresses between two
of one stretch are in it (`BoundsOfList`, `AggregateIsTight`). It needs the assumption that a
network is never divided into more parts than there are addresses, which the
page's limit of 256 guarantees.

All safety properties of the runs that pass are proved. Only model-checked are the
refutations of the four claims, and liveness (`EventuallyBound`,
`SilentGoesOffline`, `NoQueryWaitsForever`, `ThreatListComesBack`), which is out of
the prover's reach.

## 5. Not modelled, and the plan

Not modelled, with the reason:

* **Captive portal and block page**: no code switches them on (`setEnabled`,
  `setServerIp` and `setDeviceBlockPage` have no caller).
* **Packet capture**: a libpcap loop in a thread. What it reports is an input of
  `DeviceInventory` and `Traffic`.
* **`mainwindow.cpp` and `networkscanner.cpp`**: not part of the build.
* **GUI layout**: pages are modelled where a slot changes what a module holds;
  tables, charts, delegates and wording are not.
* **Decoration of devices**: types, aliases, latencies, speed profiles, trust
  scores; the fingerprint that recognises a device after a MAC rotation is an
  input of `BlockEnforcement`.
* **Wire formats and matching of texts**: DNS, mDNS, NBNS, SSDP, SNMP, HTTP
  banners. What a handler concludes from a message is a choice.
* **Undefined behaviour without an outcome**: a call on a deleted DHCP server
  (`DHCPManager.cpp:122`), a descriptor closed by another thread and reused
  (`DhcpServer.cpp:97`), both in the list of hazards.
* **nft missing or failing**, redirection to the block page, the white list in
  the DHCP manager.

The plan, in this order: the white list and allowed leases in `BlockEnforcement`;
an abstract specification of what a block promises, over the nft set and the
leases together, and its refinement by `BlockEnforcement`.
