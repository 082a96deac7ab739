----------------------------- MODULE DhcpServer -----------------------------
(***************************************************************************)
(* The DHCP server thread of core/DhcpServer.cpp: its lease table, its     *)
(* address allocator and its packet handlers, with the calls that the GUI  *)
(* and network threads make on the same object.                            *)
(*                                                                         *)
(* The server handles one packet at a time, but a handler takes and drops  *)
(* m_leaseMutex several times.  Each locked region is one action here and  *)
(* "srv" says where the handler stands between two of them; the public     *)
(* methods (each one locked region) and the clock may come in between.     *)
(* Packets are arbitrary members of Packet: no client is trusted.          *)
(***************************************************************************)
EXTENDS Integers, FiniteSets

CONSTANTS
    MAC,            \* hardware addresses seen on the segment
    OwnMAC,         \* the host's own ones (m_hostMac, m_serverMac)
    IP,             \* IPv4 addresses, as numbers in host byte order
    ServerIP,       \* m_serverIpInt, also m_hostIpInt
    OtherServer,    \* another server's identifier (option 54)
    RangeStart,     \* m_rangeStartInt
    RangeEnd,       \* m_rangeEndInt
    Base,           \* values of one octet; an address is modelled with two
    LeaseTime,      \* m_config.leaseTimeSeconds, in ticks
    PendingTime,    \* how long an offer is remembered (60 s)
    PoisonTime,     \* lease time told to a blocked client (60 s)
    StaticTime,     \* how long a pinned lease lasts (10 years)
    Authoritative,  \* m_config.authoritative
    RouterIP,       \* m_config.routerIp
    Pinnable,       \* the addresses the operator may pin to a device
    Packet          \* the packets that may arrive, a subset of PacketType

NoIP == 0
Address == 0..(Base * Base - 1)

PacketType == [type : {"DISCOVER", "REQUEST", "DECLINE", "RELEASE"},
               mac : MAC,                          \* chaddr
               req : IP \cup {NoIP},               \* option 50
               sid : {NoIP, ServerIP, OtherServer},\* option 54
               ci : IP \cup {NoIP, ServerIP},      \* ciaddr
               dst : {"broadcast", "us", "other"}] \* Ethernet destination

ASSUME AddressAssumption ==
    /\ Base \in Nat \ {0}
    /\ IP \subseteq Address \ {NoIP}
    /\ RangeStart \in Nat /\ RangeEnd \in Nat
    /\ RangeStart <= RangeEnd
    /\ RangeStart..RangeEnd \subseteq IP
    /\ ServerIP \in Nat \ {NoIP} /\ OtherServer \in Nat \ {NoIP, ServerIP}
    /\ RouterIP \in Nat

ASSUME TimeAssumption ==
    /\ LeaseTime \in Nat /\ PendingTime \in Nat
    /\ PoisonTime \in Nat /\ StaticTime \in Nat

ASSUME InputAssumption ==
    /\ OwnMAC \subseteq MAC
    /\ Pinnable \subseteq IP
    /\ Authoritative \in BOOLEAN
    /\ Packet \subseteq PacketType

VARIABLES
    leases,     \* m_leases: MAC -> [ip, ttl]; ttl is expiry - now, at least 0
    offset,     \* m_currentIpOffset
    blocked,    \* m_blockedMACs
    srv,        \* where the packet handler stands
    out,        \* what the last step transmitted and emitted
    contested,  \* history: addresses the table may legally list twice
    late        \* history: whose block changed after the reply was composed

vars == <<leases, offset, blocked, srv, out, contested, late>>

-----------------------------------------------------------------------------
(* State *)

Total == RangeEnd - RangeStart + 1

\* A pending lease is one like any other: only its ttl is shorter.
Lease(ip, ttl) == [ip |-> ip, ttl |-> ttl]
NoLease == Lease(NoIP, 0)
LeaseType == [ip : IP, ttl : Nat] \cup {NoLease}

Idle == [at |-> "idle"]

\* "store": sendAck has found the asserted address free and dropped the lock;
\* "nakked": it has refused it and will send an offer for the same packet;
\* "answer": the lease is recorded, isBlocked is not asked yet;
\* "send": the reply is composed, with the poison or without, but not sent.
ReplyKind == {"offer", "ack", "rebootAck"}
ServerType == {Idle}
    \cup [at : {"store"}, mac : MAC, ip : IP, ttl : Nat]
    \cup [at : {"nakked"}, mac : MAC, req : IP \cup {NoIP}]
    \cup [at : {"answer"}, mac : MAC, ip : IP, as : ReplyKind]
    \cup [at : {"send"}, mac : MAC, ip : IP, as : ReplyKind, poison : BOOLEAN]

ReplyType ==
    [msg : {"OFFER", "ACK"}, mac : MAC, ip : IP, ttl : Nat, poisoned : BOOLEAN]
        \cup [msg : {"NAK"}, mac : MAC]
SignalType == [msg : {"leaseUpdated", "leaseExpired"}, mac : MAC, ip : IP]
ArpType == [msg : {"ARP"}, mac : MAC, spoofed : Nat, target : Nat]
OutputType == ReplyType \cup SignalType \cup ArpType

Nak(m) == [msg |-> "NAK", mac |-> m]
Signal(name, m, ip) == [msg |-> name, mac |-> m, ip |-> ip]

Init ==
    /\ leases = [m \in MAC |-> NoLease]
    /\ offset = 0
    /\ blocked = {}
    /\ srv = Idle
    /\ out = {}
    /\ contested = {}
    /\ late = {}

-----------------------------------------------------------------------------
(* The allocator *)

Known(m) == leases[m] # NoLease

\* An address read from the wire with memcpy and no ntohl, on a
\* little-endian host: its octets in the opposite order.
ByteSwap(x) == (x % Base) * Base + x \div Base

HeldByOther(m, ip) ==
    \E o \in MAC \ {m} : leases[o].ip = ip /\ leases[o].ttl > 0

InUse(ip) == \E o \in MAC : leases[o].ip = ip /\ leases[o].ttl > 0

\* Mutants of Sticky: no look at the others; the client counted among them.
StickyAlways(m) == Known(m)
StickyUnlessInUse(m) == Known(m) /\ ~InUse(leases[m].ip)

\* Step 1 of allocateIP: the client's last address, expired or not.
Sticky(m) == Known(m) /\ ~HeldByOther(m, leases[m].ip)

\* Step 2: the address asked for, when it is a pool address.
Askable(m, req) == req \in RangeStart..RangeEnd /\ ~HeldByOther(m, req)

\* Step 3: walk the pool from the offset.
Candidate(i) == RangeStart + ((offset + i) % Total)
\* Mutant of FreeSteps: the walk stops one short.
FreeStepsButLast == {i \in 0..(Total - 2) : ~InUse(Candidate(i))}

FreeSteps == {i \in 0..(Total - 1) : ~InUse(Candidate(i))}
FirstFree(i) == i \in FreeSteps /\ \A j \in FreeSteps : i <= j

Exhausted(m, req) == ~Sticky(m) /\ ~Askable(m, req) /\ FreeSteps = {}

\* allocateIP(m, req) returns ip and may move m_currentIpOffset.
AllocateIP(m, req, ip) ==
    \/ /\ Sticky(m)
       /\ ip = leases[m].ip
       /\ UNCHANGED offset
    \/ /\ ~Sticky(m) /\ Askable(m, req)
       /\ ip = req
       /\ UNCHANGED offset
    \/ /\ ~Sticky(m) /\ ~Askable(m, req)
       /\ \E i \in FreeSteps :
            /\ FirstFree(i)
            /\ ip = Candidate(i)
            /\ offset' = (offset + i + 1) % Total
    \/ /\ Exhausted(m, req)
       /\ ip = RangeStart
       /\ UNCHANGED offset

\* One locked region: allocate for m, record the result, announce a granted one.
Record(m, req, ttl, as) ==
    \E ip \in Address :
        /\ AllocateIP(m, req, ip)
        /\ leases' = [leases EXCEPT ![m] = Lease(ip, ttl)]
        /\ contested' = contested \cup {x \in {RangeStart} : Exhausted(m, req)}
        /\ srv' = [at |-> "answer", mac |-> m, ip |-> ip, as |-> as]
        /\ out' = {x \in {Signal("leaseUpdated", m, ip)} : as = "ack"}
        /\ UNCHANGED <<blocked, late>>

-----------------------------------------------------------------------------
(* Packet dispatch *)

\* processDhcpPacket: the host never serves itself.
FromOwnHost(p) == p.mac \in OwnMAC \/ p.ci = ServerIP

\* Sent to another server's Ethernet address.
ForOtherHost(p) == p.dst = "other"

\* A REQUEST that selects another server (option 54).
SelectsOther(p) == p.sid \notin {NoIP, ServerIP}

Refused(p) ==
    /\ p.type = "REQUEST" /\ Authoritative
    /\ ForOtherHost(p) \/ SelectsOther(p)

Dropped(p) ==
    \/ FromOwnHost(p)
    \/ ~Authoritative /\ (ForOtherHost(p) \/ (p.type = "REQUEST" /\ SelectsOther(p)))

Taken(p) == srv = Idle /\ p \in Packet /\ ~Dropped(p) /\ ~Refused(p)

\* A renewal with another server is refused so that the client comes to us.
NakForeign(p) ==
    /\ srv = Idle /\ p \in Packet
    /\ Refused(p) /\ ~Dropped(p)
    /\ out' = {Nak(p.mac)}
    /\ UNCHANGED <<leases, offset, blocked, srv, contested, late>>

\* sendOffer up to its unlock: option 50 is used in the byte order of the
\* wire, and the pending lease replaces whatever the client had.
Discover(p) ==
    /\ Taken(p) /\ p.type = "DISCOVER"
    /\ Record(p.mac, ByteSwap(p.req), PendingTime, "offer")

\* The address an INIT-REBOOT or renewing client asserts.
Asserted(p) == IF p.req # NoIP THEN p.req ELSE p.ci

\* Mutant of Asserts: an asserted 0.0.0.0 passes for an address.
AssertsAnything(p) == p.sid = NoIP

Asserts(p) == p.sid = NoIP /\ Asserted(p) # NoIP

\* Mutant of Request: the lease keeps the time of the offer.
RequestPending(p) ==
    /\ Taken(p) /\ p.type = "REQUEST"
    /\ ~Asserts(p)
    /\ Record(p.mac, NoIP, PendingTime, "ack")

\* sendAck when a server was selected or no address is asserted: the
\* allocator is asked without a wish, whatever option 50 says.
Request(p) ==
    /\ Taken(p) /\ p.type = "REQUEST"
    /\ ~Asserts(p)
    /\ Record(p.mac, NoIP, LeaseTime, "ack")

\* sendAck, INIT-REBOOT and renewing: the first locked region only looks.
CheckAsserted(p) ==
    /\ Taken(p) /\ p.type = "REQUEST"
    /\ Asserts(p)
    /\ \/ /\ ~HeldByOther(p.mac, Asserted(p))
          /\ srv' = [at |-> "store", mac |-> p.mac, ip |-> Asserted(p), ttl |-> LeaseTime]
          /\ out' = {}
       \/ /\ HeldByOther(p.mac, Asserted(p))
          /\ srv' = [at |-> "nakked", mac |-> p.mac, req |-> p.req]
          /\ out' = {Nak(p.mac)}
    /\ UNCHANGED <<leases, offset, blocked, contested, late>>

\* ... the second one stores the lease without looking again.
StoreAsserted ==
    /\ srv.at = "store"
    /\ leases' = [leases EXCEPT ![srv.mac] = Lease(srv.ip, srv.ttl)]
    /\ out' = {Signal("leaseUpdated", srv.mac, srv.ip)}
    /\ srv' = [at |-> "answer", mac |-> srv.mac, ip |-> srv.ip, as |-> "rebootAck"]
    /\ UNCHANGED <<offset, blocked, contested, late>>

\* ... and a refusal is followed by an offer nobody discovered.
OfferAfterNak ==
    /\ srv.at = "nakked"
    /\ Record(srv.mac, ByteSwap(srv.req), PendingTime, "offer")

\* Mutant of AskBlocked: only sendOffer asks for its options.
AskBlockedForOffer ==
    /\ srv.at = "answer"
    /\ srv' = [at |-> "send", mac |-> srv.mac, ip |-> srv.ip, as |-> srv.as,
               poison |-> srv.as = "offer" /\ srv.mac \in blocked]
    /\ out' = {} /\ late' = {}
    /\ UNCHANGED <<leases, offset, blocked, contested>>

\* isBlocked, a locked region of its own after the lease was recorded,
\* decides what the reply will say.
AskBlocked ==
    /\ srv.at = "answer"
    /\ srv' = [at |-> "send", mac |-> srv.mac, ip |-> srv.ip, as |-> srv.as,
               poison |-> srv.mac \in blocked]
    /\ out' = {} /\ late' = {}
    /\ UNCHANGED <<leases, offset, blocked, contested>>

\* A poisoned reply names this host as router and DNS server.
Reply(m, msg, ip, poison) ==
    [msg |-> msg, mac |-> m, ip |-> ip,
     ttl |-> IF poison THEN PoisonTime ELSE LeaseTime,
     poisoned |-> poison]

\* A blocked client that rebooted or renewed is refused instead.
Composed ==
    IF srv.as = "rebootAck" /\ srv.poison THEN Nak(srv.mac)
    ELSE Reply(srv.mac, IF srv.as = "offer" THEN "OFFER" ELSE "ACK", srv.ip, srv.poison)

\* Mutant of SendReply: a blocked client gets no answer.
SendUnlessBlocked ==
    /\ srv.at = "send"
    /\ out' = {x \in {Composed} : ~srv.poison}
    /\ srv' = Idle /\ late' = {}
    /\ UNCHANGED <<leases, offset, blocked, contested>>

\* sendRawDhcpReply or sendNak: no lock is held and nothing is looked at again.
SendReply ==
    /\ srv.at = "send"
    /\ out' = {Composed}
    /\ srv' = Idle /\ late' = {}
    /\ UNCHANGED <<leases, offset, blocked, contested>>

Decline(p) ==
    /\ Taken(p) /\ p.type = "DECLINE"
    /\ leases' = [leases EXCEPT ![p.mac] = NoLease]
    /\ out' = {}
    /\ UNCHANGED <<offset, blocked, srv, contested, late>>

Release(p) ==
    /\ Taken(p) /\ p.type = "RELEASE" /\ Known(p.mac)
    /\ leases' = [leases EXCEPT ![p.mac].ttl = 0]
    /\ out' = {}
    /\ UNCHANGED <<offset, blocked, srv, contested, late>>

Handle(p) ==
    \/ NakForeign(p)
    \/ Discover(p)
    \/ Request(p)
    \/ CheckAsserted(p)
    \/ Decline(p)
    \/ Release(p)

ServerStep == StoreAsserted \/ OfferAfterNak \/ AskBlocked \/ SendReply

-----------------------------------------------------------------------------
(* The poll timeout of run() *)

\* ntohl of a value that is in host byte order already: the entry names the
\* byte-reversed addresses of the gateway and of the client.
ArpEntry(m) == [msg |-> "ARP", mac |-> m,
                spoofed |-> ByteSwap(RouterIP), target |-> ByteSwap(leases[m].ip)]

PoisonBlockedArpEntries ==
    /\ srv = Idle /\ RouterIP # NoIP
    /\ out' = {ArpEntry(m) : m \in {b \in blocked : Known(b)}}
    /\ UNCHANGED <<leases, offset, blocked, srv, contested, late>>

-----------------------------------------------------------------------------
(* Calls from other threads, and time *)

AddStaticLease(m, ip) ==
    /\ leases' = [leases EXCEPT ![m] = Lease(ip, StaticTime)]
    /\ contested' = contested \cup {ip}
    /\ out' = {Signal("leaseUpdated", m, ip)}
    /\ UNCHANGED <<offset, blocked, srv, late>>

\* Mutant of ExpireLease: the record is erased.
ExpireLeaseErasing(m) ==
    /\ Known(m)
    /\ leases' = [leases EXCEPT ![m] = NoLease]
    /\ out' = {Signal("leaseExpired", m, leases[m].ip)}
    /\ UNCHANGED <<offset, blocked, srv, contested, late>>

ExpireLease(m) ==
    /\ Known(m)
    /\ leases' = [leases EXCEPT ![m].ttl = 0]
    /\ out' = {Signal("leaseExpired", m, leases[m].ip)}
    /\ UNCHANGED <<offset, blocked, srv, contested, late>>

\* expireLease and a NAK; the NAK goes out even when nothing is recorded.
KickClient(m) ==
    /\ leases' = [leases EXCEPT ![m].ttl = 0]
    /\ out' = {Nak(m)} \cup {Signal("leaseExpired", x, leases[x].ip) : x \in {y \in {m} : Known(y)}}
    /\ UNCHANGED <<offset, blocked, srv, contested, late>>

SetBlockedMACs(S) ==
    /\ blocked' = S
    /\ late' = late \cup {m \in MAC : /\ srv.at = "send" /\ srv.mac = m
                                     /\ (m \in S) # (m \in blocked)}
    /\ out' = {}
    /\ UNCHANGED <<leases, offset, srv, contested>>

\* stopServer and startServer of DHCPManager: a new DhcpServer that knows no
\* lease, no offset and no blocked client takes over, wherever the old one's
\* handler was.
Restart ==
    /\ leases' = [m \in MAC |-> NoLease]
    /\ offset' = 0 /\ blocked' = {} /\ srv' = Idle
    /\ out' = {} /\ late' = {}
    /\ UNCHANGED contested

Less(t) == IF t > 0 THEN t - 1 ELSE 0

Tick ==
    /\ leases' = [m \in MAC |-> [leases[m] EXCEPT !.ttl = Less(@)]]
    /\ srv' = IF srv.at = "store" THEN [srv EXCEPT !.ttl = Less(@)] ELSE srv
    /\ out' = {}
    /\ UNCHANGED <<offset, blocked, contested, late>>

PublicCall ==
    \/ \E m \in MAC, ip \in Pinnable : AddStaticLease(m, ip)
    \/ \E m \in MAC : ExpireLease(m) \/ KickClient(m)
    \/ \E S \in SUBSET MAC : SetBlockedMACs(S)

Next ==
    \/ \E p \in Packet : Handle(p)
    \/ ServerStep
    \/ PoisonBlockedArpEntries
    \/ PublicCall \/ Restart
    \/ Tick

Spec == Init /\ [][Next]_vars

-----------------------------------------------------------------------------
(* Properties *)

\* Type correctness: every record is well formed, and the allocator's offset
\* (m_currentIpOffset) always points into the pool.
TypeOK ==
    /\ leases \in [MAC -> LeaseType]
    /\ offset \in 0..(Total - 1)
    /\ blocked \subseteq MAC
    /\ srv \in ServerType
    /\ out \subseteq OutputType
    /\ contested \subseteq IP
    /\ late \subseteq MAC

Live(m) == leases[m].ttl > 0

\* The table never holds two live leases for one address (allocateIP and
\* the conflict test of sendAck), except for an address that was pinned with
\* addStaticLease, which tests nothing, or that the allocator handed out
\* because the pool was exhausted.  sendAck tests and stores in two locked
\* regions, so this must survive a call made in between.
NoDuplicateLease ==
    \A a, b \in MAC :
        a # b /\ Live(a) /\ Live(b) /\ leases[a].ip = leases[b].ip
            => leases[a].ip \in contested

\* NoDuplicateLease is not inductive: while the lock is dropped, an address
\* found free stays free, and an answer keeps naming the recorded address.
StoreIsFree ==
    srv.at = "store" => ~HeldByOther(srv.mac, srv.ip) \/ srv.ip \in contested

AnswerIsRecorded ==
    srv.at \in {"answer", "send"} => leases[srv.mac].ip \in {srv.ip} \cup contested

\* ... and a composed reply is stale only if the block changed since.
PoisonIsCurrent ==
    srv.at = "send" /\ srv.mac \notin late => srv.poison = (srv.mac \in blocked)

TableInv == TypeOK /\ NoDuplicateLease /\ StoreIsFree /\ AnswerIsRecorded
IInv == TableInv /\ PoisonIsCurrent

\* What a reply promises is what the table says: the address in an OFFER or
\* an ACK is the one recorded for the client, although the lock is dropped
\* between recording and sending, unless a pinned one came in between.
ReplyNamesRecordedAddress ==
    [][\A r \in out' : r.msg \in {"OFFER", "ACK"} =>
          leases[r.mac].ip \in {r.ip} \cup contested]_vars

\* A client whose lease still runs is never moved: whatever it sends, and
\* whatever was pinned, kicked or granted to others since, the allocator
\* answers with the address of its live record (step 1 of allocateIP).
LiveLeaseIsKept ==
    [][srv.at # "answer" /\ srv'.at = "answer" /\ Live(srv'.mac) =>
          \/ srv'.as = "rebootAck"
          \/ leases[srv'.mac].ip \in {srv'.ip} \cup contested]_vars

\* Every path that hands an address to a client (OFFER, ACK, INIT-REBOOT)
\* delivers the poisoned configuration to those who are blocked when it
\* leaves and to nobody else, even if the block came or went while the
\* packet was being handled.  The code leaves one gap: a call between
\* isBlocked and the transmission (late) is not noticed by this reply.
BlockedGetsPoison ==
    [][\A r \in out' : r.msg \in {"OFFER", "ACK"} /\ r.mac \notin late =>
          (r.poisoned <=> r.mac \in blocked)]_vars

\* The comment above sendArpReply: a blocked client is told that the
\* gateway's address belongs to this host.
ArpClaimsGateway ==
    [][\A r \in out' : r.msg = "ARP" => r.spoofed = RouterIP]_vars

Book == INSTANCE LeaseBook WITH
    Pool <- RangeStart..RangeEnd,
    Fallback <- RangeStart,
    Pinned <- Pinnable,
    holds <- [m \in MAC |-> IF Live(m) THEN leases[m].ip ELSE NoIP],
    shared <- contested

\* The lease table implements the book of addresses it stands for: one
\* owner per address, and every exception accounted for.
ImplementsLeaseBook == Book!Spec
=============================================================================
