-------------------------- MODULE DhcpServerProofs --------------------------
(***************************************************************************)
(* Theorems about DhcpServer, for every pool, every set of clients and     *)
(* packets and all lease times.                                            *)
(***************************************************************************)
EXTENDS DhcpServer, TLAPS

-----------------------------------------------------------------------------
(* Lemmas on the helpers *)

\* The constants are numbers and the pool is a set of addresses.
LEMMA Constants ==
    /\ Total \in Nat /\ Total > 0
    /\ NoIP \notin IP
    /\ RangeStart..RangeEnd \subseteq IP /\ RangeStart \in IP
    /\ IP \subseteq Nat
    /\ LeaseTime \in Nat /\ PendingTime \in Nat /\ PoisonTime \in Nat /\ StaticTime \in Nat
BY AddressAssumption, TimeAssumption DEF Total, Address, NoIP

\* The walk of allocateIP stays inside the pool (uint32 modulo of
\* DhcpServer.cpp, once RangeStart <= RangeEnd).
LEMMA CandidateInPool ==
    ASSUME offset \in 0..(Total - 1), NEW i \in 0..(Total - 1)
    PROVE  /\ Candidate(i) \in RangeStart..RangeEnd
           /\ (offset + i + 1) % Total \in 0..(Total - 1)
<1> DEFINE x == (offset + i) % Total
           y == (offset + i + 1) % Total
<1>1. Total \in Nat /\ Total > 0
    BY Constants
<1>2. x \in 0..(Total - 1) /\ y \in 0..(Total - 1)
    BY <1>1
<1>3. Candidate(i) = RangeStart + x
    BY DEF Candidate
<1> HIDE DEF x
<1>4. Candidate(i) \in RangeStart..RangeEnd
    BY <1>2, <1>3, AddressAssumption DEF Total
<1> QED
    BY <1>2, <1>4

\* ... and it reaches every address of the pool, wherever it starts.
LEMMA CandidateCoversPool ==
    ASSUME offset \in 0..(Total - 1), NEW ip \in RangeStart..RangeEnd
    PROVE  \E i \in 0..(Total - 1) : Candidate(i) = ip
<1> DEFINE k == ip - RangeStart
           i == IF k >= offset THEN k - offset ELSE k - offset + Total
<1>1. Total \in Nat /\ Total > 0 /\ RangeStart \in Nat /\ ip \in Nat
    BY Constants, AddressAssumption
<1>2. k \in 0..(Total - 1)
    BY <1>1, AddressAssumption DEF Total
<1> HIDE DEF k
<1>3. i \in 0..(Total - 1)
    BY <1>1, <1>2
<1>4. offset + i = k \/ offset + i = k + Total
    BY <1>1, <1>2
<1>5. k % Total = k /\ (k + Total) % Total = k
    BY <1>1, <1>2
<1>6. Candidate(i) = RangeStart + k
    BY <1>4, <1>5 DEF Candidate
<1>7. Candidate(i) = ip
    BY <1>1, <1>6 DEF k
<1> QED
    BY <1>3, <1>7

\* What allocateIP returns is an address, it is free of other clients unless
\* the pool is exhausted, and the offset stays inside the pool.
LEMMA Allocation ==
    ASSUME TypeOK, NEW m \in MAC, NEW req, NEW ip, AllocateIP(m, req, ip)
    PROVE  /\ ip \in IP
           /\ offset' \in 0..(Total - 1)
           /\ ~HeldByOther(m, ip) \/ (Exhausted(m, req) /\ ip = RangeStart)
           /\ Sticky(m) => ip = leases[m].ip
<1>1. CASE Sticky(m) /\ ip = leases[m].ip /\ UNCHANGED offset
    <2>1. leases[m] \in [ip : IP, ttl : Nat]
        BY <1>1 DEF TypeOK, Sticky, Known, LeaseType
    <2> QED
        BY <1>1, <2>1 DEF Sticky, TypeOK
<1>2. CASE ~Sticky(m) /\ Askable(m, req) /\ ip = req /\ UNCHANGED offset
    BY <1>2, Constants DEF Askable, TypeOK
<1>3. CASE /\ ~Sticky(m) /\ ~Askable(m, req)
           /\ \E i \in FreeSteps : /\ FirstFree(i) /\ ip = Candidate(i)
                                   /\ offset' = (offset + i + 1) % Total
    <2>1. PICK i \in FreeSteps : ip = Candidate(i) /\ offset' = (offset + i + 1) % Total
        BY <1>3
    <2>2. i \in 0..(Total - 1) /\ ~InUse(ip)
        BY <2>1 DEF FreeSteps
    <2>3. ip \in RangeStart..RangeEnd /\ offset' \in 0..(Total - 1)
        BY <2>1, <2>2, CandidateInPool DEF TypeOK
    <2>4. ~HeldByOther(m, ip)
        BY <2>2 DEF HeldByOther, InUse
    <2> QED
        BY <1>3, <2>3, <2>4, Constants
<1>4. CASE Exhausted(m, req) /\ ip = RangeStart /\ UNCHANGED offset
    BY <1>4, Constants DEF TypeOK, Exhausted
<1> QED
    BY <1>1, <1>2, <1>3, <1>4 DEF AllocateIP

-----------------------------------------------------------------------------
(* Type correctness *)

\* One locked region of sendOffer or sendAck keeps the state well formed.
LEMMA RecordType ==
    ASSUME TypeOK, NEW m \in MAC, NEW req, NEW ttl \in Nat, NEW as \in {"offer", "ack"},
           Record(m, req, ttl, as)
    PROVE  TypeOK'
<1>1. PICK ip \in Address :
        /\ AllocateIP(m, req, ip)
        /\ leases' = [leases EXCEPT ![m] = Lease(ip, ttl)]
        /\ contested' = contested \cup {x \in {RangeStart} : Exhausted(m, req)}
        /\ srv' = [at |-> "answer", mac |-> m, ip |-> ip, as |-> as]
        /\ out' = {x \in {Signal("leaseUpdated", m, ip)} : as = "ack"}
        /\ UNCHANGED <<blocked, late>>
    BY DEF Record
<1>2. ip \in IP /\ offset' \in 0..(Total - 1)
    BY <1>1, Allocation
<1>3. leases' \in [MAC -> LeaseType]
    BY <1>1, <1>2 DEF TypeOK, Lease, LeaseType
<1>4. srv' \in ServerType
    BY <1>1, <1>2 DEF ServerType, ReplyKind
<1>5. out' \subseteq OutputType
    <2>1. Signal("leaseUpdated", m, ip) \in OutputType
        BY <1>2 DEF OutputType, SignalType, Signal
    <2> QED
        BY <1>1, <2>1
<1>6. blocked' \subseteq MAC /\ contested' \subseteq IP /\ late' \subseteq MAC
    BY <1>1, Constants DEF TypeOK
<1> QED
    BY <1>2, <1>3, <1>4, <1>5, <1>6 DEF TypeOK

\* Reading an address with its octets swapped gives a number again.
LEMMA ByteSwapNat ==
    ASSUME NEW x \in Nat
    PROVE  ByteSwap(x) \in Nat
<1>1. x % Base \in Nat /\ x \div Base \in Nat
    BY AddressAssumption
<1>2. \A y, z \in Nat : y * z \in Nat
    OBVIOUS
<1>3. (x % Base) * Base \in Nat
    BY <1>1, <1>2, AddressAssumption
<1> HIDE DEF NoIP
<1> QED
    BY <1>1, <1>3 DEF ByteSwap

LEMMA HandleType ==
    ASSUME TypeOK, NEW p \in Packet, Handle(p)
    PROVE  TypeOK'
<1>0. p.mac \in MAC /\ p.req \in IP \cup {NoIP} /\ p.ci \in IP \cup {NoIP, ServerIP}
    BY InputAssumption DEF PacketType
<1>1. CASE NakForeign(p)
    BY <1>0, <1>1 DEF NakForeign, TypeOK, Nak, OutputType, ReplyType
<1>2. CASE Discover(p)
    BY <1>0, <1>2, RecordType, Constants DEF Discover
<1>3. CASE Request(p)
    BY <1>0, <1>3, RecordType, Constants DEF Request
<1>4. CASE CheckAsserted(p)
    <2>1. Asserted(p) \in IP
        BY <1>0, <1>4, Constants DEF CheckAsserted, Taken, Dropped, FromOwnHost, Asserts, Asserted
    <2>2. srv' \in ServerType
        BY <1>0, <1>4, <2>1, Constants DEF CheckAsserted, ServerType
    <2>3. out' \subseteq OutputType
        BY <1>0, <1>4 DEF CheckAsserted, Nak, OutputType, ReplyType
    <2> QED
        BY <1>4, <2>2, <2>3 DEF CheckAsserted, TypeOK
<1>5. CASE Decline(p)
    BY <1>0, <1>5 DEF Decline, TypeOK, LeaseType, OutputType
<1>6. CASE Release(p)
    BY <1>0, <1>6 DEF Release, TypeOK, LeaseType, Known, NoLease, Lease, OutputType
<1> QED
    BY <1>1, <1>2, <1>3, <1>4, <1>5, <1>6 DEF Handle

LEMMA ServerStepType ==
    ASSUME TypeOK, ServerStep
    PROVE  TypeOK'
<1>1. CASE StoreAsserted
    <2>1. srv.mac \in MAC /\ srv.ip \in IP /\ srv.ttl \in Nat
        BY <1>1 DEF StoreAsserted, TypeOK, ServerType, Idle
    <2>2. leases' \in [MAC -> LeaseType]
        BY <1>1, <2>1 DEF StoreAsserted, TypeOK, LeaseType, Lease
    <2>3. srv' \in ServerType
        BY <1>1, <2>1 DEF StoreAsserted, ServerType, ReplyKind
    <2>4. out' \subseteq OutputType
        BY <1>1, <2>1 DEF StoreAsserted, OutputType, SignalType, Signal
    <2> QED
        BY <1>1, <2>2, <2>3, <2>4 DEF StoreAsserted, TypeOK
<1>2. CASE OfferAfterNak
    <2>1. srv.mac \in MAC
        BY <1>2 DEF OfferAfterNak, TypeOK, ServerType, Idle
    <2> QED
        BY <1>2, <2>1, RecordType, Constants DEF OfferAfterNak
<1>3. CASE AskBlocked
    <2>1. srv.mac \in MAC /\ srv.ip \in IP /\ srv.as \in ReplyKind
        BY <1>3 DEF AskBlocked, TypeOK, ServerType, Idle
    <2>2. (srv.mac \in blocked) \in BOOLEAN
        OBVIOUS
    <2>3. srv' \in [at : {"send"}, mac : MAC, ip : IP, as : ReplyKind, poison : BOOLEAN]
        BY <1>3, <2>1, <2>2 DEF AskBlocked
    <2> QED
        BY <1>3, <2>3 DEF AskBlocked, TypeOK, ServerType, OutputType
<1>4. CASE SendReply
    <2>1. srv.mac \in MAC /\ srv.ip \in IP /\ srv.poison \in BOOLEAN
        BY <1>4 DEF SendReply, TypeOK, ServerType, Idle
    <2>2. /\ Reply(srv.mac, "OFFER", srv.ip, srv.poison) \in ReplyType
          /\ Reply(srv.mac, "ACK", srv.ip, srv.poison) \in ReplyType
          /\ Nak(srv.mac) \in ReplyType
        BY <2>1, Constants DEF Reply, Nak, ReplyType
    <2>3. out' \subseteq OutputType
        BY <1>4, <2>2 DEF SendReply, Composed, OutputType
    <2> QED
        BY <1>4, <2>3 DEF SendReply, TypeOK, ServerType
<1> QED
    BY <1>1, <1>2, <1>3, <1>4 DEF ServerStep

LEMMA PoisonType ==
    ASSUME TypeOK, PoisonBlockedArpEntries
    PROVE  TypeOK'
<1>1. \A m \in MAC : leases[m].ip \in Nat
    <2> TAKE m \in MAC
    <2>1. leases[m].ip \in IP \cup {0}
        BY DEF TypeOK, LeaseType, NoLease, Lease, NoIP
    <2>2. IP \cup {0} \subseteq Nat
        BY Constants
    <2> QED
        BY <2>1, <2>2
<1>2. \A m \in MAC : ArpEntry(m) \in ArpType
    BY <1>1, ByteSwapNat, AddressAssumption DEF ArpEntry, ArpType
<1>3. out' \subseteq OutputType
    BY <1>2 DEF PoisonBlockedArpEntries, TypeOK, OutputType
<1> QED
    BY <1>3 DEF PoisonBlockedArpEntries, TypeOK

LEMMA PublicCallType ==
    ASSUME TypeOK, PublicCall
    PROVE  TypeOK'
<1>1. ASSUME NEW m \in MAC, NEW ip \in Pinnable, AddStaticLease(m, ip)
      PROVE  TypeOK'
    BY <1>1, Constants, InputAssumption
    DEF AddStaticLease, TypeOK, LeaseType, Lease, OutputType, SignalType, Signal
<1>2. ASSUME NEW m \in MAC, ExpireLease(m)
      PROVE  TypeOK'
    <2>1. leases[m] \in [ip : IP, ttl : Nat]
        BY <1>2 DEF ExpireLease, TypeOK, LeaseType, Known
    <2>2. leases' \in [MAC -> LeaseType]
        BY <1>2, <2>1 DEF ExpireLease, TypeOK, LeaseType
    <2>3. out' \subseteq OutputType
        BY <1>2, <2>1 DEF ExpireLease, OutputType, SignalType, Signal
    <2> QED
        BY <1>2, <2>2, <2>3 DEF ExpireLease, TypeOK
<1>3. ASSUME NEW m \in MAC, KickClient(m)
      PROVE  TypeOK'
    <2>1. leases' \in [MAC -> LeaseType]
        BY <1>3 DEF KickClient, TypeOK, LeaseType, NoLease, Lease
    <2>2. ASSUME NEW x \in {y \in {m} : Known(y)}
          PROVE  Signal("leaseExpired", x, leases[x].ip) \in OutputType
        BY <2>2 DEF TypeOK, LeaseType, Known, OutputType, SignalType, Signal
    <2>3. Nak(m) \in OutputType
        BY DEF Nak, OutputType, ReplyType
    <2>4. out' \subseteq OutputType
        BY <1>3, <2>2, <2>3 DEF KickClient
    <2> QED
        BY <1>3, <2>1, <2>4 DEF KickClient, TypeOK
<1>4. ASSUME NEW S \in SUBSET MAC, SetBlockedMACs(S)
      PROVE  TypeOK'
    BY <1>4 DEF SetBlockedMACs, TypeOK
<1> QED
    BY <1>1, <1>2, <1>3, <1>4 DEF PublicCall

LEMMA TickType ==
    ASSUME TypeOK, Tick
    PROVE  TypeOK'
<1>1. \A t \in Nat : Less(t) \in Nat
    BY DEF Less
<1>2. \A m \in MAC : [leases[m] EXCEPT !.ttl = Less(@)] \in LeaseType
    BY <1>1 DEF TypeOK, LeaseType, NoLease, Lease, Less
<1>3. srv' \in ServerType
    <2>1. CASE srv.at = "store"
        BY <1>1, <2>1 DEF Tick, TypeOK, ServerType, Idle
    <2>2. CASE srv.at # "store"
        BY <2>2 DEF Tick, TypeOK
    <2> QED
        BY <2>1, <2>2
<1> QED
    BY <1>2, <1>3 DEF Tick, TypeOK

LEMMA RestartType ==
    ASSUME TypeOK, Restart
    PROVE  TypeOK'
BY Constants DEF Restart, TypeOK, LeaseType, ServerType, Idle, NoLease, OutputType

LEMMA NextType ==
    ASSUME TypeOK, [Next]_vars
    PROVE  TypeOK'
<1>1. CASE UNCHANGED vars
    BY <1>1 DEF vars, TypeOK
<1> QED
    BY <1>1, RestartType, HandleType, ServerStepType, PoisonType, PublicCallType, TickType DEF Next

\* Every record is well formed at all times and the allocator's offset stays
\* inside the pool, whatever the packets, the calls and their order.
THEOREM TypeCorrect == Spec => []TypeOK
<1>1. Init => TypeOK
    BY Constants DEF Init, TypeOK, LeaseType, ServerType, Idle, NoLease
<1>2. TypeOK /\ [Next]_vars => TypeOK'
    BY NextType
<1> QED
    BY <1>1, <1>2, PTL DEF Spec

-----------------------------------------------------------------------------
(* One owner per address *)

\* Leases that only run out, or are dropped, make no new owner.
LEMMA LapseKeepsUnique ==
    ASSUME TypeOK, TypeOK', NoDuplicateLease, contested \subseteq contested',
           \A m \in MAC : leases'[m].ttl > 0
                => leases[m].ttl > 0 /\ leases'[m].ip = leases[m].ip
    PROVE  /\ NoDuplicateLease'
           /\ \A m \in MAC, ip \in IP : ~HeldByOther(m, ip) => ~HeldByOther(m, ip)'
<1>1. NoDuplicateLease'
    BY DEF NoDuplicateLease, Live
<1>2. ASSUME NEW m \in MAC, NEW ip \in IP, ~HeldByOther(m, ip)
      PROVE  ~HeldByOther(m, ip)'
    BY <1>2 DEF HeldByOther
<1> QED
    BY <1>1, <1>2

\* A lease stored for a free (or contested) address keeps the table unique.
LEMMA StoreKeepsUnique ==
    ASSUME TypeOK, NoDuplicateLease, NEW m \in MAC, NEW ip \in IP, NEW ttl \in Nat,
           leases' = [leases EXCEPT ![m] = Lease(ip, ttl)],
           contested \subseteq contested',
           ~HeldByOther(m, ip) \/ ip \in contested'
    PROVE  NoDuplicateLease'
<1> SUFFICES ASSUME NEW x \in MAC, NEW y \in MAC, x # y, leases'[x].ttl > 0,
                    leases'[y].ttl > 0, leases'[x].ip = leases'[y].ip
             PROVE  leases'[x].ip \in contested'
    BY DEF NoDuplicateLease, Live
<1>1. leases'[m].ip = ip /\ \A o \in MAC \ {m} : leases'[o] = leases[o]
    BY DEF TypeOK, Lease
<1>2. CASE x = m
    BY <1>1, <1>2 DEF HeldByOther
<1>3. CASE y = m
    BY <1>1, <1>3 DEF HeldByOther
<1>4. CASE x # m /\ y # m
    BY <1>1, <1>4 DEF NoDuplicateLease, Live
<1> QED
    BY <1>2, <1>3, <1>4

LEMMA RecordUnique ==
    ASSUME TableInv, NEW m \in MAC, NEW req, NEW ttl \in Nat, NEW as \in {"offer", "ack"},
           Record(m, req, ttl, as)
    PROVE  TableInv'
<1>1. PICK ip \in Address :
        /\ AllocateIP(m, req, ip)
        /\ leases' = [leases EXCEPT ![m] = Lease(ip, ttl)]
        /\ contested' = contested \cup {x \in {RangeStart} : Exhausted(m, req)}
        /\ srv' = [at |-> "answer", mac |-> m, ip |-> ip, as |-> as]
    BY DEF Record
<1>2. ip \in IP /\ (~HeldByOther(m, ip) \/ (Exhausted(m, req) /\ ip = RangeStart))
    BY <1>1, Allocation DEF TableInv
<1>3. ~HeldByOther(m, ip) \/ ip \in contested'
    BY <1>1, <1>2
<1>4. NoDuplicateLease'
    BY <1>1, <1>2, <1>3, StoreKeepsUnique DEF TableInv
<1>5. leases'[m].ip = ip
    BY <1>1 DEF TableInv, TypeOK, Lease
<1>6. StoreIsFree' /\ AnswerIsRecorded'
    BY <1>1, <1>5 DEF StoreIsFree, AnswerIsRecorded
<1>7. TypeOK'
    BY RecordType DEF TableInv
<1> QED
    BY <1>4, <1>6, <1>7 DEF TableInv

LEMMA HandleUnique ==
    ASSUME TableInv, NEW p \in Packet, Handle(p)
    PROVE  TableInv'
<1>0. p.mac \in MAC /\ TypeOK'
    BY InputAssumption, HandleType DEF PacketType, TableInv
<1>1. CASE NakForeign(p)
    BY <1>0, <1>1 DEF NakForeign, TableInv, NoDuplicateLease, Live, StoreIsFree, HeldByOther,
                      AnswerIsRecorded
<1>2. CASE Discover(p)
    BY <1>0, <1>2, RecordUnique, Constants DEF Discover
<1>3. CASE Request(p)
    BY <1>0, <1>3, RecordUnique, Constants DEF Request
<1>4. CASE CheckAsserted(p)
    <2>1. NoDuplicateLease'
        BY <1>4 DEF CheckAsserted, TableInv, NoDuplicateLease, Live
    <2>2. StoreIsFree' /\ AnswerIsRecorded'
        BY <1>4 DEF CheckAsserted, StoreIsFree, HeldByOther, AnswerIsRecorded
    <2> QED
        BY <1>0, <2>1, <2>2 DEF TableInv
<1>5. CASE Decline(p)
    <2>1. \A m \in MAC : leases'[m].ttl > 0
                => leases[m].ttl > 0 /\ leases'[m].ip = leases[m].ip
        BY <1>0, <1>5 DEF Decline, TableInv, TypeOK, NoLease, Lease
    <2>2. srv' = Idle /\ contested' = contested
        BY <1>5 DEF Decline, Taken
    <2> QED
        BY <1>0, <2>1, <2>2, LapseKeepsUnique DEF TableInv, StoreIsFree, AnswerIsRecorded, Idle
<1>6. CASE Release(p)
    <2>1. \A m \in MAC : leases'[m].ttl > 0
                => leases[m].ttl > 0 /\ leases'[m].ip = leases[m].ip
        BY <1>0, <1>6 DEF Release, TableInv, TypeOK, LeaseType, NoLease, Lease
    <2>2. srv' = Idle /\ contested' = contested
        BY <1>6 DEF Release, Taken
    <2> QED
        BY <1>0, <2>1, <2>2, LapseKeepsUnique DEF TableInv, StoreIsFree, AnswerIsRecorded, Idle
<1> QED
    BY <1>1, <1>2, <1>3, <1>4, <1>5, <1>6 DEF Handle

LEMMA ServerStepUnique ==
    ASSUME TableInv, ServerStep
    PROVE  TableInv'
<1>0. TypeOK'
    BY ServerStepType DEF TableInv
<1>1. CASE StoreAsserted
    <2>1. srv.mac \in MAC /\ srv.ip \in IP /\ srv.ttl \in Nat
        BY <1>1 DEF StoreAsserted, TableInv, TypeOK, ServerType, Idle
    <2>2. ~HeldByOther(srv.mac, srv.ip) \/ srv.ip \in contested
        BY <1>1 DEF StoreAsserted, TableInv, StoreIsFree
    <2>3. NoDuplicateLease'
        BY <1>1, <2>1, <2>2, StoreKeepsUnique DEF StoreAsserted, TableInv
    <2>4. StoreIsFree' /\ AnswerIsRecorded'
        BY <1>1, <2>1 DEF StoreAsserted, TableInv, TypeOK, StoreIsFree, AnswerIsRecorded, Lease
    <2> QED
        BY <1>0, <2>3, <2>4 DEF TableInv
<1>2. CASE OfferAfterNak
    <2>1. srv.mac \in MAC
        BY <1>2 DEF OfferAfterNak, TableInv, TypeOK, ServerType, Idle
    <2> QED
        BY <1>2, <2>1, RecordUnique, Constants DEF OfferAfterNak
<1>3. CASE AskBlocked
    BY <1>0, <1>3 DEF AskBlocked, TableInv, NoDuplicateLease, Live, StoreIsFree, AnswerIsRecorded
<1>4. CASE SendReply
    BY <1>0, <1>4
    DEF SendReply, TableInv, NoDuplicateLease, Live, StoreIsFree, AnswerIsRecorded, Idle
<1> QED
    BY <1>1, <1>2, <1>3, <1>4 DEF ServerStep

\* Calls of other threads, in any window of the handler.
LEMMA PublicCallUnique ==
    ASSUME TableInv, PublicCall
    PROVE  TableInv'
<1>0. TypeOK' /\ srv \in ServerType /\ srv' = srv
    BY PublicCallType
    DEF TableInv, TypeOK, PublicCall, AddStaticLease, ExpireLease, KickClient, SetBlockedMACs
<1>a. /\ srv.at = "store" => srv.mac \in MAC /\ srv.ip \in IP
      /\ srv.at \in {"answer", "send"} => srv.mac \in MAC /\ srv.ip \in IP
    BY <1>0 DEF ServerType, Idle
<1>1. ASSUME NEW m \in MAC, NEW ip \in Pinnable, AddStaticLease(m, ip)
      PROVE  TableInv'
    <2>1. contested' = contested \cup {ip}
        BY <1>1 DEF AddStaticLease
    <2>2. /\ leases'[m] = Lease(ip, StaticTime)
          /\ \A o \in MAC \ {m} : leases'[o] = leases[o]
        BY <1>1 DEF AddStaticLease, TableInv, TypeOK
    <2>3. NoDuplicateLease'
        BY <1>1, <2>1, StoreKeepsUnique, Constants, InputAssumption DEF AddStaticLease, TableInv
    <2>4. StoreIsFree'
        BY <1>0, <1>a, <2>1, <2>2 DEF TableInv, StoreIsFree, HeldByOther, Lease
    <2>5. AnswerIsRecorded'
        BY <1>0, <1>a, <2>1, <2>2 DEF TableInv, AnswerIsRecorded, Lease
    <2> QED
        BY <1>0, <2>3, <2>4, <2>5 DEF TableInv
<1>2. ASSUME NEW m \in MAC, ExpireLease(m) \/ KickClient(m)
      PROVE  TableInv'
    <2>1. leases' = [leases EXCEPT ![m].ttl = 0] /\ contested' = contested
        BY <1>2 DEF ExpireLease, KickClient
    <2>2. \A o \in MAC : leases'[o].ttl > 0
                => leases[o].ttl > 0 /\ leases'[o].ip = leases[o].ip
        BY <2>1 DEF TableInv, TypeOK, LeaseType, NoLease, Lease
    <2>3. \A o \in MAC : leases'[o].ip = leases[o].ip
        BY <2>1 DEF TableInv, TypeOK, LeaseType, NoLease, Lease
    <2>4. NoDuplicateLease' /\ StoreIsFree'
        BY <1>0, <1>a, <2>1, <2>2, LapseKeepsUnique DEF TableInv, StoreIsFree
    <2>5. AnswerIsRecorded'
        BY <1>0, <1>a, <2>1, <2>3 DEF TableInv, AnswerIsRecorded
    <2> QED
        BY <1>0, <2>4, <2>5 DEF TableInv
<1>3. ASSUME NEW S \in SUBSET MAC, SetBlockedMACs(S)
      PROVE  TableInv'
    BY <1>0, <1>3
    DEF SetBlockedMACs, TableInv, NoDuplicateLease, Live, StoreIsFree, HeldByOther, AnswerIsRecorded
<1> QED
    BY <1>1, <1>2, <1>3 DEF PublicCall

LEMMA TickUnique ==
    ASSUME TableInv, Tick
    PROVE  TableInv'
<1>0. TypeOK' /\ srv \in ServerType
    BY TickType DEF TableInv, TypeOK
<1>1. \A m \in MAC : leases'[m].ip = leases[m].ip /\ leases'[m].ttl = Less(leases[m].ttl)
    BY DEF Tick, TableInv, TypeOK, LeaseType, NoLease, Lease
<1>2. \A m \in MAC : leases'[m].ttl > 0
            => leases[m].ttl > 0 /\ leases'[m].ip = leases[m].ip
    BY <1>1 DEF Less
<1>3. NoDuplicateLease' /\ \A m \in MAC, ip \in IP : ~HeldByOther(m, ip) => ~HeldByOther(m, ip)'
    BY <1>0, <1>2, LapseKeepsUnique DEF Tick, TableInv
<1>4. CASE srv.at = "store"
    <2>1. srv' = [srv EXCEPT !.ttl = Less(@)] /\ srv.mac \in MAC /\ srv.ip \in IP
        BY <1>0, <1>4 DEF Tick, ServerType, Idle
    <2>2. srv'.at = "store" /\ srv'.mac = srv.mac /\ srv'.ip = srv.ip
        BY <1>0, <1>4, <2>1 DEF ServerType, Idle
    <2> QED
        BY <1>0, <1>3, <1>4, <2>1, <2>2 DEF Tick, TableInv, StoreIsFree, AnswerIsRecorded
<1>5. CASE srv.at # "store"
    <2>1. srv' = srv /\ (srv.at \in {"answer", "send"} => srv.mac \in MAC)
        BY <1>0, <1>5 DEF Tick, ServerType, Idle
    <2> QED
        BY <1>0, <1>1, <1>3, <1>5, <2>1 DEF Tick, TableInv, StoreIsFree, AnswerIsRecorded
<1> QED
    BY <1>4, <1>5

LEMMA RestartUnique ==
    ASSUME TableInv, Restart
    PROVE  TableInv'
<1>1. \A m \in MAC : leases'[m].ttl = 0
    BY DEF Restart, NoLease, Lease
<1>2. NoDuplicateLease' /\ StoreIsFree' /\ AnswerIsRecorded'
    BY <1>1 DEF Restart, NoDuplicateLease, Live, StoreIsFree, AnswerIsRecorded, Idle
<1> QED
    BY <1>2, RestartType DEF TableInv

LEMMA NextUnique ==
    ASSUME TableInv, [Next]_vars
    PROVE  TableInv'
<1>1. CASE UNCHANGED vars
    BY <1>1 DEF vars, TableInv, TypeOK, NoDuplicateLease, Live, StoreIsFree, HeldByOther,
                AnswerIsRecorded
<1>2. CASE PoisonBlockedArpEntries
    BY <1>2, PoisonType
    DEF PoisonBlockedArpEntries, TableInv, NoDuplicateLease, Live, StoreIsFree, HeldByOther,
        AnswerIsRecorded
<1> QED
    BY <1>1, <1>2, HandleUnique, ServerStepUnique, PublicCallUnique, RestartUnique, TickUnique
    DEF Next

\* What isBlocked said stays true until the reply leaves, or its client is late.
LEMMA NextPoison ==
    ASSUME TypeOK, PoisonIsCurrent, [Next]_vars
    PROVE  PoisonIsCurrent'
<1>0. srv.at = "send" => srv.mac \in MAC
    BY DEF TypeOK, ServerType, Idle
<1>1. CASE UNCHANGED vars
    BY <1>1 DEF vars, PoisonIsCurrent
<1>2. ASSUME NEW m, NEW req, NEW ttl, NEW as, Record(m, req, ttl, as)
      PROVE  srv'.at = "answer"
    BY <1>2 DEF Record
<1>3. ASSUME NEW p \in Packet, Handle(p)
      PROVE  PoisonIsCurrent'
    BY <1>2, <1>3
    DEF Handle, NakForeign, Discover, Request, CheckAsserted, Decline, Release, Taken, Idle,
        PoisonIsCurrent
<1>4. CASE StoreAsserted \/ OfferAfterNak \/ AskBlocked \/ SendReply
    BY <1>2, <1>4 DEF StoreAsserted, OfferAfterNak, AskBlocked, SendReply, Idle, PoisonIsCurrent
<1>5. CASE PoisonBlockedArpEntries \/ Restart
    BY <1>5 DEF PoisonBlockedArpEntries, Restart, Idle, PoisonIsCurrent
<1>6. ASSUME NEW m \in MAC, \/ \E ip \in Pinnable : AddStaticLease(m, ip)
                            \/ ExpireLease(m) \/ KickClient(m)
      PROVE  PoisonIsCurrent'
    BY <1>6 DEF AddStaticLease, ExpireLease, KickClient, PoisonIsCurrent
<1>7. ASSUME NEW S \in SUBSET MAC, SetBlockedMACs(S)
      PROVE  PoisonIsCurrent'
    BY <1>0, <1>7 DEF SetBlockedMACs, PoisonIsCurrent
<1>8. CASE Tick
    BY <1>8 DEF Tick, TypeOK, ServerType, Idle, PoisonIsCurrent
<1> QED
    BY <1>1, <1>3, <1>4, <1>5, <1>6, <1>7, <1>8 DEF Next, ServerStep, PublicCall

LEMMA Invariance == Spec => []IInv
<1>1. Init => IInv
    <2>1. Init => TypeOK
        BY Constants DEF Init, TypeOK, LeaseType, ServerType, Idle, NoLease
    <2>2. Init => NoDuplicateLease /\ StoreIsFree /\ AnswerIsRecorded /\ PoisonIsCurrent
        BY DEF Init, NoDuplicateLease, Live, StoreIsFree, AnswerIsRecorded, PoisonIsCurrent, Idle,
               NoLease, Lease
    <2> QED
        BY <2>1, <2>2 DEF IInv, TableInv
<1>2. IInv /\ [Next]_vars => IInv'
    BY NextUnique, NextPoison DEF IInv, TableInv
<1> QED
    BY <1>1, <1>2, PTL DEF Spec

\* Two clients never hold live leases for one address, unless it was pinned
\* or handed out from an exhausted pool: the test and the store of sendAck
\* are two locked regions, and no call in between can part them.
THEOREM OneOwnerPerAddress == Spec => []NoDuplicateLease
<1>1. IInv => NoDuplicateLease
    BY DEF IInv, TableInv
<1> QED
    BY <1>1, Invariance, PTL

-----------------------------------------------------------------------------
(* What a reply says *)

\* Only the last step of a handler hands an address to a client.
LEMMA OnlySendReplies ==
    ASSUME IInv, Next, NEW r \in out', r.msg \in {"OFFER", "ACK"}
    PROVE  SendReply
<1>1. ASSUME NEW m, NEW req, NEW ttl, NEW as, Record(m, req, ttl, as)
      PROVE  FALSE
    BY <1>1 DEF Record, Signal
<1>2. ASSUME NEW p \in Packet, Handle(p)
      PROVE  FALSE
    BY <1>1, <1>2
    DEF Handle, NakForeign, Discover, Request, CheckAsserted, Decline, Release, Nak
<1>3. CASE StoreAsserted \/ OfferAfterNak \/ AskBlocked
    BY <1>1, <1>3 DEF StoreAsserted, OfferAfterNak, AskBlocked, Signal
<1>4. CASE PoisonBlockedArpEntries
    BY <1>4 DEF PoisonBlockedArpEntries, ArpEntry
<1>5. CASE PublicCall
    BY <1>5 DEF PublicCall, AddStaticLease, ExpireLease, KickClient, SetBlockedMACs, Signal, Nak
<1>6. CASE Restart \/ Tick
    BY <1>6 DEF Restart, Tick
<1> QED
    BY <1>2, <1>3, <1>4, <1>5, <1>6 DEF Next, ServerStep

LEMMA SendStep ==
    ASSUME IInv, SendReply, NEW r \in out', r.msg \in {"OFFER", "ACK"}
    PROVE  /\ r.mac = srv.mac /\ r.ip = srv.ip
           /\ srv.mac \notin late => (r.poisoned <=> srv.mac \in blocked)
           /\ leases[srv.mac].ip \in {srv.ip} \cup contested
<1>1. r \in {Reply(srv.mac, "OFFER", srv.ip, srv.poison),
             Reply(srv.mac, "ACK", srv.ip, srv.poison), Nak(srv.mac)}
    BY DEF SendReply, Composed
<1>2. r \in {Reply(srv.mac, "OFFER", srv.ip, srv.poison),
             Reply(srv.mac, "ACK", srv.ip, srv.poison)}
    BY <1>1 DEF Nak
<1>3. r.mac = srv.mac /\ r.ip = srv.ip /\ r.poisoned = srv.poison
    BY <1>2 DEF Reply
<1>4. srv.mac \notin late => srv.poison = (srv.mac \in blocked)
    BY DEF SendReply, IInv, PoisonIsCurrent
<1> QED
    BY <1>3, <1>4 DEF SendReply, IInv, TableInv, AnswerIsRecorded

\* An OFFER or an ACK names the address the table records for the client,
\* although the lock is dropped between recording and sending.
THEOREM RepliesAreRecorded == Spec => ReplyNamesRecordedAddress
<1>1. ASSUME IInv, [Next]_vars
      PROVE  [\A r \in out' : r.msg \in {"OFFER", "ACK"} =>
                 leases[r.mac].ip \in {r.ip} \cup contested]_vars
    <2>1. CASE UNCHANGED vars
        BY <2>1
    <2>2. CASE Next
        BY <1>1, <2>2, OnlySendReplies, SendStep
    <2> QED
        BY <1>1, <2>1, <2>2
<1> QED
    BY <1>1, Invariance, PTL DEF Spec, ReplyNamesRecordedAddress

\* An OFFER or an ACK carries the poisoned configuration exactly when its
\* client is blocked as it leaves, whenever in the handling of its packet the
\* block came or went, up to the moment isBlocked is asked.
THEOREM BlockedIsPoisoned == Spec => BlockedGetsPoison
<1>1. ASSUME IInv, [Next]_vars
      PROVE  [\A r \in out' : r.msg \in {"OFFER", "ACK"} /\ r.mac \notin late =>
                 (r.poisoned <=> r.mac \in blocked)]_vars
    <2>1. CASE UNCHANGED vars
        BY <2>1
    <2>2. CASE Next
        BY <1>1, <2>2, OnlySendReplies, SendStep
    <2> QED
        BY <1>1, <2>1, <2>2
<1> QED
    BY <1>1, Invariance, PTL DEF Spec, BlockedGetsPoison

LEMMA RecordKeeps ==
    ASSUME TableInv, NEW m \in MAC, NEW req, NEW ttl, NEW as, Record(m, req, ttl, as), Live(m)
    PROVE  srv'.mac = m /\ leases[m].ip \in {srv'.ip} \cup contested
<1>1. PICK ip \in Address :
        AllocateIP(m, req, ip) /\ srv' = [at |-> "answer", mac |-> m, ip |-> ip, as |-> as]
    BY DEF Record
<1>2. CASE Sticky(m)
    BY <1>1, <1>2, Allocation DEF TableInv
<1>3. CASE ~Sticky(m)
    <2>1. Known(m)
        BY DEF Live, Known, NoLease, Lease
    <2>2. HeldByOther(m, leases[m].ip)
        BY <1>3, <2>1 DEF Sticky
    <2>3. leases[m].ip \in contested
        BY <2>2 DEF HeldByOther, Live, TableInv, NoDuplicateLease
    <2> QED
        BY <1>1, <2>3
<1> QED
    BY <1>2, <1>3

\* A client whose lease still runs is always answered with its own address:
\* the first step of allocateIP can only fail for a contested address.
THEOREM LiveLeasesStay == Spec => LiveLeaseIsKept
<1> DEFINE Kept == srv.at # "answer" /\ srv'.at = "answer" /\ Live(srv'.mac) =>
                      \/ srv'.as = "rebootAck"
                      \/ leases[srv'.mac].ip \in {srv'.ip} \cup contested
<1>1. ASSUME IInv, [Next]_vars
      PROVE  [Kept]_vars
    <2> SUFFICES ASSUME Next
                 PROVE  Kept
        BY <1>1
    <2>1. ASSUME NEW m \in MAC, NEW req, NEW ttl, NEW as, Record(m, req, ttl, as)
          PROVE  Kept
        <3>1. srv'.mac = m
            BY <2>1 DEF Record
        <3> QED
            BY <1>1, <2>1, <3>1, RecordKeeps DEF IInv
    <2>2. ASSUME NEW p \in Packet, Handle(p)
          PROVE  Kept
        <3>1. p.mac \in MAC
            BY InputAssumption DEF PacketType
        <3>2. CASE Discover(p) \/ Request(p)
            BY <2>1, <3>1, <3>2 DEF Discover, Request
        <3>3. CASE CheckAsserted(p)
            BY <3>3 DEF CheckAsserted
        <3>4. CASE NakForeign(p) \/ Decline(p) \/ Release(p)
            BY <3>4 DEF NakForeign, Decline, Release
        <3> QED
            BY <2>2, <3>2, <3>3, <3>4 DEF Handle
    <2>3. CASE StoreAsserted
        BY <2>3 DEF StoreAsserted
    <2>4. CASE OfferAfterNak
        <3>1. srv.mac \in MAC
            BY <1>1, <2>4 DEF OfferAfterNak, IInv, TableInv, TypeOK, ServerType, Idle
        <3> QED
            BY <2>1, <2>4, <3>1 DEF OfferAfterNak
    <2>5. CASE AskBlocked \/ SendReply \/ Restart
        BY <2>5 DEF AskBlocked, SendReply, Restart, Idle
    <2>6. CASE PoisonBlockedArpEntries \/ PublicCall
        BY <2>6
        DEF PoisonBlockedArpEntries, PublicCall, AddStaticLease, ExpireLease, KickClient,
            SetBlockedMACs
    <2>7. CASE Tick
        <3>1. srv'.at = srv.at
            BY <1>1, <2>7 DEF Tick, IInv, TableInv, TypeOK, ServerType, Idle
        <3> QED
            BY <3>1
    <2> QED
        BY <2>2, <2>3, <2>4, <2>5, <2>6, <2>7 DEF Next, ServerStep
<1> QED
    BY <1>1, Invariance, PTL DEF Spec, LiveLeaseIsKept

-----------------------------------------------------------------------------
(* The lease table implements the book of addresses *)

\* LeaseBook's "holds" in the current state.
Holds == [m \in MAC |-> IF Live(m) THEN leases[m].ip ELSE NoIP]

\* Leases that run out, and nothing else, are a Lapse of the book.
LEMMA LapseStep ==
    ASSUME TypeOK, TypeOK', contested' = contested,
           \A m \in MAC : leases'[m].ttl > 0
                => leases[m].ttl > 0 /\ leases'[m].ip = leases[m].ip
    PROVE  Book!Next
<1>1. \A m \in MAC : leases'[m].ttl \in Nat
    BY DEF TypeOK, LeaseType, NoLease, Lease
<1>2. PICK S \in SUBSET MAC : S = {m \in MAC : leases'[m].ttl <= 0}
    OBVIOUS
<1>3. Holds' = [m \in MAC |-> IF m \in S THEN NoIP ELSE Holds[m]]
    BY <1>1, <1>2 DEF Holds, Live
<1>4. Book!Lapse(S)
    BY <1>3 DEF Book!Lapse, Holds
<1> QED
    BY <1>4 DEF Book!Next

\* A record for m changes what m holds and nothing else.
LEMMA StoreHolds ==
    ASSUME TypeOK, NEW m \in MAC, NEW ip \in IP, NEW ttl \in Nat,
           leases' = [leases EXCEPT ![m] = Lease(ip, ttl)]
    PROVE  Book!Own(m, ip) \/ Book!Own(m, NoIP)
<1>1. Holds' = [Holds EXCEPT ![m] = IF ttl > 0 THEN ip ELSE NoIP]
    BY DEF Holds, Live, Lease, TypeOK
<1> QED
    BY <1>1 DEF Book!Own, Holds

\* A record of a free (or contested) address is a Grant or a Lapse.
LEMMA GrantStep ==
    ASSUME TypeOK, TypeOK', NEW m \in MAC, NEW ip \in IP, NEW ttl \in Nat,
           leases' = [leases EXCEPT ![m] = Lease(ip, ttl)],
           contested' = contested,
           ~HeldByOther(m, ip) \/ ip \in contested
    PROVE  Book!Next
<1>1. CASE ttl > 0
    <2>1. Book!Own(m, ip)
        <3>1. Holds' = [Holds EXCEPT ![m] = ip]
            BY <1>1 DEF Holds, Live, Lease, TypeOK
        <3> QED
            BY <3>1 DEF Book!Own, Holds
    <2>2. Book!Free(m, ip) \/ ip \in contested
        BY Constants DEF Book!Free, HeldByOther, Live
    <2>3. Book!Grant(m, ip)
        BY <2>1, <2>2 DEF Book!Grant
    <2> QED
        BY <2>3 DEF Book!Next
<1>2. CASE ~(ttl > 0)
    <2>1. \A o \in MAC : leases'[o].ttl > 0
            => leases[o].ttl > 0 /\ leases'[o].ip = leases[o].ip
        BY <1>2 DEF TypeOK, Lease
    <2> QED
        BY <2>1, LapseStep
<1> QED
    BY <1>1, <1>2

\* The allocator falls back on the first address only when every address of
\* the pool has an owner.
LEMMA ExhaustedPool ==
    ASSUME TypeOK, NEW m \in MAC, NEW req, Exhausted(m, req)
    PROVE  \A ip \in RangeStart..RangeEnd : \E o \in MAC : Holds[o] = ip
<1> SUFFICES ASSUME NEW ip \in RangeStart..RangeEnd
             PROVE  \E o \in MAC : Holds[o] = ip
    OBVIOUS
<1>1. PICK i \in 0..(Total - 1) : Candidate(i) = ip
    BY CandidateCoversPool DEF TypeOK
<1>2. InUse(ip)
    BY <1>1 DEF Exhausted, FreeSteps
<1> QED
    BY <1>2 DEF InUse, Holds, Live

LEMMA RecordStep ==
    ASSUME TableInv, TableInv', NEW m \in MAC, NEW req, NEW ttl \in Nat, NEW as,
           Record(m, req, ttl, as)
    PROVE  Book!Next
<1>1. PICK ip \in Address :
        /\ AllocateIP(m, req, ip)
        /\ leases' = [leases EXCEPT ![m] = Lease(ip, ttl)]
        /\ contested' = contested \cup {x \in {RangeStart} : Exhausted(m, req)}
    BY DEF Record
<1>2. ip \in IP /\ (~HeldByOther(m, ip) \/ (Exhausted(m, req) /\ ip = RangeStart))
    BY <1>1, Allocation DEF TableInv
<1>3. CASE ~Exhausted(m, req)
    <2>1. contested' = contested
        BY <1>1, <1>3
    <2> QED
        BY <1>1, <1>2, <1>3, <2>1, GrantStep DEF TableInv
<1>4. CASE Exhausted(m, req)
    <2>1. ip = RangeStart
        BY <1>1, <1>4 DEF AllocateIP, Exhausted
    <2>2. contested' = contested \cup {RangeStart}
        BY <1>1, <1>4
    <2>3. Book!Own(m, RangeStart) \/ Book!Own(m, NoIP)
        BY <1>1, <1>2, <2>1, StoreHolds DEF TableInv
    <2>4. Book!Overflow(m)
        BY <1>4, <2>2, <2>3, ExhaustedPool DEF Book!Overflow, TableInv, Holds
    <2> QED
        BY <2>4 DEF Book!Next
<1> QED
    BY <1>3, <1>4

LEMMA BookStep ==
    ASSUME TableInv, TableInv', Next
    PROVE  Book!Next \/ UNCHANGED <<Holds, contested>>
<1>0. TypeOK /\ TypeOK'
    BY DEF TableInv
<1>1. ASSUME NEW p \in Packet, Handle(p)
      PROVE  Book!Next \/ UNCHANGED <<Holds, contested>>
    <2>1. p.mac \in MAC
        BY InputAssumption DEF PacketType
    <2>2. CASE Discover(p) \/ Request(p)
        BY <2>1, <2>2, RecordStep, Constants DEF Discover, Request
    <2>3. CASE NakForeign(p) \/ CheckAsserted(p)
        BY <2>3 DEF NakForeign, CheckAsserted, Holds, Live
    <2>4. CASE Decline(p) \/ Release(p)
        <3>1. \A o \in MAC : leases'[o].ttl > 0
                => leases[o].ttl > 0 /\ leases'[o].ip = leases[o].ip
            BY <1>0, <2>1, <2>4 DEF Decline, Release, TypeOK, LeaseType, NoLease, Lease
        <3> QED
            BY <1>0, <2>4, <3>1, LapseStep DEF Decline, Release
    <2> QED
        BY <1>1, <2>2, <2>3, <2>4 DEF Handle
<1>2. CASE StoreAsserted
    <2>1. srv.mac \in MAC /\ srv.ip \in IP /\ srv.ttl \in Nat
        BY <1>0, <1>2 DEF StoreAsserted, TypeOK, ServerType, Idle
    <2>2. ~HeldByOther(srv.mac, srv.ip) \/ srv.ip \in contested
        BY <1>2 DEF StoreAsserted, TableInv, StoreIsFree
    <2> QED
        BY <1>0, <1>2, <2>1, <2>2, GrantStep DEF StoreAsserted
<1>3. CASE OfferAfterNak
    <2>1. srv.mac \in MAC
        BY <1>0, <1>3 DEF OfferAfterNak, TypeOK, ServerType, Idle
    <2> QED
        BY <1>3, <2>1, RecordStep, Constants DEF OfferAfterNak
<1>4. CASE AskBlocked \/ SendReply \/ PoisonBlockedArpEntries
    BY <1>4 DEF AskBlocked, SendReply, PoisonBlockedArpEntries, Holds, Live
<1>5. ASSUME NEW m \in MAC, NEW ip \in Pinnable, AddStaticLease(m, ip)
      PROVE  Book!Next
    <2>1. Book!Own(m, ip) \/ Book!Own(m, NoIP)
        BY <1>0, <1>5, StoreHolds, Constants, InputAssumption DEF AddStaticLease
    <2>2. Book!Pin(m, ip)
        BY <1>5, <2>1 DEF AddStaticLease, Book!Pin
    <2> QED
        BY <2>2, InputAssumption DEF Book!Next
<1>6. ASSUME NEW m \in MAC, ExpireLease(m) \/ KickClient(m)
      PROVE  Book!Next
    <2>1. \A o \in MAC : leases'[o].ttl > 0
            => leases[o].ttl > 0 /\ leases'[o].ip = leases[o].ip
        BY <1>0, <1>6 DEF ExpireLease, KickClient, TypeOK, LeaseType, NoLease, Lease
    <2> QED
        BY <1>0, <1>6, <2>1, LapseStep DEF ExpireLease, KickClient
<1>7. ASSUME NEW S \in SUBSET MAC, SetBlockedMACs(S)
      PROVE  UNCHANGED <<Holds, contested>>
    BY <1>7 DEF SetBlockedMACs, Holds, Live
<1>8. CASE Tick
    <2>1. \A o \in MAC : leases'[o].ip = leases[o].ip /\ leases'[o].ttl = Less(leases[o].ttl)
        BY <1>0, <1>8 DEF Tick, TypeOK, LeaseType, NoLease, Lease
    <2>2. \A o \in MAC : leases'[o].ttl > 0
            => leases[o].ttl > 0 /\ leases'[o].ip = leases[o].ip
        BY <2>1 DEF Less
    <2> QED
        BY <1>0, <1>8, <2>2, LapseStep DEF Tick
<1>9. CASE Restart
    <2>1. \A o \in MAC : leases'[o].ttl = 0
        BY <1>9 DEF Restart, NoLease, Lease
    <2> QED
        BY <1>0, <1>9, <2>1, LapseStep DEF Restart
<1> QED
    BY <1>1, <1>2, <1>3, <1>4, <1>5, <1>6, <1>7, <1>8, <1>9 DEF Next, ServerStep, PublicCall

\* Every behaviour of the server is one of LeaseBook: an address gains an
\* owner only when it is free, pinned, or the pool has run out.
THEOREM Refinement == Spec => ImplementsLeaseBook
<1>1. Init => Book!Init
    BY DEF Init, Book!Init, Live, NoLease, Lease
<1>2. IInv /\ IInv' /\ [Next]_vars => [Book!Next]_(Book!vars)
    <2>1. CASE UNCHANGED vars
        BY <2>1 DEF vars, Holds, Live, Book!vars
    <2>2. CASE Next
        BY <2>2, BookStep DEF Book!vars, Holds, IInv
    <2> QED
        BY <2>1, <2>2
<1> QED
    BY <1>1, <1>2, Invariance, PTL DEF Spec, ImplementsLeaseBook, Book!Spec
=============================================================================
