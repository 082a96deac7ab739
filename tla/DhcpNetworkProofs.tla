------------------------- MODULE DhcpNetworkProofs --------------------------
(***************************************************************************)
(* Theorems about DhcpNetwork: the server composed with its clients over a *)
(* segment that loses and delays frames, for every pool, every set of      *)
(* clients, all lease times and every size of the receive buffer.          *)
(***************************************************************************)
EXTENDS DhcpNetwork, DhcpServerProofs

-----------------------------------------------------------------------------
(* The inductive invariant *)

Handling(m) == srv # Idle /\ srv.mac = m
Packets == {inbox[i].p : i \in DOMAIN inbox}
Queued(m) == \E p \in Packets : p.mac = m
Waiting(m) == client[m].phase \in {"requesting", "renewing"}

\* Only a bound or renewing client uses an address, and for a bounded time.
ClientIsSane(m) ==
    /\ client[m].age <= LeaseTime /\ client[m].left <= LeaseTime
    /\ Using(m) <=> client[m].phase \in {"bound", "renewing"}
    /\ Using(m) => client[m].ip \in IP

\* A live frame is the newest of its client: starting an exchange gives up
\* the one before.
LiveFrameIsLast ==
    \A i, j \in DOMAIN inbox :
        inbox[i].live /\ inbox[j].p.mac = inbox[i].p.mac => j <= i

\* While the server works for a live exchange, or its reply is on the wire,
\* nothing else of that client is waiting.
LiveHandlerIsLast == live => \A m \in MAC : Handling(m) => ~Queued(m)

RepliesAreLast ==
    \A r \in wire :
        /\ ~Queued(r.mac)
        /\ r.msg # "NAK" => ~Handling(r.mac) /\ r.ttl <= LeaseTime

\* A time that was full when m's request was sent, or later.
Fresh(m, ttl) == ttl + client[m].age >= LeaseTime

\* What is granted to a client that waits for it is what the table records,
\* and lasts, from the moment the request was sent, the full lease time.
GrantIsFresh(m) ==
    m \notin upset /\ Waiting(m) =>
        /\ Handling(m) /\ live /\ srv.at = "store" => Fresh(m, srv.ttl)
        /\ Handling(m) /\ live /\ srv.at \in {"answer", "send"} /\ srv.as # "offer" =>
             leases[m].ip = srv.ip /\ Fresh(m, leases[m].ttl)
        /\ \A r \in wire : r.mac = m /\ r.msg = "ACK" =>
             leases[m].ip = r.ip /\ Fresh(m, leases[m].ttl)

\* A client that uses an address has sent nothing but renewals of it, and
\* the server, unless the address is contested, grants them.
UserOnlyRenews(m) ==
    m \notin upset /\ Using(m) =>
        /\ \A p \in Packets : p.mac = m => p = RenewOf(m, client[m].ip)
        /\ Handling(m) /\ client[m].ip \notin contested =>
             /\ srv.at \in {"store", "answer", "send"} /\ srv.ip = client[m].ip
             /\ srv.at = "store" => srv.ttl >= client[m].left
             /\ srv.at # "store" => srv.as = "rebootAck"

RecordOutlives(m) ==
    m \notin upset /\ Using(m) /\ client[m].ip \notin contested =>
        leases[m].ip = client[m].ip /\ leases[m].ttl >= client[m].left

ClientInv(m) == ClientIsSane(m) /\ GrantIsFresh(m) /\ UserOnlyRenews(m) /\ RecordOutlives(m)

FramesInv == LiveFrameIsLast /\ LiveHandlerIsLast /\ RepliesAreLast

NetInv == NetTypeOK /\ FramesInv /\ \A m \in MAC : ClientInv(m)

-----------------------------------------------------------------------------
(* The server's steps, seen from the segment *)

\* Every step of the segment is a step of the server or leaves it alone.
LEMMA NetStepIsServerStep ==
    ASSUME TypeOK, [NetNext]_allVars
    PROVE  [Next]_vars
<1>1. ASSUME Silent
      PROVE  Next
    <2>1. SetBlockedMACs(blocked)
        BY <1>1 DEF Silent, SetBlockedMACs
    <2> QED
        BY <2>1 DEF TypeOK, Next, PublicCall
<1>2. ASSUME NEW p, Handle(p)
      PROVE  Next
    <2>1. p \in Packet
        BY <1>2 DEF Handle, NakForeign, Discover, Request, CheckAsserted, Decline, Release, Taken
    <2> QED
        BY <1>2, <2>1 DEF Next
<1>3. ASSUME NEW m \in MAC, ClientStep(m)
      PROVE  Next
    <2>1. Silent
        BY <1>3 DEF ClientStep, SendDiscover, SendReboot, SendRenew, SendLast, PowerOff,
                    Timeout, RecvOffer, RecvAck, RecvNak
    <2> QED
        BY <1>1, <2>1
<1>4. CASE Receive
    BY <1>1, <1>2, <1>4 DEF Receive
<1>5. CASE Proceed
    BY <1>5 DEF Proceed, Next
<1>6. CASE Block
    BY <1>6, NetworkAssumption DEF Block, Next, PublicCall
<1>7. CASE Lose
    BY <1>1, <1>7 DEF Lose
<1>8. CASE Elapse
    BY <1>8 DEF Elapse, Next
<1>9. CASE UNCHANGED allVars
    BY <1>9 DEF allVars
<1>10. CASE Poison \/ RestartServer
    BY <1>10 DEF Poison, RestartServer, Next
<1>11. ASSUME NEW m \in Touchable, Touch(m)
       PROVE  Next
    <2>1. m \in MAC
        BY NetworkAssumption
    <2> QED
        BY <1>11, <2>1 DEF Touch, Next, PublicCall
<1> QED
    BY <1>3, <1>4, <1>5, <1>6, <1>7, <1>8, <1>9, <1>10, <1>11 DEF NetNext

\* A locked region that allocates touches the record of its client only.
LEMMA RecordEffect ==
    ASSUME TypeOK, NEW m \in MAC, NEW req, NEW ttl \in Nat, NEW as, Record(m, req, ttl, as)
    PROVE  /\ \A o \in MAC \ {m} : leases'[o] = leases[o]
           /\ contested \subseteq contested'
           /\ srv'.at = "answer" /\ srv'.mac = m /\ srv'.as = as /\ srv' # Idle
           /\ leases'[m].ip = srv'.ip /\ leases'[m].ttl = ttl
           /\ \A r \in out' : r.msg = "leaseUpdated"
<1>1. PICK ip \in Address :
        /\ leases' = [leases EXCEPT ![m] = Lease(ip, ttl)]
        /\ contested' = contested \cup {x \in {RangeStart} : Exhausted(m, req)}
        /\ srv' = [at |-> "answer", mac |-> m, ip |-> ip, as |-> as]
        /\ out' = {x \in {Signal("leaseUpdated", m, ip)} : as = "ack"}
    BY DEF Record
<1>2. leases'[m] = Lease(ip, ttl) /\ \A o \in MAC \ {m} : leases'[o] = leases[o]
    BY <1>1 DEF TypeOK
<1>3. srv'.ip = ip /\ srv'.at = "answer" /\ srv' # Idle /\ srv'.mac = m /\ srv'.as = as
    BY <1>1 DEF Idle
<1>4. \A r \in out' : r.msg = "leaseUpdated"
    BY <1>1 DEF Signal
<1>5. contested \subseteq contested'
    BY <1>1
<1>6. Lease(ip, ttl).ip = ip /\ Lease(ip, ttl).ttl = ttl
    BY DEF Lease
<1> QED
    BY <1>2, <1>3, <1>4, <1>5, <1>6

\* Taking a packet touches the record of its sender only, and answers with
\* nothing but a NAK.
LEMMA HandleEffect ==
    ASSUME TypeOK, NEW p \in Packet, Handle(p)
    PROVE  /\ srv = Idle
           /\ \A o \in MAC \ {p.mac} : leases'[o] = leases[o]
           /\ contested \subseteq contested'
           /\ srv' # Idle => srv'.mac = p.mac
           /\ \A r \in out' : r.msg \in {"OFFER", "ACK", "NAK"} => r = Nak(p.mac)
           /\ srv'.at = "store" => srv'.ttl = LeaseTime
           /\ srv'.at # "send"
           /\ srv'.at = "answer" =>
                /\ leases'[p.mac].ip = srv'.ip
                /\ srv'.as # "offer" => leases'[p.mac].ttl = LeaseTime
<1>0. p.mac \in MAC
    BY InputAssumption DEF PacketType
<1>1. CASE NakForeign(p)
    BY <1>0, <1>1 DEF NakForeign, Idle
<1>2. CASE Discover(p)
    <2>1. Record(p.mac, ByteSwap(p.req), PendingTime, "offer") /\ srv = Idle
        BY <1>2 DEF Discover, Taken
    <2> QED
        BY <1>0, <2>1, RecordEffect, Constants
<1>3. CASE Request(p)
    <2>1. Record(p.mac, NoIP, LeaseTime, "ack") /\ srv = Idle
        BY <1>3 DEF Request, Taken
    <2>2. LeaseTime \in Nat
        BY Constants
    <2> HIDE DEF Record, NoIP
    <2>3. /\ \A o \in MAC \ {p.mac} : leases'[o] = leases[o]
          /\ contested \subseteq contested'
          /\ srv'.at = "answer" /\ srv'.mac = p.mac
          /\ leases'[p.mac].ip = srv'.ip /\ leases'[p.mac].ttl = LeaseTime
          /\ \A r \in out' : r.msg = "leaseUpdated"
        BY <1>0, <2>1, <2>2, RecordEffect
    <2> QED
        BY <2>1, <2>3
<1>4. CASE CheckAsserted(p)
    BY <1>0, <1>4 DEF CheckAsserted, Taken, Idle
<1>5. CASE Decline(p)
    BY <1>0, <1>5 DEF Decline, Taken, Idle, TypeOK
<1>6. CASE Release(p)
    BY <1>0, <1>6 DEF Release, Taken, Idle, TypeOK
<1> QED
    BY <1>1, <1>2, <1>3, <1>4, <1>5, <1>6 DEF Handle

\* The renewal of an address is looked at and refused only if another client
\* has it; the table stays as it is.
LEMMA RenewEffect ==
    ASSUME NEW m \in MAC, NEW ip \in IP, NEW p \in Packet, p = RenewOf(m, ip), Handle(p)
    PROVE  /\ UNCHANGED <<leases, contested>>
           /\ srv' # Idle =>
                \/ srv' = [at |-> "store", mac |-> m, ip |-> ip, ttl |-> LeaseTime]
                \/ HeldByOther(m, ip)
<1>1. p.type = "REQUEST" /\ p.mac = m /\ p.req = NoIP /\ p.sid = NoIP /\ p.ci = ip
    BY DEF RenewOf, Shape
<1>2. ip # NoIP
    BY Constants
<1>3. Asserts(p) /\ Asserted(p) = ip
    BY <1>1, <1>2 DEF Asserts, Asserted
<1> QED
    BY <1>1, <1>3
    DEF Handle, NakForeign, Discover, Request, CheckAsserted, Decline, Release

\* The later regions of a handler touch the record of its client only; an
\* OFFER or an ACK is its last act, and names the address it recorded.
LEMMA ServerStepEffect ==
    ASSUME TypeOK, ServerStep
    PROVE  /\ srv # Idle /\ srv.mac \in MAC
           /\ \A o \in MAC \ {srv.mac} : leases'[o] = leases[o]
           /\ contested \subseteq contested'
           /\ srv' # Idle => srv'.mac = srv.mac
           /\ \A r \in out' : r.msg \in {"OFFER", "ACK", "NAK"} =>
                /\ r \in ReplyType /\ r.mac = srv.mac /\ srv' = Idle
                /\ r.msg # "NAK" => r.ttl <= LeaseTime
                /\ r.msg = "ACK" => srv.at = "send" /\ srv.as # "offer" /\ r.ip = srv.ip
           /\ srv'.at # "store"
           /\ srv.at = "store" => /\ leases'[srv.mac] = Lease(srv.ip, srv.ttl)
                                  /\ srv'.at = "answer" /\ srv'.ip = srv.ip
                                  /\ srv'.as = "rebootAck"
           /\ srv.at = "nakked" => srv'.as = "offer"
           /\ srv.at = "answer" => /\ leases' = leases /\ srv'.at = "send"
                                   /\ srv'.ip = srv.ip /\ srv'.as = srv.as
           /\ srv.at = "send" => srv' = Idle /\ leases' = leases
           /\ srv.at \in {"store", "nakked", "answer", "send"}
<1>1. CASE StoreAsserted
    <2>1. srv.mac \in MAC /\ srv # Idle
        BY <1>1 DEF StoreAsserted, TypeOK, ServerType, Idle
    <2>2. leases' = [leases EXCEPT ![srv.mac] = Lease(srv.ip, srv.ttl)]
          /\ srv' = [at |-> "answer", mac |-> srv.mac, ip |-> srv.ip, as |-> "rebootAck"]
        BY <1>1 DEF StoreAsserted
    <2>3. leases'[srv.mac] = Lease(srv.ip, srv.ttl)
        BY <2>1, <2>2 DEF TypeOK
    <2>4. /\ srv'.at = "answer" /\ srv'.mac = srv.mac /\ srv'.ip = srv.ip
          /\ srv'.as = "rebootAck" /\ srv.at = "store"
        BY <1>1, <2>2 DEF StoreAsserted
    <2>5. \A r \in out' : r.msg = "leaseUpdated"
        BY <1>1 DEF StoreAsserted, Signal
    <2>6. contested' = contested /\ \A o \in MAC \ {srv.mac} : leases'[o] = leases[o]
        BY <1>1, <2>2 DEF StoreAsserted, TypeOK
    <2> QED
        BY <2>1, <2>3, <2>4, <2>5, <2>6 DEF Lease
<1>2. CASE OfferAfterNak
    <2>1. srv.mac \in MAC /\ srv # Idle
        BY <1>2 DEF OfferAfterNak, TypeOK, ServerType, Idle
    <2>2. Record(srv.mac, ByteSwap(srv.req), PendingTime, "offer")
        BY <1>2 DEF OfferAfterNak
    <2>3. PendingTime \in Nat
        BY Constants
    <2>4. srv.at = "nakked"
        BY <1>2 DEF OfferAfterNak
    <2> HIDE DEF Record, ByteSwap
    <2>5. /\ \A o \in MAC \ {srv.mac} : leases'[o] = leases[o]
          /\ contested \subseteq contested'
          /\ srv'.at = "answer" /\ srv'.mac = srv.mac /\ srv'.as = "offer"
          /\ leases'[srv.mac].ip = srv'.ip
          /\ \A r \in out' : r.msg = "leaseUpdated"
        BY <2>1, <2>2, <2>3, RecordEffect
    <2> QED
        BY <2>1, <2>4, <2>5
<1>3. CASE AskBlocked
    <2>1. srv # Idle /\ srv.mac \in MAC /\ srv.at = "answer"
        BY <1>3 DEF AskBlocked, TypeOK, ServerType, Idle
    <2>2. /\ srv'.at = "send" /\ srv'.mac = srv.mac /\ srv'.ip = srv.ip /\ srv'.as = srv.as
          /\ leases' = leases /\ contested' = contested /\ out' = {}
        BY <1>3 DEF AskBlocked
    <2> QED
        BY <2>1, <2>2
<1>4. CASE SendReply
    <2>1. srv # Idle /\ srv.mac \in MAC /\ srv.ip \in IP /\ srv.poison \in BOOLEAN
        BY <1>4 DEF SendReply, TypeOK, ServerType, Idle
    <2>2. srv.at = "send" /\ srv' = Idle /\ leases' = leases /\ contested' = contested
        BY <1>4 DEF SendReply
    <2> DEFINE reply(t) == Reply(srv.mac, t, srv.ip, srv.poison)
    <2>3. \A t \in {"OFFER", "ACK"} :
            /\ reply(t) \in ReplyType /\ reply(t).mac = srv.mac /\ reply(t).ip = srv.ip
            /\ reply(t).ttl <= LeaseTime /\ reply(t).msg = t
        BY <2>1, Constants, NetworkAssumption DEF Reply, ReplyType
    <2>4. Nak(srv.mac) \in ReplyType /\ Nak(srv.mac).mac = srv.mac /\ Nak(srv.mac).msg = "NAK"
        BY <2>1 DEF Nak, ReplyType
    <2>5. \A r \in out' :
            \/ r = reply("OFFER")
            \/ r = reply("ACK") /\ srv.as # "offer"
            \/ r = Nak(srv.mac)
        BY <1>4, <2>1 DEF SendReply, Composed
    <2> HIDE DEF reply
    <2>6. srv'.at = "idle"
        BY <2>2 DEF Idle
    <2> QED
        BY <2>1, <2>2, <2>3, <2>4, <2>5, <2>6
<1> QED
    BY <1>1, <1>2, <1>3, <1>4 DEF ServerStep

-----------------------------------------------------------------------------
(* The receive buffer *)

FrameType == [p : NetPacket, live : BOOLEAN]

LEMMA PacketShapes ==
    /\ \A p \in NetPacket : p.mac \in MAC
    /\ \A m \in MAC, w \in IP \cup {NoIP} : DiscoverOf(m, w) \in NetPacket
    /\ \A m \in MAC, i \in IP :
        {SelectOf(m, i), RebootOf(m, i), RenewOf(m, i), ReleaseOf(m, i), DeclineOf(m, i)}
            \subseteq NetPacket
    /\ \A m, i : /\ DiscoverOf(m, i).mac = m /\ SelectOf(m, i).mac = m
                 /\ RebootOf(m, i).mac = m /\ RenewOf(m, i).mac = m
                 /\ ReleaseOf(m, i).mac = m /\ DeclineOf(m, i).mac = m
<1>1. \A m, i : /\ DiscoverOf(m, i).mac = m /\ SelectOf(m, i).mac = m
                /\ RebootOf(m, i).mac = m /\ RenewOf(m, i).mac = m
                /\ ReleaseOf(m, i).mac = m /\ DeclineOf(m, i).mac = m
    BY DEF DiscoverOf, SelectOf, RebootOf, RenewOf, ReleaseOf, DeclineOf, Shape
<1>2. \A m \in MAC, w \in IP \cup {NoIP} : DiscoverOf(m, w) \in NetPacket
    BY DEF NetPacket
<1>3. \A m \in MAC, i \in IP :
        {SelectOf(m, i), RebootOf(m, i), RenewOf(m, i), ReleaseOf(m, i), DeclineOf(m, i)}
            \subseteq NetPacket
    BY DEF NetPacket
<1>4. ASSUME NEW p \in NetPacket
      PROVE  p.mac \in MAC
    <2>1. PICK m \in MAC :
            \/ \E w \in IP \cup {NoIP} : p = DiscoverOf(m, w)
            \/ \E i \in IP : p \in {SelectOf(m, i), RebootOf(m, i), RenewOf(m, i),
                                    ReleaseOf(m, i), DeclineOf(m, i)}
        BY DEF NetPacket
    <2> QED
        BY <1>1, <2>1
<1> QED
    BY <1>1, <1>2, <1>3, <1>4

\* Voiding the exchanges of some clients changes nothing but the marks.
LEMMA VoidedFrames ==
    ASSUME NetTypeOK, NEW D,
           inbox' = [i \in DOMAIN inbox |->
                IF inbox[i].p.mac \in D THEN [inbox[i] EXCEPT !.live = FALSE] ELSE inbox[i]]
    PROVE  /\ inbox' \in Seq(FrameType) /\ Len(inbox') = Len(inbox)
           /\ Packets' = Packets
           /\ \A i \in 1..Len(inbox) :
                /\ inbox'[i].p = inbox[i].p
                /\ inbox'[i].live => inbox[i].live /\ inbox[i].p.mac \notin D
<1>0. inbox \in Seq(FrameType)
    BY DEF NetTypeOK, FrameType
<1>1. /\ Len(inbox) \in Nat /\ DOMAIN inbox = 1..Len(inbox)
      /\ \A i \in 1..Len(inbox) : inbox[i] \in FrameType
    BY <1>0
<1>2. \A i \in 1..Len(inbox) :
        /\ inbox'[i] \in FrameType /\ inbox'[i].p = inbox[i].p
        /\ inbox'[i].live => inbox[i].live /\ inbox[i].p.mac \notin D
    BY <1>1 DEF FrameType
<1>3. DOMAIN inbox' = 1..Len(inbox)
    BY <1>1
<1>4. inbox' = [i \in 1..Len(inbox) |-> inbox'[i]]
    BY <1>1
<1>5. inbox' \in Seq(FrameType) /\ Len(inbox') = Len(inbox)
    <2> DEFINE q == inbox'
    <2> HIDE DEF q
    <2>1. q = [i \in 1..Len(inbox) |-> q[i]] /\ \A i \in 1..Len(inbox) : q[i] \in FrameType
        BY <1>2, <1>4 DEF q
    <2>2. q \in Seq(FrameType) /\ Len(q) = Len(inbox)
        BY <1>1, <2>1
    <2> QED
        BY <2>2 DEF q
<1>6. Packets' = Packets
    BY <1>1, <1>2, <1>3 DEF Packets
<1> QED
    BY <1>2, <1>5, <1>6

\* A client that gives up its exchange.
LEMMA ForgottenFrames ==
    ASSUME NetTypeOK, FramesInv, NEW m \in MAC, Abandon(m), inbox' = Forget(m, inbox),
           srv' = srv
    PROVE  /\ FramesInv' /\ Packets' = Packets
           /\ inbox' \in Seq(FrameType) /\ Len(inbox') <= Buffer
           /\ live' \in BOOLEAN /\ wire' \subseteq ReplyType
<1>1. /\ inbox' \in Seq(FrameType) /\ Len(inbox') = Len(inbox)
      /\ Packets' = Packets
      /\ \A i \in 1..Len(inbox) :
            /\ inbox'[i].p = inbox[i].p
            /\ inbox'[i].live => inbox[i].live /\ inbox[i].p.mac \notin {m}
    <2>1. inbox' = [i \in DOMAIN inbox |->
                IF inbox[i].p.mac \in {m} THEN [inbox[i] EXCEPT !.live = FALSE] ELSE inbox[i]]
        BY DEF Forget
    <2> QED
        BY <2>1, VoidedFrames
<1>2. DOMAIN inbox' = 1..Len(inbox) /\ DOMAIN inbox = 1..Len(inbox)
    BY <1>1 DEF NetTypeOK
<1>3. live' \in BOOLEAN /\ (live' => live)
    BY DEF Abandon, NetTypeOK
<1>4. wire' \subseteq wire
    BY DEF Abandon
<1>5. \A x : Queued(x)' = Queued(x)
    BY <1>1 DEF Queued
<1>6. LiveFrameIsLast'
    BY <1>1, <1>2 DEF FramesInv, LiveFrameIsLast
<1>7. LiveHandlerIsLast'
    BY <1>3, <1>5 DEF FramesInv, LiveHandlerIsLast, Handling
<1>8. RepliesAreLast'
    BY <1>4, <1>5 DEF FramesInv, RepliesAreLast, Handling
<1> QED
    BY <1>1, <1>3, <1>4, <1>6, <1>7, <1>8 DEF FramesInv, NetTypeOK

\* A client that starts an exchange: its frame is the newest.
LEMMA StartedFrames ==
    ASSUME NetTypeOK, FramesInv, NEW m \in MAC, NEW p \in NetPacket, p.mac = m, Start(m, p),
           srv' = srv
    PROVE  /\ FramesInv' /\ Packets' = Packets \cup {p}
           /\ inbox' \in Seq(FrameType) /\ Len(inbox') <= Buffer
           /\ live' \in BOOLEAN /\ wire' \subseteq ReplyType
<1> DEFINE q == Forget(m, inbox)
           f == [p |-> p, live |-> TRUE]
           n == Len(inbox)
<1>0. inbox \in Seq(FrameType)
    BY DEF NetTypeOK, FrameType
<1>1. /\ n \in Nat /\ DOMAIN inbox = 1..n
      /\ \A i \in 1..n : inbox[i] \in FrameType
    BY <1>0
<1>2. \A i \in 1..n :
        /\ q[i] \in FrameType /\ q[i].p = inbox[i].p
        /\ q[i].live => inbox[i].live /\ inbox[i].p.mac # m
    BY <1>1 DEF Forget, FrameType
<1>3. q = [i \in 1..n |-> q[i]]
    BY <1>1 DEF Forget
<1>4. f \in FrameType /\ f.p = p
    BY DEF FrameType
<1>5. inbox' = Append(q, f) /\ n < Buffer /\ Buffer \in Nat
    BY NetworkAssumption DEF Start
<1> HIDE DEF q, f
<1>6. q \in Seq(FrameType) /\ Len(q) = n
    BY <1>1, <1>2, <1>3
<1>7. /\ inbox' \in Seq(FrameType) /\ Len(inbox') = n + 1 /\ DOMAIN inbox' = 1..(n + 1)
      /\ inbox'[n + 1] = f /\ \A i \in 1..n : inbox'[i] = q[i]
    BY <1>1, <1>4, <1>5, <1>6
<1>8. Len(inbox') <= Buffer
    BY <1>1, <1>5, <1>7
<1>9. \A i \in 1..(n + 1) : i \in 1..n \/ i = n + 1
    BY <1>1
<1>10. n + 1 \in 1..(n + 1) /\ \A i \in 1..n : i \in 1..(n + 1)
    BY <1>1
<1>11. Packets' = Packets \cup {p}
    <2>1. Packets' = {inbox'[i].p : i \in 1..(n + 1)}
        BY <1>7 DEF Packets
    <2>2. Packets = {inbox[i].p : i \in 1..n}
        BY <1>1 DEF Packets
    <2> QED
        BY <1>2, <1>4, <1>7, <1>9, <1>10, <2>1, <2>2
<1>12. live' \in BOOLEAN /\ (live' => live /\ ~Handling(m))
    BY DEF Start, Abandon, NetTypeOK, Handling
<1>13. wire' \subseteq wire /\ \A r \in wire' : r.mac # m
    BY DEF Start, Abandon
<1>14. \A x : x # m => (Queued(x)' <=> Queued(x))
    BY <1>11 DEF Queued
<1>15. LiveFrameIsLast'
    <2> SUFFICES ASSUME NEW i \in 1..(n + 1), NEW j \in 1..(n + 1),
                        inbox'[i].live, inbox'[j].p.mac = inbox'[i].p.mac
                 PROVE  j <= i
        BY <1>7 DEF LiveFrameIsLast
    <2>1. CASE i = n + 1
        BY <1>1, <2>1
    <2>2. CASE i \in 1..n
        <3>1. inbox[i].live /\ inbox[i].p.mac # m /\ inbox'[i].p = inbox[i].p
            BY <1>2, <1>7, <2>2
        <3>2. j # n + 1
            BY <1>4, <1>7, <3>1
        <3>3. j \in 1..n /\ inbox'[j].p = inbox[j].p
            BY <1>2, <1>7, <1>9, <3>2
        <3> QED
            BY <1>1, <2>2, <3>1, <3>3 DEF FramesInv, LiveFrameIsLast
    <2> QED
        BY <1>9, <2>1, <2>2
<1>16. LiveHandlerIsLast'
    BY <1>12, <1>14 DEF FramesInv, LiveHandlerIsLast, Handling
<1>17. RepliesAreLast'
    BY <1>13, <1>14 DEF FramesInv, RepliesAreLast, Handling
<1>18. wire' \subseteq ReplyType
    BY <1>13 DEF NetTypeOK
<1> QED
    BY <1>7, <1>8, <1>11, <1>12, <1>15, <1>16, <1>17, <1>18 DEF FramesInv

\* The REQUEST that answers an OFFER: nothing else of the client is about.
LEMMA SelectedFrames ==
    ASSUME NetTypeOK, FramesInv, NEW m \in MAC, NEW p \in NetPacket, p.mac = m,
           Len(inbox) < Buffer,
           \E r \in wire : r.mac = m /\ r.msg = "OFFER",
           wire' = {x \in wire : x.mac # m},
           inbox' = Append(inbox, [p |-> p, live |-> TRUE]), UNCHANGED <<srv, live>>
    PROVE  /\ FramesInv' /\ Packets' = Packets \cup {p}
           /\ inbox' \in Seq(FrameType) /\ Len(inbox') <= Buffer
           /\ live' \in BOOLEAN /\ wire' \subseteq ReplyType
<1> DEFINE f == [p |-> p, live |-> TRUE]
           n == Len(inbox)
<1>1. /\ n \in Nat /\ DOMAIN inbox = 1..n
      /\ inbox \in Seq(FrameType)
    BY DEF NetTypeOK, FrameType
<1>2. ~Queued(m) /\ ~Handling(m)
    BY DEF FramesInv, RepliesAreLast
<1>3. \A i \in 1..n : inbox[i].p.mac # m
    BY <1>1, <1>2 DEF Queued, Packets
<1>4. f \in FrameType /\ f.p = p
    BY DEF FrameType
<1>5. inbox' = Append(inbox, f) /\ n < Buffer /\ Buffer \in Nat
    BY NetworkAssumption
<1> HIDE DEF f
<1>7. /\ inbox' \in Seq(FrameType) /\ Len(inbox') = n + 1 /\ DOMAIN inbox' = 1..(n + 1)
      /\ inbox'[n + 1] = f /\ \A i \in 1..n : inbox'[i] = inbox[i]
    BY <1>1, <1>4, <1>5
<1>8. Len(inbox') <= Buffer
    BY <1>1, <1>5, <1>7
<1>9. \A i \in 1..(n + 1) : i \in 1..n \/ i = n + 1
    BY <1>1
<1>10. n + 1 \in 1..(n + 1) /\ \A i \in 1..n : i \in 1..(n + 1)
    BY <1>1
<1>11. Packets' = Packets \cup {p}
    <2>1. Packets' = {inbox'[i].p : i \in 1..(n + 1)}
        BY <1>7 DEF Packets
    <2>2. Packets = {inbox[i].p : i \in 1..n}
        BY <1>1 DEF Packets
    <2> QED
        BY <1>4, <1>7, <1>9, <1>10, <2>1, <2>2
<1>14. \A x : x # m => (Queued(x)' <=> Queued(x))
    BY <1>11 DEF Queued
<1>15. LiveFrameIsLast'
    <2> SUFFICES ASSUME NEW i \in 1..(n + 1), NEW j \in 1..(n + 1),
                        inbox'[i].live, inbox'[j].p.mac = inbox'[i].p.mac
                 PROVE  j <= i
        BY <1>7 DEF LiveFrameIsLast
    <2>1. CASE i = n + 1
        BY <1>1, <2>1
    <2>2. CASE i \in 1..n
        <3>1. j # n + 1
            BY <1>3, <1>4, <1>7, <2>2
        <3>2. j \in 1..n
            BY <1>9, <3>1
        <3> QED
            BY <1>1, <1>7, <2>2, <3>2 DEF FramesInv, LiveFrameIsLast
    <2> QED
        BY <1>9, <2>1, <2>2
<1>16. LiveHandlerIsLast'
    BY <1>2, <1>14 DEF FramesInv, LiveHandlerIsLast, Handling
<1>17. RepliesAreLast'
    BY <1>14 DEF FramesInv, RepliesAreLast, Handling
<1> QED
    BY <1>7, <1>8, <1>11, <1>15, <1>16, <1>17 DEF FramesInv, NetTypeOK

\* The next frame leaves the buffer.
LEMMA TakenFrames ==
    ASSUME NetTypeOK, LiveFrameIsLast, inbox # <<>>, inbox' = Tail(inbox),
           NEW f, f = Head(inbox)
    PROVE  /\ inbox' \in Seq(FrameType) /\ Len(inbox') <= Buffer
           /\ f \in FrameType /\ f.p \in Packets
           /\ Packets' \subseteq Packets
           /\ LiveFrameIsLast'
           /\ f.live => ~Queued(f.p.mac)'
<1> DEFINE n == Len(inbox)
<1>1. inbox \in Seq(FrameType) /\ n <= Buffer /\ Buffer \in Nat
    BY NetworkAssumption DEF NetTypeOK, FrameType
<1>2. /\ n \in Nat /\ n > 0 /\ DOMAIN inbox = 1..n
      /\ f = inbox[1] /\ f \in FrameType
      /\ inbox' \in Seq(FrameType) /\ Len(inbox') = n - 1 /\ DOMAIN inbox' = 1..(n - 1)
      /\ \A i \in 1..(n - 1) : inbox'[i] = inbox[i + 1]
    BY <1>1
<1>3. 1 \in 1..n /\ \A i \in 1..(n - 1) : i + 1 \in 1..n
    BY <1>2
<1> HIDE DEF n
<1>4. f.p \in Packets
    BY <1>2, <1>3 DEF Packets
<1>5. Packets' \subseteq Packets
    BY <1>2, <1>3 DEF Packets
<1>6. LiveFrameIsLast'
    <2> SUFFICES ASSUME NEW i \in 1..(n - 1), NEW j \in 1..(n - 1),
                        inbox'[i].live, inbox'[j].p.mac = inbox'[i].p.mac
                 PROVE  j <= i
        BY <1>2 DEF LiveFrameIsLast
    <2>1. i + 1 \in 1..n /\ j + 1 \in 1..n
        BY <1>3
    <2>2. inbox[i + 1].live /\ inbox[j + 1].p.mac = inbox[i + 1].p.mac
        BY <1>2
    <2>3. j + 1 <= i + 1
        BY <1>2, <2>1, <2>2 DEF LiveFrameIsLast
    <2> QED
        BY <1>2, <2>3
<1>7. f.live => ~Queued(f.p.mac)'
    <2>1. ASSUME f.live, NEW i \in 1..(n - 1), inbox'[i].p.mac = f.p.mac
          PROVE  FALSE
        <3>1. i + 1 \in 1..n /\ inbox[i + 1].p.mac = inbox[1].p.mac /\ inbox[1].live
            BY <1>2, <1>3, <2>1
        <3>2. i + 1 <= 1
            BY <1>2, <1>3, <3>1 DEF LiveFrameIsLast
        <3> QED
            BY <1>2, <3>2
    <2>2. Packets' = {inbox'[i].p : i \in 1..(n - 1)}
        BY <1>2 DEF Packets
    <2> QED
        BY <2>1, <2>2 DEF Queued
<1>8. Len(inbox') <= Buffer
    BY <1>1, <1>2
<1> QED
    BY <1>2, <1>4, <1>5, <1>6, <1>7, <1>8

\* recvfrom and what the first locked region does with the frame.
LEMMA ReceiveFrames ==
    ASSUME TypeOK, NetTypeOK, FramesInv, Receive
    PROVE  /\ inbox' \in Seq(FrameType) /\ Len(inbox') <= Buffer
           /\ live' \in BOOLEAN /\ wire' \subseteq ReplyType
           /\ UNCHANGED <<client, upset, calls>>
           /\ FramesInv' /\ Packets' \subseteq Packets
           /\ srv = Idle
           /\ \E f \in FrameType :
                /\ f.p \in Packets
                /\ Silent \/ (f.p \in Packet /\ Handle(f.p))
           /\ \A r \in wire' : r \in wire \/ r.msg = "NAK"
<1> DEFINE f == Head(inbox)
           moot == Dropped(f.p) \/ (f.p.type = "RELEASE" /\ ~Known(f.p.mac))
<1>1. /\ inbox # <<>> /\ srv = Idle /\ inbox' = Tail(inbox)
      /\ UNCHANGED <<client, upset, calls>>
      /\ IF moot THEN Silent ELSE Handle(f.p)
      /\ live' = (f.live /\ srv' # Idle)
      /\ wire' = wire \cup (IF moot THEN {} ELSE Sent(f.live))
    BY DEF Receive
<1>2. PICK g : g = f
    OBVIOUS
<1> HIDE DEF f
<1>3. /\ inbox' \in Seq(FrameType) /\ Len(inbox') <= Buffer
      /\ g \in FrameType /\ g.p \in Packets
      /\ Packets' \subseteq Packets /\ LiveFrameIsLast'
      /\ g.live => ~Queued(g.p.mac)'
    BY <1>1, <1>2, TakenFrames DEF FramesInv, f
<1>4. g.p.mac \in MAC /\ g.live \in BOOLEAN
    BY <1>3, PacketShapes DEF FrameType
<1>5. Silent \/ (g.p \in Packet /\ Handle(g.p))
    BY <1>1, <1>2 DEF Handle, NakForeign, Discover, Request, CheckAsserted, Decline, Release, Taken
<1>6. srv' # Idle => srv'.mac = g.p.mac
    BY <1>1, <1>5, HandleEffect DEF Silent
<1>7. \A r \in wire' : r \in wire \/ (g.live /\ r = Nak(g.p.mac))
    <2>1. CASE moot
        BY <1>1, <2>1
    <2>2. CASE ~moot
        <3>1. g.p \in Packet /\ Handle(g.p) /\ wire' = wire \cup Sent(g.live)
            BY <1>1, <1>2, <2>2
            DEF Handle, NakForeign, Discover, Request, CheckAsserted, Decline, Release, Taken
        <3>2. \A r \in out' : r.msg \in {"OFFER", "ACK", "NAK"} => r = Nak(g.p.mac)
            BY <3>1, HandleEffect
        <3> QED
            BY <3>1, <3>2 DEF Sent
    <2> QED
        BY <2>1, <2>2
<1>8. Nak(g.p.mac) \in ReplyType /\ Nak(g.p.mac).mac = g.p.mac /\ Nak(g.p.mac).msg = "NAK"
    BY <1>4 DEF Nak, ReplyType
<1>9. \A x : Queued(x)' => Queued(x)
    BY <1>3 DEF Queued
<1>10. Queued(g.p.mac)
    BY <1>3 DEF Queued
<1>11. LiveHandlerIsLast'
    BY <1>1, <1>2, <1>3, <1>6 DEF LiveHandlerIsLast, Handling
<1>12. RepliesAreLast'
    <2> SUFFICES ASSUME NEW r \in wire'
                 PROVE  /\ ~Queued(r.mac)'
                        /\ r.msg # "NAK" => ~Handling(r.mac)' /\ r.ttl <= LeaseTime
        BY DEF RepliesAreLast
    <2>1. CASE r \in wire
        <3>1. ~Queued(r.mac) /\ (r.msg # "NAK" => r.ttl <= LeaseTime)
            BY <2>1 DEF FramesInv, RepliesAreLast
        <3>2. r.mac # g.p.mac
            BY <1>10, <3>1
        <3> QED
            BY <1>6, <1>9, <3>1, <3>2 DEF Handling
    <2>2. CASE g.live /\ r = Nak(g.p.mac)
        BY <1>3, <1>8, <2>2
    <2> QED
        BY <1>7, <2>1, <2>2
<1>13. live' \in BOOLEAN
    BY <1>1
<1>14. wire' \subseteq ReplyType
    BY <1>7, <1>8 DEF NetTypeOK
<1>15. \A r \in wire' : r \in wire \/ r.msg = "NAK"
    BY <1>7, <1>8
<1> QED
    BY <1>1, <1>3, <1>5, <1>11, <1>12, <1>13, <1>14, <1>15 DEF FramesInv

LEMMA ReceiveKeepsClient ==
    ASSUME TypeOK, TypeOK', NoDuplicateLease, NetTypeOK, FramesInv, Receive,
           NEW m \in MAC, ClientInv(m)
    PROVE  ClientInv(m)'
<1>1. PICK f \in FrameType : f.p \in Packets /\ (Silent \/ (f.p \in Packet /\ Handle(f.p)))
    BY ReceiveFrames
<1>2. /\ srv = Idle /\ client' = client /\ upset' = upset /\ Packets' \subseteq Packets
      /\ \A r \in wire' : r \in wire \/ r.msg = "NAK"
    BY ReceiveFrames
<1>3. /\ client[m] \in ClientType /\ LeaseTime \in Nat
      /\ leases[m].ttl \in Nat /\ leases'[m].ttl \in Nat
    BY Constants DEF NetTypeOK, TypeOK, LeaseType, NoLease, Lease
<1>4. ClientIsSane(m)'
    BY <1>2 DEF ClientInv, ClientIsSane, Using
<1>5. \A r \in wire : r.mac = f.p.mac => FALSE
    BY <1>1 DEF FramesInv, RepliesAreLast, Queued
<1>6. CASE Silent
    <2>1. srv' = Idle /\ leases' = leases /\ contested' = contested
        BY <1>2, <1>6 DEF Silent
    <2>2. GrantIsFresh(m)'
        BY <1>2, <2>1 DEF ClientInv, GrantIsFresh, Waiting, Fresh, Handling
    <2>3. UserOnlyRenews(m)'
        BY <1>2, <2>1 DEF ClientInv, UserOnlyRenews, Using, Handling
    <2>4. RecordOutlives(m)'
        BY <1>2, <2>1 DEF ClientInv, RecordOutlives, Using
    <2> QED
        BY <1>4, <2>2, <2>3, <2>4 DEF ClientInv
<1>7. CASE f.p \in Packet /\ Handle(f.p) /\ f.p.mac # m
    <2>1. /\ leases'[m] = leases[m] /\ contested \subseteq contested'
          /\ ~Handling(m)'
        BY <1>7, HandleEffect DEF Handling
    <2>2. GrantIsFresh(m)'
        BY <1>2, <2>1 DEF ClientInv, GrantIsFresh, Waiting, Fresh
    <2>3. UserOnlyRenews(m)'
        BY <1>2, <2>1 DEF ClientInv, UserOnlyRenews, Using
    <2>4. RecordOutlives(m)'
        BY <1>2, <2>1 DEF ClientInv, RecordOutlives, Using
    <2> QED
        BY <1>4, <2>2, <2>3, <2>4 DEF ClientInv
<1>8. CASE f.p \in Packet /\ Handle(f.p) /\ f.p.mac = m
    <2>1. /\ contested \subseteq contested'
          /\ srv'.at = "store" => srv'.ttl = LeaseTime
          /\ srv'.at # "send"
          /\ srv'.at = "answer" => leases'[m].ip = srv'.ip
          /\ srv'.at = "answer" /\ srv'.as # "offer" => leases'[m].ttl = LeaseTime
        BY <1>8, HandleEffect
    <2>2. GrantIsFresh(m)'
        <3>1. Fresh(m, LeaseTime)'
            BY <1>2, <1>3 DEF Fresh, ClientType
        <3>2. \A r \in wire' : r.mac = m /\ r.msg = "ACK" => FALSE
            BY <1>2, <1>5, <1>8
        <3> QED
            BY <2>1, <3>1, <3>2 DEF GrantIsFresh, Fresh
    <2>3. ASSUME Using(m), m \notin upset
          PROVE  /\ leases' = leases /\ contested' = contested
                 /\ f.p = RenewOf(m, client[m].ip) /\ client[m].ip \in IP
                 /\ srv' # Idle =>
                      \/ srv' = [at |-> "store", mac |-> m, ip |-> client[m].ip, ttl |-> LeaseTime]
                      \/ HeldByOther(m, client[m].ip)
        <3>1. client[m].ip \in IP /\ f.p = RenewOf(m, client[m].ip)
            BY <1>1, <1>8, <2>3 DEF ClientInv, ClientIsSane, UserOnlyRenews
        <3> QED
            BY <1>8, <3>1, RenewEffect
    <2>4. RecordOutlives(m)'
        BY <1>2, <2>3 DEF ClientInv, RecordOutlives, Using
    <2>5. ASSUME Using(m), m \notin upset, HeldByOther(m, client[m].ip)
          PROVE  client[m].ip \in contested
        <3>1. PICK o \in MAC \ {m} : leases[o].ip = client[m].ip /\ leases[o].ttl > 0
            BY <2>5 DEF HeldByOther
        <3>2. SUFFICES ASSUME client[m].ip \notin contested
                       PROVE  FALSE
            OBVIOUS
        <3>3. leases[m].ip = client[m].ip /\ leases[m].ttl >= client[m].left /\ client[m].left > 0
            BY <2>5, <3>2 DEF ClientInv, RecordOutlives, Using
        <3>4. leases[m].ttl > 0
            BY <1>3, <3>3 DEF ClientType
        <3> QED
            BY <3>1, <3>2, <3>3, <3>4 DEF NoDuplicateLease, Live
    <2>6. UserOnlyRenews(m)'
        <3> SUFFICES ASSUME Using(m), m \notin upset
                     PROVE  UserOnlyRenews(m)'
            BY <1>2 DEF UserOnlyRenews, Using
        <3>1. \A p \in Packets' : p.mac = m => p = RenewOf(m, client[m].ip)
            BY <1>2 DEF ClientInv, UserOnlyRenews
        <3>2. Handling(m)' /\ client[m].ip \notin contested' =>
                srv' = [at |-> "store", mac |-> m, ip |-> client[m].ip, ttl |-> LeaseTime]
            BY <2>3, <2>5 DEF Handling
        <3>3. LeaseTime >= client[m].left
            BY <1>3 DEF ClientInv, ClientIsSane, ClientType
        <3> QED
            BY <1>2, <3>1, <3>2, <3>3 DEF UserOnlyRenews
    <2> QED
        BY <1>4, <2>2, <2>4, <2>6 DEF ClientInv
<1> QED
    BY <1>1, <1>6, <1>7, <1>8

\* The later regions of the handler: nothing moves in the buffer.
LEMMA ProceedFrames ==
    ASSUME TypeOK, NetTypeOK, FramesInv, Proceed
    PROVE  /\ NetTypeOK' /\ FramesInv'
           /\ \A r \in wire' :
                r \in wire \/ (r \in out' /\ r.msg \in {"OFFER", "ACK", "NAK"} /\ live)
<1>1. /\ ServerStep /\ wire' = wire \cup Sent(live) /\ live' = (live /\ srv' # Idle)
      /\ UNCHANGED <<inbox, client, upset, calls>>
    BY DEF Proceed
<1>2. /\ srv # Idle /\ srv.mac \in MAC
      /\ srv' # Idle => srv'.mac = srv.mac
      /\ \A r \in out' : r.msg \in {"OFFER", "ACK", "NAK"} =>
            /\ r \in ReplyType /\ r.mac = srv.mac /\ srv' = Idle
            /\ r.msg # "NAK" => r.ttl <= LeaseTime
    BY <1>1, ServerStepEffect
<1>3. \A r \in wire' : r \in wire \/ (r \in out' /\ r.msg \in {"OFFER", "ACK", "NAK"} /\ live)
    BY <1>1 DEF Sent
<1>4. Packets' = Packets /\ \A x : Queued(x)' = Queued(x)
    BY <1>1 DEF Packets, Queued
<1>5. NetTypeOK'
    <2>1. wire' \subseteq ReplyType
        BY <1>2, <1>3 DEF NetTypeOK
    <2> QED
        BY <1>1, <2>1 DEF NetTypeOK
<1>6. LiveFrameIsLast'
    BY <1>1 DEF FramesInv, LiveFrameIsLast
<1>7. LiveHandlerIsLast'
    BY <1>1, <1>2, <1>4 DEF FramesInv, LiveHandlerIsLast, Handling
<1>8. RepliesAreLast'
    <2> SUFFICES ASSUME NEW r \in wire'
                 PROVE  /\ ~Queued(r.mac)'
                        /\ r.msg # "NAK" => ~Handling(r.mac)' /\ r.ttl <= LeaseTime
        BY DEF RepliesAreLast
    <2>1. CASE r \in wire
        BY <1>2, <1>4, <2>1 DEF FramesInv, RepliesAreLast, Handling
    <2>2. CASE r \in out' /\ r.msg \in {"OFFER", "ACK", "NAK"} /\ live
        BY <1>2, <1>4, <2>2 DEF FramesInv, LiveHandlerIsLast, Handling
    <2> QED
        BY <1>3, <2>1, <2>2
<1> QED
    BY <1>3, <1>5, <1>6, <1>7, <1>8 DEF FramesInv

LEMMA ProceedKeepsClient ==
    ASSUME TypeOK, TypeOK', NetTypeOK, FramesInv, Proceed,
           NEW m \in MAC, ClientInv(m)
    PROVE  ClientInv(m)'
<1>1. /\ ServerStep /\ live' = (live /\ srv' # Idle)
      /\ UNCHANGED <<inbox, client, upset>>
    BY DEF Proceed
<1>2. \A r \in wire' : r \in wire \/ (r \in out' /\ r.msg \in {"OFFER", "ACK", "NAK"} /\ live)
    BY ProceedFrames
<1>3. /\ client[m] \in ClientType /\ LeaseTime \in Nat
      /\ leases[m].ttl \in Nat /\ leases'[m].ttl \in Nat
    BY Constants DEF NetTypeOK, TypeOK, LeaseType, NoLease, Lease
<1>4. ClientIsSane(m)'
    BY <1>1 DEF ClientInv, ClientIsSane, Using
<1>5. /\ Packets' = Packets /\ contested \subseteq contested'
      /\ srv # Idle /\ srv.mac \in MAC
      /\ srv' # Idle => srv'.mac = srv.mac
    BY <1>1, ServerStepEffect DEF Packets
<1>6. CASE srv.mac # m
    <2>1. leases'[m] = leases[m] /\ \A r \in out' : r.msg \in {"OFFER", "ACK", "NAK"} => r.mac # m
        BY <1>1, <1>6, ServerStepEffect
    <2>2. ~Handling(m)'
        BY <1>5, <1>6 DEF Handling
    <2>3. GrantIsFresh(m)'
        BY <1>1, <1>2, <2>1, <2>2 DEF ClientInv, GrantIsFresh, Waiting, Fresh
    <2>4. UserOnlyRenews(m)'
        BY <1>1, <1>5, <2>2 DEF ClientInv, UserOnlyRenews, Using
    <2>5. RecordOutlives(m)'
        BY <1>1, <1>5, <2>1 DEF ClientInv, RecordOutlives, Using
    <2> QED
        BY <1>4, <2>3, <2>4, <2>5 DEF ClientInv
<1>7. CASE srv.mac = m
    <2>1. Handling(m)
        BY <1>5, <1>7 DEF Handling
    <2>2. /\ srv'.at # "store"
          /\ srv.at = "store" => /\ leases'[m] = Lease(srv.ip, srv.ttl)
                                 /\ srv'.at = "answer" /\ srv'.ip = srv.ip
                                 /\ srv'.as = "rebootAck"
          /\ srv.at = "nakked" => srv'.as = "offer"
          /\ srv.at = "answer" => /\ leases' = leases /\ srv'.at = "send"
                                  /\ srv'.ip = srv.ip /\ srv'.as = srv.as
          /\ srv.at = "send" => srv' = Idle /\ leases' = leases
          /\ srv.at \in {"store", "nakked", "answer", "send"}
          /\ \A r \in out' : r.msg = "ACK" =>
                srv.at = "send" /\ srv.as # "offer" /\ r.ip = srv.ip
        BY <1>1, <1>7, ServerStepEffect
    <2>3. Lease(srv.ip, srv.ttl).ttl = srv.ttl /\ Lease(srv.ip, srv.ttl).ip = srv.ip
        BY DEF Lease
    <2>4. Idle.at \notin {"answer", "send"}
        BY DEF Idle
    <2>5. \A r \in wire : r.mac = m /\ r.msg = "ACK" => FALSE
        BY <2>1 DEF FramesInv, RepliesAreLast
    <2>6. GrantIsFresh(m)'
        <3> SUFFICES ASSUME Waiting(m), m \notin upset
                     PROVE  /\ live' /\ srv'.at \in {"answer", "send"} /\ srv'.as # "offer" =>
                                 leases'[m].ip = srv'.ip /\ Fresh(m, leases'[m].ttl)
                            /\ \A r \in wire' : r.mac = m /\ r.msg = "ACK" =>
                                 leases'[m].ip = r.ip /\ Fresh(m, leases'[m].ttl)
            BY <1>1, <2>2 DEF GrantIsFresh, Waiting, Fresh
        <3>1. ASSUME live', srv'.at \in {"answer", "send"}, srv'.as # "offer"
              PROVE  leases'[m].ip = srv'.ip /\ Fresh(m, leases'[m].ttl)
            BY <1>1, <2>1, <2>2, <2>3, <2>4, <3>1 DEF ClientInv, GrantIsFresh
        <3>2. ASSUME NEW r \in wire', r.mac = m, r.msg = "ACK"
              PROVE  leases'[m].ip = r.ip /\ Fresh(m, leases'[m].ttl)
            BY <1>2, <2>1, <2>2, <2>5, <3>2 DEF ClientInv, GrantIsFresh
        <3> QED
            BY <3>1, <3>2
    <2>7. UserOnlyRenews(m)' /\ RecordOutlives(m)'
        <3> SUFFICES ASSUME Using(m), m \notin upset
                     PROVE  UserOnlyRenews(m)' /\ RecordOutlives(m)'
            BY <1>1 DEF UserOnlyRenews, RecordOutlives, Using
        <3>1. \A p \in Packets' : p.mac = m => p = RenewOf(m, client[m].ip)
            BY <1>5 DEF ClientInv, UserOnlyRenews
        <3>2. CASE client[m].ip \in contested
            BY <1>1, <1>5, <3>1, <3>2 DEF UserOnlyRenews, RecordOutlives
        <3>3. CASE client[m].ip \notin contested
            <4>1. /\ srv.at \in {"store", "answer", "send"} /\ srv.ip = client[m].ip
                  /\ srv.at = "store" => srv.ttl >= client[m].left
                  /\ srv.at # "store" => srv.as = "rebootAck"
                  /\ leases[m].ip = client[m].ip /\ leases[m].ttl >= client[m].left
                BY <2>1, <3>3 DEF ClientInv, UserOnlyRenews, RecordOutlives
            <4>2. leases'[m].ip = client[m].ip /\ leases'[m].ttl >= client[m].left
                BY <2>2, <2>3, <4>1
            <4>3. Handling(m)' =>
                    /\ srv'.at \in {"answer", "send"} /\ srv'.ip = client[m].ip
                    /\ srv'.as = "rebootAck"
                BY <2>2, <4>1 DEF Handling
            <4> QED
                BY <1>1, <3>1, <4>2, <4>3 DEF UserOnlyRenews, RecordOutlives
        <3> QED
            BY <3>2, <3>3
    <2> QED
        BY <1>4, <2>6, <2>7 DEF ClientInv
<1> QED
    BY <1>6, <1>7

\* A frame or a reply is lost; the block list is replaced.
LEMMA LoseKeeps ==
    ASSUME NetInv, Lose
    PROVE  NetInv'
<1>1. UNCHANGED <<leases, srv, contested, live, client, upset, calls>>
    BY DEF Lose, Silent
<1>2. wire' \subseteq wire
    BY DEF Lose
<1>3. /\ inbox' \in Seq(FrameType) /\ Len(inbox') <= Buffer
      /\ Packets' \subseteq Packets /\ LiveFrameIsLast'
    <2>1. CASE inbox # <<>> /\ inbox' = Tail(inbox)
        <3>1. PICK f : f = Head(inbox)
            OBVIOUS
        <3> QED
            BY <2>1, <3>1, TakenFrames DEF NetInv, FramesInv
    <2>2. CASE inbox' = inbox
        BY <2>2 DEF NetInv, NetTypeOK, FrameType, FramesInv, LiveFrameIsLast, Packets
    <2> QED
        BY <2>1, <2>2 DEF Lose
<1>4. NetTypeOK'
    BY <1>1, <1>2, <1>3 DEF NetInv, NetTypeOK, FrameType
<1>5. FramesInv'
    BY <1>1, <1>2, <1>3
    DEF NetInv, FramesInv, LiveHandlerIsLast, RepliesAreLast, Handling, Queued
<1>6. ASSUME NEW m \in MAC
      PROVE  ClientInv(m)'
    <2>1. ClientIsSane(m)' /\ RecordOutlives(m)'
        BY <1>1 DEF NetInv, ClientInv, ClientIsSane, RecordOutlives, Using
    <2>2. GrantIsFresh(m)'
        BY <1>1, <1>2 DEF NetInv, ClientInv, GrantIsFresh, Waiting, Fresh, Handling
    <2>3. UserOnlyRenews(m)'
        BY <1>1, <1>3 DEF NetInv, ClientInv, UserOnlyRenews, Using, Handling
    <2> QED
        BY <2>1, <2>2, <2>3 DEF ClientInv
<1> QED
    BY <1>4, <1>5, <1>6 DEF NetInv

LEMMA StutterKeeps ==
    ASSUME NetInv, UNCHANGED <<leases, srv, contested, netVars>>
    PROVE  NetInv'
<1>1. NetTypeOK'
    BY DEF NetInv, NetTypeOK, netVars, segment
<1>2. FramesInv'
    BY DEF NetInv, FramesInv, LiveFrameIsLast, LiveHandlerIsLast, RepliesAreLast, Handling,
           Queued, Packets, netVars, segment
<1>3. ASSUME NEW m \in MAC
      PROVE  ClientInv(m)'
    BY DEF NetInv, ClientInv, ClientIsSane, GrantIsFresh, UserOnlyRenews, RecordOutlives,
           Using, Waiting, Fresh, Handling, Packets, netVars, segment
<1> QED
    BY <1>1, <1>2, <1>3 DEF NetInv

-----------------------------------------------------------------------------
(* Calls on the server, and its restart *)

\* A pinned, expired or kicked record: its client is upset, and the records
\* of the others stay what they count on.
LEMMA TouchKeeps ==
    ASSUME TypeOK, NetInv, NEW m \in MAC, Touch(m)
    PROVE  NetInv'
<1>1. /\ UNCHANGED <<srv, inbox, live, wire, client>>
      /\ upset' = upset \cup {m} /\ calls < MaxCalls /\ calls' = calls + 1
    BY DEF Touch, segment, AddStaticLease, ExpireLease, KickClient
<1>2. contested \subseteq contested' /\ \A o \in MAC \ {m} : leases'[o] = leases[o]
    BY DEF Touch, AddStaticLease, ExpireLease, KickClient, TypeOK
<1>3. NetTypeOK'
    <2>1. calls' \in 0..MaxCalls
        BY <1>1, NetworkAssumption DEF NetInv, NetTypeOK
    <2> QED
        BY <1>1, <2>1 DEF NetInv, NetTypeOK
<1>4. FramesInv'
    BY <1>1 DEF NetInv, FramesInv, LiveFrameIsLast, LiveHandlerIsLast, RepliesAreLast,
                Handling, Queued, Packets
<1>5. ASSUME NEW o \in MAC
      PROVE  ClientInv(o)'
    <2>1. ClientIsSane(o)'
        BY <1>1 DEF NetInv, ClientInv, ClientIsSane, Using
    <2>2. CASE o = m
        BY <1>1, <2>1, <2>2 DEF ClientInv, GrantIsFresh, UserOnlyRenews, RecordOutlives
    <2>3. CASE o # m
        <3>1. leases'[o] = leases[o] /\ (o \in upset' <=> o \in upset)
            BY <1>1, <1>2, <2>3
        <3>2. GrantIsFresh(o)'
            BY <1>1, <3>1 DEF NetInv, ClientInv, GrantIsFresh, Waiting, Fresh, Handling
        <3>3. UserOnlyRenews(o)'
            BY <1>1, <1>2, <3>1 DEF NetInv, ClientInv, UserOnlyRenews, Using, Handling, Packets
        <3>4. RecordOutlives(o)'
            BY <1>1, <1>2, <3>1 DEF NetInv, ClientInv, RecordOutlives, Using
        <3> QED
            BY <2>1, <3>2, <3>3, <3>4 DEF ClientInv
    <2> QED
        BY <2>2, <2>3
<1> QED
    BY <1>3, <1>4, <1>5 DEF NetInv

\* A new server: every client is upset, and no frame waits for it.
LEMMA RestartKeeps ==
    ASSUME NetInv, RestartServer
    PROVE  NetInv'
<1>1. /\ srv' = Idle /\ inbox' = <<>> /\ live' = FALSE /\ UNCHANGED <<wire, client>>
      /\ upset' = MAC /\ calls < MaxCalls /\ calls' = calls + 1
    BY DEF RestartServer, Restart
<1>2. inbox' \in Seq(FrameType) /\ Len(inbox') = 0 /\ DOMAIN inbox' = {} /\ Packets' = {}
    BY <1>1 DEF Packets
<1>3. NetTypeOK'
    <2>1. calls' \in 0..MaxCalls /\ Len(inbox') <= Buffer
        BY <1>1, <1>2, NetworkAssumption DEF NetInv, NetTypeOK
    <2> QED
        BY <1>1, <1>2, <2>1 DEF NetInv, NetTypeOK, FrameType
<1>4. FramesInv'
    BY <1>1, <1>2 DEF NetInv, FramesInv, LiveFrameIsLast, LiveHandlerIsLast, RepliesAreLast,
                      Handling, Queued
<1>5. ASSUME NEW o \in MAC
      PROVE  ClientInv(o)'
    BY <1>1 DEF NetInv, ClientInv, ClientIsSane, Using, GrantIsFresh, UserOnlyRenews,
                RecordOutlives
<1> QED
    BY <1>3, <1>4, <1>5 DEF NetInv

-----------------------------------------------------------------------------
(* Time *)

\* A tick of the clock: the clients' times run down with the table's.
LEMMA ElapseEffect ==
    ASSUME TypeOK, TypeOK', NetTypeOK, FramesInv, Elapse
    PROVE  /\ NetTypeOK' /\ Packets' = Packets /\ contested' = contested /\ upset' = upset
           /\ live' => live
           /\ wire' \subseteq wire
           /\ \A i \in 1..Len(inbox) : inbox'[i].p = inbox[i].p /\ (inbox'[i].live => inbox[i].live)
           /\ Len(inbox') = Len(inbox)
           /\ (srv' = Idle) <=> (srv = Idle)
           /\ srv'.at = srv.at
           /\ srv # Idle => srv'.mac = srv.mac
           /\ srv.at \in {"store", "answer", "send"} => srv'.ip = srv.ip
           /\ srv.at \in {"answer", "send"} => srv'.as = srv.as
           /\ srv.at = "store" => srv.ttl \in Nat /\ srv'.ttl = Less(srv.ttl)
           /\ \A m \in MAC : leases'[m].ip = leases[m].ip /\ leases'[m].ttl = Less(leases[m].ttl)
           /\ \A m \in MAC :
                \/ client'[m] = Off(client[m].ip)
                \/ /\ client[m].left # 1
                   /\ client'[m].left = Less(client[m].left)
                   /\ client'[m].phase = client[m].phase /\ client'[m].ip = client[m].ip
                   /\ client'[m].age = IF Waiting(m) /\ client[m].age < LeaseTime
                                       THEN client[m].age + 1 ELSE client[m].age
<1> DEFINE done == {m \in MAC : client[m].left = 1}
           aged(m) == [client[m] EXCEPT
                        !.left = Less(client[m].left),
                        !.age = IF Waiting(m) /\ client[m].age < LeaseTime
                                THEN client[m].age + 1 ELSE client[m].age]
<1>1. /\ Tick
      /\ client' = [m \in MAC |-> IF client[m].left = 1 THEN Off(client[m].ip) ELSE aged(m)]
      /\ inbox' = [i \in DOMAIN inbox |->
            IF inbox[i].p.mac \in done THEN [inbox[i] EXCEPT !.live = FALSE] ELSE inbox[i]]
      /\ wire' = {r \in wire : r.mac \notin done}
      /\ live' = (live /\ (srv = Idle \/ srv.mac \notin done))
    BY DEF Elapse, Waiting
<1>2. /\ inbox' \in Seq(FrameType) /\ Len(inbox') = Len(inbox) /\ Packets' = Packets
      /\ \A i \in 1..Len(inbox) : inbox'[i].p = inbox[i].p /\ (inbox'[i].live => inbox[i].live)
    <2> HIDE DEF done
    <2> QED
        BY <1>1, VoidedFrames
<1>3. \A m \in MAC :
        /\ client[m] \in ClientType /\ Off(client[m].ip) \in ClientType
        /\ aged(m) \in ClientType
        /\ aged(m).left = Less(client[m].left)
        /\ aged(m).phase = client[m].phase /\ aged(m).ip = client[m].ip
        /\ aged(m).age = IF Waiting(m) /\ client[m].age < LeaseTime
                         THEN client[m].age + 1 ELSE client[m].age
    <2> TAKE m \in MAC
    <2>1. client[m] \in ClientType
        BY DEF NetTypeOK
    <2>2. Less(client[m].left) \in Nat
        BY <2>1 DEF Less, ClientType
    <2>3. (IF Waiting(m) /\ client[m].age < LeaseTime
           THEN client[m].age + 1 ELSE client[m].age) \in Nat
        BY <2>1 DEF ClientType
    <2>4. Off(client[m].ip) \in ClientType
        BY <2>1 DEF Off, ClientType
    <2> HIDE DEF Waiting, Less
    <2> QED
        BY <2>1, <2>2, <2>3, <2>4 DEF ClientType
<1>4. client' \in [MAC -> ClientType]
    BY <1>1, <1>3
<1>5. \A m \in MAC :
        \/ client'[m] = Off(client[m].ip)
        \/ /\ client[m].left # 1
           /\ client'[m].left = Less(client[m].left)
           /\ client'[m].phase = client[m].phase /\ client'[m].ip = client[m].ip
           /\ client'[m].age = IF Waiting(m) /\ client[m].age < LeaseTime
                               THEN client[m].age + 1 ELSE client[m].age
    <2> HIDE DEF aged
    <2> QED
        BY <1>1, <1>3
<1>6. /\ contested' = contested
      /\ srv' = IF srv.at = "store" THEN [srv EXCEPT !.ttl = Less(srv.ttl)] ELSE srv
      /\ leases' = [m \in MAC |-> [leases[m] EXCEPT !.ttl = Less(leases[m].ttl)]]
    BY <1>1 DEF Tick
<1>7. \A m \in MAC : leases'[m].ip = leases[m].ip /\ leases'[m].ttl = Less(leases[m].ttl)
    BY <1>6 DEF TypeOK, LeaseType, NoLease, Lease
<1>8. /\ (srv' = Idle) <=> (srv = Idle)
      /\ srv'.at = srv.at
      /\ srv # Idle => srv'.mac = srv.mac
      /\ srv.at \in {"store", "answer", "send"} => srv'.ip = srv.ip
      /\ srv.at \in {"answer", "send"} => srv'.as = srv.as
      /\ srv.at = "store" => srv.ttl \in Nat /\ srv'.ttl = Less(srv.ttl)
    <2>1. CASE srv.at = "store"
        BY <1>6, <2>1 DEF TypeOK, ServerType, Idle
    <2>2. CASE srv.at # "store"
        BY <1>6, <2>2
    <2> QED
        BY <2>1, <2>2
<1>9. (live' => live) /\ live' \in BOOLEAN /\ wire' \subseteq wire
    BY <1>1 DEF NetTypeOK
<1>10. UNCHANGED <<upset, calls>>
    BY DEF Elapse
<1>11. NetTypeOK'
    BY <1>2, <1>4, <1>9, <1>10 DEF NetTypeOK, FrameType
<1> QED
    BY <1>2, <1>5, <1>6, <1>7, <1>8, <1>9, <1>10, <1>11

LEMMA ElapseKeeps ==
    ASSUME TypeOK, TypeOK', NetInv, Elapse
    PROVE  NetInv'
<1>1. /\ NetTypeOK' /\ Packets' = Packets /\ contested' = contested /\ upset' = upset
      /\ live' => live
      /\ wire' \subseteq wire
      /\ Len(inbox') = Len(inbox)
      /\ \A i \in 1..Len(inbox) : inbox'[i].p = inbox[i].p /\ (inbox'[i].live => inbox[i].live)
    BY ElapseEffect DEF NetInv
<1>2. /\ (srv' = Idle) <=> (srv = Idle)
      /\ srv'.at = srv.at
      /\ srv # Idle => srv'.mac = srv.mac
      /\ srv.at \in {"store", "answer", "send"} => srv'.ip = srv.ip
      /\ srv.at \in {"answer", "send"} => srv'.as = srv.as
      /\ srv.at = "store" => srv.ttl \in Nat /\ srv'.ttl = Less(srv.ttl)
      /\ \A m \in MAC : leases'[m].ip = leases[m].ip /\ leases'[m].ttl = Less(leases[m].ttl)
    BY ElapseEffect DEF NetInv
<1>3. \A x : Queued(x)' = Queued(x) /\ Handling(x)' = Handling(x)
    BY <1>1, <1>2 DEF Queued, Handling
<1>4. FramesInv'
    <2>1. DOMAIN inbox' = 1..Len(inbox) /\ DOMAIN inbox = 1..Len(inbox)
        BY <1>1 DEF NetInv, NetTypeOK
    <2>2. LiveFrameIsLast'
        BY <1>1, <2>1 DEF NetInv, FramesInv, LiveFrameIsLast
    <2>3. LiveHandlerIsLast'
        BY <1>1, <1>3 DEF NetInv, FramesInv, LiveHandlerIsLast
    <2>4. RepliesAreLast'
        BY <1>1, <1>3 DEF NetInv, FramesInv, RepliesAreLast
    <2> QED
        BY <2>2, <2>3, <2>4 DEF FramesInv
<1>5. ASSUME NEW m \in MAC
      PROVE  ClientInv(m)'
    <2>1. /\ client[m] \in ClientType /\ client'[m] \in ClientType /\ LeaseTime \in Nat
          /\ leases[m].ttl \in Nat /\ leases'[m].ttl \in Nat
        BY <1>1, Constants DEF NetInv, NetTypeOK, TypeOK, LeaseType, NoLease, Lease
    <2>2. leases'[m].ip = leases[m].ip /\ leases'[m].ttl = Less(leases[m].ttl)
        BY <1>2
    <2>3. CASE client'[m] = Off(client[m].ip)
        <3>1. client'[m].phase = "init" /\ client'[m].left = 0 /\ client'[m].age = 0
            BY <2>3 DEF Off
        <3> QED
            BY <2>1, <3>1 DEF ClientInv, ClientIsSane, GrantIsFresh, UserOnlyRenews,
                              RecordOutlives, Using, Waiting
    <2>4. CASE /\ client[m].left # 1
               /\ client'[m].left = Less(client[m].left)
               /\ client'[m].phase = client[m].phase /\ client'[m].ip = client[m].ip
               /\ client'[m].age = IF Waiting(m) /\ client[m].age < LeaseTime
                                   THEN client[m].age + 1 ELSE client[m].age
        <3>1. Using(m)' <=> Using(m)
            BY <2>1, <2>4 DEF Using, Less, ClientType
        <3>2. Waiting(m)' = Waiting(m)
            BY <2>4 DEF Waiting
        <3>3. client[m].age \in Nat /\ client[m].left \in Nat
            BY <2>1 DEF ClientType
        <3>4. \A t \in Nat : Waiting(m) /\ client[m].age <= LeaseTime /\ Fresh(m, t) =>
                Less(t) + client'[m].age >= LeaseTime
            BY <2>1, <2>4, <3>3 DEF Less, Fresh
        <3>5. \A t \in Nat : t >= client[m].left => Less(t) >= client'[m].left
            BY <2>4, <3>3 DEF Less
        <3>6. ClientIsSane(m)'
            BY <2>1, <2>4, <3>1, <3>3 DEF NetInv, ClientInv, ClientIsSane, Less
        <3>7. client[m].age <= LeaseTime
            BY DEF NetInv, ClientInv, ClientIsSane
        <3> HIDE DEF Less
        <3>8. GrantIsFresh(m)'
            <4> SUFFICES ASSUME Waiting(m), m \notin upset
                         PROVE  GrantIsFresh(m)'
                BY <1>1, <3>2 DEF GrantIsFresh
            <4>1. ASSUME Handling(m), live, srv.at = "store"
                  PROVE  srv'.ttl + client'[m].age >= LeaseTime
                BY <1>2, <3>4, <3>7, <4>1 DEF NetInv, ClientInv, GrantIsFresh
            <4>2. ASSUME Fresh(m, leases[m].ttl)
                  PROVE  leases'[m].ttl + client'[m].age >= LeaseTime
                BY <2>1, <2>2, <3>4, <3>7, <4>2
            <4>3. ASSUME Handling(m), live, srv.at \in {"answer", "send"}, srv.as # "offer"
                  PROVE  leases'[m].ip = srv.ip /\ leases'[m].ttl + client'[m].age >= LeaseTime
                BY <2>2, <4>2, <4>3 DEF NetInv, ClientInv, GrantIsFresh
            <4>4. ASSUME NEW r \in wire, r.mac = m, r.msg = "ACK"
                  PROVE  leases'[m].ip = r.ip /\ leases'[m].ttl + client'[m].age >= LeaseTime
                BY <2>2, <4>2, <4>4 DEF NetInv, ClientInv, GrantIsFresh
            <4> QED
                BY <1>1, <1>2, <1>3, <4>1, <4>3, <4>4 DEF GrantIsFresh, Fresh
        <3>9. UserOnlyRenews(m)'
            <4> SUFFICES ASSUME Using(m), m \notin upset
                         PROVE  UserOnlyRenews(m)'
                BY <1>1, <3>1 DEF UserOnlyRenews
            <4>1. \A p \in Packets' : p.mac = m => p = RenewOf(m, client'[m].ip)
                BY <1>1, <2>4 DEF NetInv, ClientInv, UserOnlyRenews
            <4>2. ASSUME Handling(m), client[m].ip \notin contested
                  PROVE  /\ srv'.at \in {"store", "answer", "send"} /\ srv'.ip = client'[m].ip
                         /\ srv'.at = "store" => srv'.ttl >= client'[m].left
                         /\ srv'.at # "store" => srv'.as = "rebootAck"
                BY <1>2, <2>4, <3>5, <4>2 DEF NetInv, ClientInv, UserOnlyRenews
            <4> QED
                BY <1>1, <1>3, <2>4, <4>1, <4>2 DEF UserOnlyRenews
        <3>10. RecordOutlives(m)'
            BY <1>1, <2>1, <2>2, <2>4, <3>1, <3>5 DEF NetInv, ClientInv, RecordOutlives
        <3> QED
            BY <3>6, <3>8, <3>9, <3>10 DEF ClientInv
    <2> QED
        BY <2>3, <2>4, ElapseEffect DEF NetInv
<1> QED
    BY <1>1, <1>4, <1>5 DEF NetInv

-----------------------------------------------------------------------------
(* The clients *)

\* A client that starts from nothing is upset no longer.
Settles(m) == calls' = calls /\ upset' \in {upset, upset \ {m}}

\* A step of client m after which no exchange of m is in flight but the one
\* whose frame is in the buffer.
LEMMA ClientStepKeeps ==
    ASSUME NetInv, NEW m \in MAC, UNCHANGED <<leases, srv, contested>>,
           FramesInv', inbox' \in Seq(FrameType), Len(inbox') <= Buffer,
           live' \in BOOLEAN, live' => live /\ ~Handling(m),
           wire' \subseteq wire, \A r \in wire' : r.mac # m,
           \A p \in Packets' : p \in Packets \/ p.mac = m,
           Settles(m), NEW c \in ClientType, client' = [client EXCEPT ![m] = c],
           c.age <= LeaseTime, c.left <= LeaseTime,
           c.left > 0 <=> c.phase \in {"bound", "renewing"},
           c.left > 0 => /\ c.ip \in IP
                         /\ UserOnlyRenews(m)' /\ RecordOutlives(m)'
    PROVE  NetInv'
<1>1. client' \in [MAC -> ClientType] /\ client'[m] = c
      /\ \A o \in MAC \ {m} : client'[o] = client[o]
    BY DEF NetInv, NetTypeOK
<1>2. NetTypeOK'
    BY <1>1 DEF NetInv, NetTypeOK, FrameType, Settles
<1>3. ClientInv(m)'
    <2>1. GrantIsFresh(m)'
        BY DEF GrantIsFresh, Handling
    <2>2. ClientIsSane(m)'
        BY <1>1 DEF ClientIsSane, Using
    <2>3. UserOnlyRenews(m)' /\ RecordOutlives(m)'
        BY <1>1 DEF UserOnlyRenews, RecordOutlives, Using
    <2> QED
        BY <2>1, <2>2, <2>3 DEF ClientInv
<1>4. ASSUME NEW o \in MAC \ {m}
      PROVE  ClientInv(o)'
    <2>1. client'[o] = client[o] /\ (o \in upset' <=> o \in upset)
        BY <1>1 DEF Settles
    <2>2. ClientIsSane(o)' /\ RecordOutlives(o)'
        BY <2>1 DEF NetInv, ClientInv, ClientIsSane, RecordOutlives, Using
    <2>3. GrantIsFresh(o)'
        BY <2>1 DEF NetInv, ClientInv, GrantIsFresh, Waiting, Fresh, Handling
    <2>4. UserOnlyRenews(o)'
        BY <2>1 DEF NetInv, ClientInv, UserOnlyRenews, Using, Handling
    <2> QED
        BY <2>2, <2>3, <2>4 DEF ClientInv
<1> QED
    BY <1>2, <1>3, <1>4 DEF NetInv

\* m gives up its exchange and is then in state c.
LEMMA GivingUpKeeps ==
    ASSUME NetInv, NEW m \in MAC, Silent, Abandon(m), inbox' = Forget(m, inbox),
           UNCHANGED <<upset, calls>>,
           NEW c \in ClientType, client' = [client EXCEPT ![m] = c],
           c.age <= LeaseTime, c.left <= LeaseTime,
           c.left > 0 <=> c.phase \in {"bound", "renewing"},
           c.left > 0 => /\ c.ip \in IP
                         /\ UserOnlyRenews(m)' /\ RecordOutlives(m)'
    PROVE  NetInv'
<1>1. UNCHANGED <<leases, srv, contested>>
    BY DEF Silent
<1>2. /\ FramesInv' /\ Packets' = Packets
      /\ inbox' \in Seq(FrameType) /\ Len(inbox') <= Buffer
      /\ live' \in BOOLEAN
    BY <1>1, ForgottenFrames DEF NetInv
<1>3. /\ live' => live /\ ~Handling(m)
      /\ wire' \subseteq wire /\ \A r \in wire' : r.mac # m
    BY DEF Abandon, Handling
<1>4. \A p \in Packets' : p \in Packets \/ p.mac = m
    BY <1>2
<1>5. Settles(m)
    BY DEF Settles
<1> QED
    BY <1>1, <1>2, <1>3, <1>4, <1>5, ClientStepKeeps

\* m starts an exchange with packet p and is then in state c.
LEMMA StartingKeeps ==
    ASSUME NetInv, NEW m \in MAC, Silent,
           NEW p \in NetPacket, p.mac = m, Start(m, p), Settles(m),
           NEW c \in ClientType, client' = [client EXCEPT ![m] = c],
           c.age <= LeaseTime, c.left <= LeaseTime,
           c.left > 0 <=> c.phase \in {"bound", "renewing"},
           c.left > 0 => /\ c.ip \in IP
                         /\ c.left = client[m].left /\ c.ip = client[m].ip
                         /\ p = RenewOf(m, c.ip) /\ upset' = upset
    PROVE  NetInv'
<1>1. UNCHANGED <<leases, srv, contested>>
    BY DEF Silent
<1>2. /\ FramesInv' /\ Packets' = Packets \cup {p}
      /\ inbox' \in Seq(FrameType) /\ Len(inbox') <= Buffer
      /\ live' \in BOOLEAN
    BY <1>1, StartedFrames DEF NetInv
<1>3. /\ live' => live /\ ~Handling(m)
      /\ wire' \subseteq wire /\ \A r \in wire' : r.mac # m
    BY DEF Start, Abandon, Handling
<1>4. \A x \in Packets' : x \in Packets \/ x.mac = m
    BY <1>2
<1>5. client'[m] = c
    BY DEF NetInv, NetTypeOK
<1>6. c.left > 0 => UserOnlyRenews(m)' /\ RecordOutlives(m)'
    <2> SUFFICES ASSUME c.left > 0
                 PROVE  UserOnlyRenews(m)' /\ RecordOutlives(m)'
        OBVIOUS
    <2>1. Using(m)
        BY DEF Using
    <2>2. UserOnlyRenews(m)'
        BY <1>1, <1>2, <1>5, <2>1 DEF NetInv, ClientInv, UserOnlyRenews, Handling
    <2>3. RecordOutlives(m)'
        BY <1>1, <1>5, <2>1 DEF NetInv, ClientInv, RecordOutlives
    <2> QED
        BY <2>2, <2>3
<1> QED
    BY <1>1, <1>2, <1>3, <1>4, <1>6, ClientStepKeeps

\* The states a client may be in.
LEMMA ClientShapes ==
    ASSUME NetInv, NEW m \in MAC
    PROVE  /\ client[m] \in ClientType /\ client[m].left \in Nat /\ client[m].age \in Nat
           /\ client[m].ip \in IP \cup {NoIP}
           /\ client[m].phase \notin {"bound", "renewing"} => client[m].left = 0
           /\ client[m].phase \in {"bound", "renewing"} =>
                client[m].left > 0 /\ client[m].ip \in IP
           /\ client[m].age <= LeaseTime /\ client[m].left <= LeaseTime /\ LeaseTime \in Nat
           /\ \A ip \in IP \cup {NoIP} :
                /\ Off(ip) \in ClientType /\ Off(ip).left = 0 /\ Off(ip).age = 0
                /\ Off(ip).phase = "init"
<1>1. client[m] \in ClientType
    BY DEF NetInv, NetTypeOK
<1>2. client[m].left \in Nat /\ client[m].age \in Nat /\ client[m].ip \in IP \cup {NoIP}
    BY <1>1 DEF ClientType
<1>3. LeaseTime \in Nat
    BY Constants
<1>4. /\ client[m].phase \notin {"bound", "renewing"} => client[m].left = 0
      /\ client[m].phase \in {"bound", "renewing"} =>
            client[m].left > 0 /\ client[m].ip \in IP
    BY <1>2 DEF NetInv, ClientInv, ClientIsSane, Using
<1>5. client[m].age <= LeaseTime /\ client[m].left <= LeaseTime
    BY DEF NetInv, ClientInv, ClientIsSane
<1>6. \A ip \in IP \cup {NoIP} :
        /\ Off(ip) \in ClientType /\ Off(ip).left = 0 /\ Off(ip).age = 0
        /\ Off(ip).phase = "init"
    BY DEF Off, ClientType
<1> QED
    BY <1>1, <1>2, <1>3, <1>4, <1>5, <1>6

LEMMA SendKeeps ==
    ASSUME NetInv, NEW m \in MAC,
           SendDiscover(m) \/ SendReboot(m) \/ SendRenew(m) \/ SendLast(m)
    PROVE  NetInv'
<1>0. /\ client[m].phase \in {"init", "bound"} /\ Silent /\ Settles(m)
      /\ SendRenew(m) => upset' = upset
      /\ client[m].age \in Nat /\ client[m].age <= LeaseTime /\ LeaseTime \in Nat
      /\ client[m].left \in Nat /\ client[m].left <= LeaseTime
      /\ client[m].phase = "init" => client[m].left = 0
      /\ client[m].phase = "bound" => client[m].left > 0 /\ client[m].ip \in IP
    BY ClientShapes DEF SendDiscover, SendReboot, SendRenew, SendLast, Settles
<1>1. CASE SendDiscover(m)
    <2> DEFINE c == [client[m] EXCEPT !.phase = "selecting"]
    <2>1. PICK wish \in {NoIP, client[m].ip} : Start(m, DiscoverOf(m, wish))
        BY <1>1 DEF SendDiscover
    <2>2. client[m].phase = "init" /\ client' = [client EXCEPT ![m] = c]
        BY <1>1 DEF SendDiscover
    <2>3. DiscoverOf(m, wish) \in NetPacket /\ DiscoverOf(m, wish).mac = m
        BY ClientShapes, PacketShapes
    <2>4. c \in ClientType /\ c.left = 0 /\ c.age = client[m].age /\ c.phase = "selecting"
        BY <1>0, <2>2, ClientShapes DEF ClientType
    <2> DEFINE p == DiscoverOf(m, wish)
    <2>5. p \in NetPacket /\ p.mac = m /\ Start(m, p)
        BY <2>1, <2>3
    <2> HIDE DEF c, p
    <2>6. /\ c.age <= LeaseTime /\ c.left <= LeaseTime
          /\ c.left > 0 <=> c.phase \in {"bound", "renewing"}
          /\ ~(c.left > 0)
        BY <1>0, <2>4
    <2> QED
        BY <1>0, <2>2, <2>4, <2>5, <2>6, StartingKeeps
<1>2. CASE SendReboot(m)
    <2> DEFINE c == [client[m] EXCEPT !.phase = "requesting", !.age = 0]
    <2>1. /\ client[m].phase = "init" /\ client[m].ip # NoIP
          /\ Start(m, RebootOf(m, client[m].ip))
          /\ client' = [client EXCEPT ![m] = c]
        BY <1>2 DEF SendReboot
    <2>2. RebootOf(m, client[m].ip) \in NetPacket /\ RebootOf(m, client[m].ip).mac = m
        BY <2>1, ClientShapes, PacketShapes
    <2>3. c \in ClientType /\ c.left = 0 /\ c.age = 0 /\ c.phase = "requesting"
        BY <1>0, <2>1, ClientShapes DEF ClientType
    <2>4. PICK p : p = RebootOf(m, client[m].ip)
        OBVIOUS
    <2>5. p \in NetPacket /\ p.mac = m /\ Start(m, p)
        BY <2>1, <2>2, <2>4
    <2> HIDE DEF c
    <2>6. /\ c.age <= LeaseTime /\ c.left <= LeaseTime
          /\ c.left > 0 <=> c.phase \in {"bound", "renewing"}
          /\ ~(c.left > 0)
        BY <1>0, <2>3
    <2> QED
        BY <1>0, <2>1, <2>3, <2>5, <2>6, StartingKeeps
<1>3. CASE SendRenew(m)
    <2> DEFINE c == [client[m] EXCEPT !.phase = "renewing", !.age = 0]
    <2>1. /\ client[m].phase = "bound"
          /\ Start(m, RenewOf(m, client[m].ip))
          /\ client' = [client EXCEPT ![m] = c]
        BY <1>3 DEF SendRenew
    <2>2. RenewOf(m, client[m].ip) \in NetPacket /\ RenewOf(m, client[m].ip).mac = m
        BY <1>0, <2>1, PacketShapes
    <2>3. /\ c \in ClientType /\ c.left = client[m].left /\ c.age = 0
          /\ c.ip = client[m].ip /\ c.phase = "renewing"
        BY ClientShapes DEF ClientType
    <2>4. PICK p : p = RenewOf(m, client[m].ip)
        OBVIOUS
    <2>5. p \in NetPacket /\ p.mac = m /\ Start(m, p) /\ p = RenewOf(m, c.ip)
        BY <2>1, <2>2, <2>3, <2>4
    <2> HIDE DEF c
    <2>6. /\ c.age <= LeaseTime /\ c.left <= LeaseTime
          /\ c.left > 0 <=> c.phase \in {"bound", "renewing"}
          /\ c.ip \in IP
        BY <1>0, <2>1, <2>3
    <2> QED
        BY <1>0, <1>3, <2>1, <2>3, <2>5, <2>6, StartingKeeps
<1>4. CASE SendLast(m)
    <2> DEFINE c == Off(NoIP)
    <2>1. PICK p \in {ReleaseOf(m, client[m].ip), DeclineOf(m, client[m].ip)} : Start(m, p)
        BY <1>4 DEF SendLast
    <2>2. client[m].phase = "bound" /\ client' = [client EXCEPT ![m] = c]
        BY <1>4 DEF SendLast
    <2>3. p \in NetPacket /\ p.mac = m
        BY <1>0, <2>1, <2>2, PacketShapes
    <2>4. c \in ClientType /\ c.left = 0 /\ c.age = 0 /\ c.phase = "init"
        BY ClientShapes
    <2> HIDE DEF c
    <2>5. /\ c.age <= LeaseTime /\ c.left <= LeaseTime
          /\ c.left > 0 <=> c.phase \in {"bound", "renewing"}
          /\ ~(c.left > 0)
        BY <1>0, <2>4
    <2> QED
        BY <1>0, <2>1, <2>2, <2>3, <2>4, <2>5, StartingKeeps
<1> QED
    BY <1>1, <1>2, <1>3, <1>4

\* A client that is switched off, or has waited long enough.
LEMMA StopKeeps ==
    ASSUME NetInv, NEW m \in MAC, PowerOff(m) \/ Timeout(m)
    PROVE  NetInv'
<1>0. /\ Silent /\ Abandon(m) /\ inbox' = Forget(m, inbox) /\ UNCHANGED <<upset, calls>>
      /\ client[m] \in ClientType /\ LeaseTime \in Nat
      /\ client[m].left \in Nat /\ client[m].left <= LeaseTime
      /\ client[m].left > 0 => client[m].ip \in IP
    BY ClientShapes DEF PowerOff, Timeout
<1>1. UNCHANGED <<leases, srv, contested>> /\ Packets' = Packets
    BY <1>0, ForgottenFrames DEF NetInv, Silent
<1>2. CASE PowerOff(m)
    <2> DEFINE c == Off(client[m].ip)
    <2>1. client' = [client EXCEPT ![m] = c]
        BY <1>2 DEF PowerOff
    <2>2. c \in ClientType /\ c.left = 0 /\ c.age = 0 /\ c.phase = "init"
        BY ClientShapes
    <2> HIDE DEF c
    <2>3. /\ c.age <= LeaseTime /\ c.left <= LeaseTime
          /\ c.left > 0 <=> c.phase \in {"bound", "renewing"}
          /\ ~(c.left > 0)
        BY <1>0, <2>2
    <2> QED
        BY <1>0, <2>1, <2>2, <2>3, GivingUpKeeps
<1>3. CASE Timeout(m)
    <2> DEFINE phase == IF Using(m) THEN "bound" ELSE "init"
               c == [client[m] EXCEPT !.phase = phase, !.asked = NoIP, !.age = 0]
    <2>1. client' = [client EXCEPT ![m] = c]
        BY <1>3 DEF Timeout
    <2>2. phase \in {"bound", "init"} /\ (phase = "bound" <=> Using(m))
        OBVIOUS
    <2> HIDE DEF phase
    <2>3. /\ c \in ClientType /\ c.left = client[m].left /\ c.age = 0 /\ c.phase = phase
          /\ c.ip = client[m].ip
        BY <1>0, <2>2 DEF ClientType
    <2> HIDE DEF c
    <2>4. client'[m] = c
        BY <2>1 DEF NetInv, NetTypeOK
    <2>5. ASSUME c.left > 0
          PROVE  c.ip \in IP /\ UserOnlyRenews(m)' /\ RecordOutlives(m)'
        <3>1. Using(m)
            BY <2>3, <2>5 DEF Using
        <3>2. UserOnlyRenews(m)'
            BY <1>0, <1>1, <2>3, <2>4, <3>1 DEF NetInv, ClientInv, UserOnlyRenews, Handling
        <3>3. RecordOutlives(m)'
            BY <1>0, <1>1, <2>3, <2>4, <3>1 DEF NetInv, ClientInv, RecordOutlives
        <3> QED
            BY <1>0, <2>3, <2>5, <3>2, <3>3
    <2>6. /\ c.age <= LeaseTime /\ c.left <= LeaseTime
          /\ c.left > 0 <=> c.phase \in {"bound", "renewing"}
        BY <1>0, <2>2, <2>3 DEF Using
    <2> QED
        BY <1>0, <2>1, <2>3, <2>5, <2>6, GivingUpKeeps
<1> QED
    BY <1>2, <1>3

\* The lease counts from the REQUEST, so the record outlives it.
LEMMA AckKeeps ==
    ASSUME TypeOK, NetInv, NEW m \in MAC, RecvAck(m)
    PROVE  NetInv'
<1>1. PICK r \in wire :
        /\ r.mac = m /\ r.msg = "ACK"
        /\ client' = [client EXCEPT ![m] =
                IF r.ttl > client[m].age
                THEN [Off(r.ip) EXCEPT !.phase = "bound", !.left = r.ttl - client[m].age]
                ELSE Off(r.ip)]
    BY DEF RecvAck
<1>2. /\ Silent /\ Abandon(m) /\ inbox' = Forget(m, inbox) /\ UNCHANGED <<upset, calls>>
      /\ Waiting(m)
    BY DEF RecvAck, Waiting
<1>3. UNCHANGED <<leases, srv, contested>> /\ Packets' = Packets
    BY <1>2, ForgottenFrames DEF NetInv, Silent
<1>4. r.ip \in IP /\ r.ttl \in Nat /\ r.ttl <= LeaseTime
    BY <1>1 DEF NetInv, NetTypeOK, ReplyType, FramesInv, RepliesAreLast
<1>5. /\ client[m] \in ClientType /\ client[m].age \in Nat /\ LeaseTime \in Nat
      /\ leases[m].ttl \in Nat
    BY ClientShapes DEF TypeOK, LeaseType, NoLease, Lease
<1>6. ~Queued(m) /\ ~Handling(m)
    BY <1>1 DEF NetInv, FramesInv, RepliesAreLast
<1>7. m \notin upset => leases[m].ip = r.ip /\ leases[m].ttl + client[m].age >= LeaseTime
    BY <1>1, <1>2 DEF NetInv, ClientInv, GrantIsFresh, Fresh
<1>8. CASE r.ttl > client[m].age
    <2> DEFINE left == r.ttl - client[m].age
               c == [Off(r.ip) EXCEPT !.phase = "bound", !.left = left]
    <2>1. client' = [client EXCEPT ![m] = c]
        BY <1>1, <1>8
    <2>2. /\ left \in Nat /\ left > 0 /\ left <= LeaseTime
          /\ m \notin upset => leases[m].ttl >= left
        BY <1>4, <1>5, <1>7, <1>8
    <2> HIDE DEF left
    <2>3. /\ c \in ClientType /\ c.left = left /\ c.age = 0 /\ c.phase = "bound"
          /\ c.ip = r.ip
        BY <1>4, <2>2 DEF Off, ClientType
    <2> HIDE DEF c
    <2>4. client'[m] = c
        BY <2>1 DEF NetInv, NetTypeOK
    <2>5. UserOnlyRenews(m)'
        BY <1>3, <1>6 DEF UserOnlyRenews, Queued, Handling
    <2>6. RecordOutlives(m)'
        BY <1>2, <1>3, <1>7, <2>2, <2>3, <2>4 DEF RecordOutlives
    <2>7. /\ c.age <= LeaseTime /\ c.left <= LeaseTime
          /\ c.left > 0 <=> c.phase \in {"bound", "renewing"}
          /\ c.ip \in IP
        BY <1>4, <1>5, <2>2, <2>3
    <2> QED
        BY <1>2, <2>1, <2>3, <2>5, <2>6, <2>7, GivingUpKeeps
<1>9. CASE ~(r.ttl > client[m].age)
    <2> DEFINE c == Off(r.ip)
    <2>1. client' = [client EXCEPT ![m] = c]
        BY <1>1, <1>9
    <2>2. c \in ClientType /\ c.left = 0 /\ c.age = 0 /\ c.phase = "init"
        BY <1>4, ClientShapes
    <2> HIDE DEF c
    <2>3. /\ c.age <= LeaseTime /\ c.left <= LeaseTime
          /\ c.left > 0 <=> c.phase \in {"bound", "renewing"}
          /\ ~(c.left > 0)
        BY <1>5, <2>2
    <2> QED
        BY <1>2, <2>1, <2>2, <2>3, GivingUpKeeps
<1> QED
    BY <1>8, <1>9

LEMMA NakKeeps ==
    ASSUME NetInv, NEW m \in MAC, RecvNak(m)
    PROVE  NetInv'
<1> DEFINE c == Off(NoIP)
<1>1. /\ Silent /\ Abandon(m) /\ inbox' = Forget(m, inbox) /\ UNCHANGED <<upset, calls>>
      /\ client' = [client EXCEPT ![m] = c]
    BY DEF RecvNak
<1>2. /\ c \in ClientType /\ c.left = 0 /\ c.age = 0 /\ c.phase = "init"
      /\ LeaseTime \in Nat
    BY ClientShapes
<1> HIDE DEF c
<1>3. /\ c.age <= LeaseTime /\ c.left <= LeaseTime
      /\ c.left > 0 <=> c.phase \in {"bound", "renewing"}
      /\ ~(c.left > 0)
    BY <1>2
<1> QED
    BY <1>1, <1>2, <1>3, GivingUpKeeps

LEMMA OfferKeeps ==
    ASSUME NetInv, NEW m \in MAC, RecvOffer(m)
    PROVE  NetInv'
<1>1. PICK r \in wire :
        /\ r.mac = m /\ r.msg = "OFFER"
        /\ wire' = {x \in wire : x.mac # m}
        /\ inbox' = Append(inbox, [p |-> SelectOf(m, r.ip), live |-> TRUE])
        /\ client' = [client EXCEPT ![m].phase = "requesting", ![m].asked = r.ip, ![m].age = 0]
    BY DEF RecvOffer
<1>2. /\ client[m].phase = "selecting" /\ Len(inbox) < Buffer
      /\ UNCHANGED <<leases, srv, contested, live>> /\ Settles(m)
    BY DEF RecvOffer, Silent, Settles
<1>3. r.ip \in IP
    BY <1>1 DEF NetInv, NetTypeOK, ReplyType
<1> DEFINE c == [client[m] EXCEPT !.phase = "requesting", !.asked = r.ip, !.age = 0]
<1>4. client' = [client EXCEPT ![m] = c]
    BY <1>1 DEF NetInv, NetTypeOK, ClientType
<1>5. /\ c \in ClientType /\ c.left = 0 /\ c.age = 0 /\ c.phase = "requesting"
      /\ LeaseTime \in Nat
    BY <1>2, <1>3, ClientShapes DEF ClientType
<1> HIDE DEF c
<1>6. SelectOf(m, r.ip) \in NetPacket /\ SelectOf(m, r.ip).mac = m
    BY <1>3, PacketShapes
<1>7. /\ FramesInv' /\ Packets' = Packets \cup {SelectOf(m, r.ip)}
      /\ inbox' \in Seq(FrameType) /\ Len(inbox') <= Buffer
      /\ live' \in BOOLEAN
    <2>1. PICK p : p = SelectOf(m, r.ip)
        OBVIOUS
    <2>2. p \in NetPacket /\ p.mac = m /\ inbox' = Append(inbox, [p |-> p, live |-> TRUE])
        BY <1>1, <1>6, <2>1
    <2> QED
        BY <1>1, <1>2, <2>1, <2>2, SelectedFrames DEF NetInv
<1>8. ~Handling(m)
    BY <1>1 DEF NetInv, FramesInv, RepliesAreLast
<1>9. \A p \in Packets' : p \in Packets \/ p.mac = m
    BY <1>6, <1>7
<1>10. /\ c.age <= LeaseTime /\ c.left <= LeaseTime
       /\ c.left > 0 <=> c.phase \in {"bound", "renewing"}
       /\ ~(c.left > 0)
    BY <1>5
<1>11. wire' \subseteq wire /\ \A x \in wire' : x.mac # m
    BY <1>1
<1> QED
    BY <1>2, <1>4, <1>5, <1>7, <1>8, <1>9, <1>10, <1>11, ClientStepKeeps

-----------------------------------------------------------------------------
(* The theorems *)

LEMMA NetInitInv ==
    ASSUME NetInit
    PROVE  NetInv
<1>1. /\ inbox = <<>> /\ live = FALSE /\ wire = {} /\ srv = Idle
      /\ client = [m \in MAC |-> Off(NoIP)]
    BY DEF NetInit, Init
<1>2. inbox \in Seq(FrameType) /\ Len(inbox) = 0 /\ DOMAIN inbox = {}
    BY <1>1
<1>3. Len(inbox) <= Buffer
    BY <1>2, NetworkAssumption
<1>4. Off(NoIP) \in ClientType /\ Off(NoIP).left = 0 /\ Off(NoIP).age = 0
      /\ Off(NoIP).phase = "init" /\ LeaseTime \in Nat
    BY Constants DEF Off, ClientType
<1>5. NetTypeOK
    <2>1. upset \subseteq MAC /\ calls \in 0..MaxCalls
        BY NetworkAssumption DEF NetInit
    <2>2. client \in [MAC -> ClientType]
        BY <1>1, <1>4
    <2>3. inbox \in Seq([p : NetPacket, live : BOOLEAN])
        BY <1>2 DEF FrameType
    <2> QED
        BY <1>1, <1>3, <2>1, <2>2, <2>3 DEF NetTypeOK
<1>6. FramesInv
    BY <1>1, <1>2 DEF FramesInv, LiveFrameIsLast, LiveHandlerIsLast, RepliesAreLast
<1>7. ASSUME NEW m \in MAC
      PROVE  ClientInv(m)
    <2>1. client[m] = Off(NoIP)
        BY <1>1
    <2> QED
        BY <1>4, <2>1 DEF ClientInv, ClientIsSane, GrantIsFresh, UserOnlyRenews,
                          RecordOutlives, Using, Waiting
<1> QED
    BY <1>5, <1>6, <1>7 DEF NetInv

LEMMA NetStepInv ==
    ASSUME IInv, TypeOK', NetInv, [NetNext]_allVars
    PROVE  NetInv'
<1>0. TypeOK /\ NoDuplicateLease
    BY DEF IInv, TableInv
<1>1. ASSUME NEW m \in MAC, ClientStep(m)
      PROVE  NetInv'
    BY <1>0, <1>1, SendKeeps, StopKeeps, AckKeeps, NakKeeps, OfferKeeps DEF ClientStep
<1>2. CASE Receive
    <2>1. FramesInv' /\ NetTypeOK'
        BY <1>0, <1>2, ReceiveFrames DEF NetInv, NetTypeOK, FrameType
    <2>2. \A m \in MAC : ClientInv(m)'
        BY <1>0, <1>2, ReceiveKeepsClient DEF NetInv
    <2> QED
        BY <2>1, <2>2 DEF NetInv
<1>3. CASE Proceed
    <2>1. NetTypeOK' /\ FramesInv'
        BY <1>0, <1>3, ProceedFrames DEF NetInv
    <2>2. \A m \in MAC : ClientInv(m)'
        BY <1>0, <1>3, ProceedKeepsClient DEF NetInv
    <2> QED
        BY <2>1, <2>2 DEF NetInv
<1>4. CASE Block \/ Poison
    BY <1>4, StutterKeeps DEF Block, SetBlockedMACs, Poison, PoisonBlockedArpEntries
<1>5. CASE Lose
    BY <1>5, LoseKeeps
<1>6. CASE Elapse
    BY <1>0, <1>6, ElapseKeeps
<1>7. CASE UNCHANGED allVars
    BY <1>7, StutterKeeps DEF allVars, vars
<1>8. ASSUME NEW m \in Touchable, Touch(m)
      PROVE  NetInv'
    BY <1>0, <1>8, TouchKeeps, NetworkAssumption
<1>9. CASE RestartServer
    BY <1>9, RestartKeeps
<1> QED
    BY <1>1, <1>2, <1>3, <1>4, <1>5, <1>6, <1>7, <1>8, <1>9 DEF NetNext

\* Every behaviour of the segment is one of the server alone with arbitrary
\* packets: whatever is proved of the server holds on the segment too.
THEOREM SegmentImplementsServer == NetSpec => Spec
<1>1. NetInit => Init
    BY DEF NetInit
<1>2. Init => TypeOK
    BY Constants DEF Init, TypeOK, LeaseType, ServerType, Idle, NoLease
<1>3. TypeOK /\ [NetNext]_allVars => TypeOK' /\ [Next]_vars
    BY NetStepIsServerStep, NextType
<1> QED
    BY <1>1, <1>2, <1>3, PTL DEF NetSpec, Spec

\* The server's own guarantees, of core/DhcpServer.cpp, on the segment.
THEOREM ServerGuaranteesHold ==
    NetSpec => /\ []NoDuplicateLease /\ ReplyNamesRecordedAddress /\ BlockedGetsPoison
               /\ LiveLeaseIsKept /\ ImplementsLeaseBook
BY SegmentImplementsServer, OneOwnerPerAddress, RepliesAreRecorded, BlockedIsPoisoned,
   LiveLeasesStay, Refinement

LEMMA NetInvariance == NetSpec => [](IInv /\ NetInv)
<1>1. NetInit => NetInv
    BY NetInitInv
<1>2. IInv /\ IInv' /\ NetInv /\ [NetNext]_allVars => NetInv'
    BY NetStepInv DEF IInv, TableInv
<1>3. NetSpec => []IInv
    BY SegmentImplementsServer, Invariance, PTL
<1> QED
    BY <1>1, <1>2, <1>3, PTL DEF NetSpec

\* The frames, replies and clients of the segment are always well formed.
THEOREM NetTypeCorrect == NetSpec => []NetTypeOK
BY NetInvariance, PTL DEF NetInv

\* The server keeps the record of an address in use at least as long as the
\* device counts on it, across lost, delayed and abandoned exchanges, and
\* whatever is done to the records of other devices: a pending offer
\* (sendOffer) can shorten only the record of a device that uses no address,
\* since a device that uses one sends nothing but renewals.
THEOREM RecordsOutliveUse == NetSpec => []RecordOutlivesUse
<1>1. NetInv => RecordOutlivesUse
    BY DEF NetInv, ClientInv, RecordOutlives, RecordOutlivesUse
<1> QED
    BY <1>1, NetInvariance, PTL

\* Two devices never use one address at a time unless it is contested or one
\* of them lost its record to a call or a restart: what the lease table of
\* m_leases is for, seen from the devices.
THEOREM AddressesDoNotConflict == NetSpec => []NoAddressConflict
<1>1. ASSUME IInv, NetInv
      PROVE  NoAddressConflict
    <2> SUFFICES ASSUME NEW x \in MAC, NEW y \in MAC, x # y, Using(x), Using(y),
                        x \notin upset, y \notin upset,
                        client[x].ip = client[y].ip, client[x].ip \notin contested
                 PROVE  FALSE
        BY DEF NoAddressConflict
    <2>1. ASSUME NEW m \in {x, y}
          PROVE  leases[m].ip = client[x].ip /\ leases[m].ttl > 0
        <3>1. leases[m].ip = client[m].ip /\ leases[m].ttl >= client[m].left
            BY <1>1, <2>1 DEF NetInv, ClientInv, RecordOutlives
        <3>2. leases[m].ttl \in Nat /\ client[m].left \in Nat /\ client[m].left > 0
            BY <1>1, <2>1 DEF IInv, TableInv, TypeOK, LeaseType, NoLease, Lease, NetInv, NetTypeOK,
                        ClientType, Using
        <3> QED
            BY <2>1, <3>1, <3>2
    <2> QED
        BY <1>1, <2>1 DEF IInv, TableInv, NoDuplicateLease, Live
<1> QED
    BY <1>1, NetInvariance, PTL

=============================================================================
