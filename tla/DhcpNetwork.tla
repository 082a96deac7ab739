----------------------------- MODULE DhcpNetwork ----------------------------
(***************************************************************************)
(* The DHCP server composed with RFC 2131 clients over a segment that      *)
(* loses frames.  The server is the one of DhcpServer, action for action,  *)
(* with the calls of the other threads and its restarts; its frames reach  *)
(* it in order through the buffer of m_rxSocket.  The clients are not part *)
(* of the repository: they are what the handlers of core/DhcpServer.cpp    *)
(* expect on the other side.  A client drops replies to an exchange it has *)
(* given up (another xid): such packets are kept in the buffer, the server *)
(* does handle them, with "live" FALSE.                                    *)
(***************************************************************************)
EXTENDS DhcpServer, Sequences

CONSTANTS
    Buffer,     \* bound: frames waiting in the receive buffer
    Lossy,      \* frames may be lost
    Suspect,    \* the clients the operator may block
    Touchable,  \* the clients whose record the operator may pin, expire, kick
    MaxCalls,   \* bound: how often that and a restart of the server happen
    Patient     \* TRUE: a clock tick is longer than any exchange in flight

ASSUME NetworkAssumption ==
    /\ Buffer \in Nat \ {0} /\ Lossy \in BOOLEAN /\ Patient \in BOOLEAN
    /\ Suspect \subseteq MAC /\ Touchable \subseteq MAC /\ MaxCalls \in Nat
    /\ PoisonTime <= LeaseTime

VARIABLES
    inbox,      \* frames in the receive buffer: [p, live]
    live,       \* the packet being handled belongs to the client's exchange
    wire,       \* replies on their way, all to exchanges still going on
    client,     \* client -> [phase, ip, asked, left, age]
    upset,      \* history: whose record a call or a restart changed since
                \* the client last started from nothing
    calls       \* how many of them there were

segment == <<inbox, live, wire, client>>
netVars == <<segment, upset, calls>>
allVars == <<vars, netVars>>

\* ip: the last address acknowledged; asked: the one offered; left: how long
\* it may still be used; age: how long ago the last REQUEST was sent.
ClientType == [phase : {"init", "selecting", "requesting", "bound", "renewing"},
               ip : IP \cup {NoIP}, asked : IP \cup {NoIP}, left : Nat, age : Nat]

Off(ip) == [phase |-> "init", ip |-> ip, asked |-> NoIP, left |-> 0, age |-> 0]

NetInit ==
    /\ Init
    /\ inbox = <<>> /\ live = FALSE /\ wire = {} /\ upset = {} /\ calls = 0
    /\ client = [m \in MAC |-> Off(NoIP)]

Using(m) == client[m].left > 0

\* A reply to m's exchange that m is waiting for; it ignores the others.
Awaits(m, r) ==
    /\ r.mac = m
    /\ IF client[m].phase = "selecting" THEN r.msg = "OFFER" ELSE r.msg \in {"ACK", "NAK"}

InFlight(m) ==
    \/ \E i \in DOMAIN inbox : inbox[i].live /\ inbox[i].p.mac = m
    \/ srv # Idle /\ srv.mac = m /\ live
    \/ \E r \in wire : Awaits(m, r)

\* A step the server takes no part in.
Silent == out' = {} /\ UNCHANGED <<leases, offset, blocked, srv, contested, late>>

Quiet == srv = Idle /\ inbox = <<>> /\ \A m \in MAC : ~InFlight(m)

-----------------------------------------------------------------------------
(* Clients *)

Shape(t, m, r, s, i, d) ==
    [type |-> t, mac |-> m, req |-> r, sid |-> s, ci |-> i, dst |-> d]
DiscoverOf(m, wish) == Shape("DISCOVER", m, wish, NoIP, NoIP, "broadcast")
SelectOf(m, ip) == Shape("REQUEST", m, ip, ServerIP, NoIP, "broadcast")
RebootOf(m, ip) == Shape("REQUEST", m, ip, NoIP, NoIP, "broadcast")
RenewOf(m, ip) == Shape("REQUEST", m, NoIP, NoIP, ip, "us")
ReleaseOf(m, ip) == Shape("RELEASE", m, NoIP, ServerIP, ip, "us")
DeclineOf(m, ip) == Shape("DECLINE", m, ip, ServerIP, NoIP, "broadcast")

\* What a client may send.
NetPacket == UNION {
    {DiscoverOf(m, w) : w \in IP \cup {NoIP}}
    \cup UNION {{SelectOf(m, i), RebootOf(m, i), RenewOf(m, i), ReleaseOf(m, i),
                 DeclineOf(m, i)} : i \in IP} : m \in MAC}

\* m gives up its exchange, if any.
Forget(m, frames) ==
    [i \in DOMAIN frames |->
        IF frames[i].p.mac = m THEN [frames[i] EXCEPT !.live = FALSE] ELSE frames[i]]
Abandon(m) ==
    /\ live' = (live /\ (srv = Idle \/ srv.mac # m))
    /\ wire' = {r \in wire : r.mac # m}

\* m starts an exchange (a new xid) with packet p.
Start(m, p) ==
    /\ Len(inbox) < Buffer
    /\ Abandon(m)
    /\ inbox' = Append(Forget(m, inbox), [p |-> p, live |-> TRUE])

SendDiscover(m) ==
    /\ client[m].phase = "init"
    /\ \E wish \in {NoIP, client[m].ip} : Start(m, DiscoverOf(m, wish))
    /\ client' = [client EXCEPT ![m].phase = "selecting"]
    /\ Silent /\ upset' = upset \ {m} /\ UNCHANGED calls

\* INIT-REBOOT: ask for the last address again.
SendReboot(m) ==
    /\ client[m].phase = "init" /\ client[m].ip # NoIP
    /\ Start(m, RebootOf(m, client[m].ip))
    /\ client' = [client EXCEPT ![m].phase = "requesting", ![m].age = 0]
    /\ Silent /\ upset' = upset \ {m} /\ UNCHANGED calls

SendRenew(m) ==
    /\ client[m].phase = "bound"
    /\ Start(m, RenewOf(m, client[m].ip))
    /\ client' = [client EXCEPT ![m].phase = "renewing", ![m].age = 0]
    /\ Silent /\ UNCHANGED <<upset, calls>>

\* The last word of an exchange: nothing is expected back.
SendLast(m) ==
    /\ client[m].phase = "bound"
    /\ \E p \in {ReleaseOf(m, client[m].ip), DeclineOf(m, client[m].ip)} : Start(m, p)
    /\ client' = [client EXCEPT ![m] = Off(NoIP)]
    /\ Silent /\ UNCHANGED <<upset, calls>>

PowerOff(m) ==
    /\ client[m].phase \in {"bound", "renewing"}
    /\ Abandon(m) /\ inbox' = Forget(m, inbox)
    /\ client' = [client EXCEPT ![m] = Off(client[m].ip)]
    /\ Silent /\ UNCHANGED <<upset, calls>>

\* No answer: start over, or go on using the address until it expires.
Timeout(m) ==
    /\ client[m].phase \in {"selecting", "requesting", "renewing"}
    /\ Patient => ~InFlight(m)
    /\ Abandon(m) /\ inbox' = Forget(m, inbox)
    /\ client' = [client EXCEPT ![m].phase = IF Using(m) THEN "bound" ELSE "init",
                                ![m].asked = NoIP, ![m].age = 0]
    /\ Silent /\ UNCHANGED <<upset, calls>>

RecvOffer(m) ==
    /\ client[m].phase = "selecting" /\ Len(inbox) < Buffer
    /\ \E r \in wire :
        /\ r.mac = m /\ r.msg = "OFFER"
        /\ wire' = {x \in wire : x.mac # m}
        /\ inbox' = Append(inbox, [p |-> SelectOf(m, r.ip), live |-> TRUE])
        /\ client' = [client EXCEPT ![m].phase = "requesting", ![m].asked = r.ip,
                                    ![m].age = 0]
    /\ Silent /\ UNCHANGED <<live, upset, calls>>

\* The lease is counted from the moment the REQUEST was sent.
RecvAck(m) ==
    /\ client[m].phase \in {"requesting", "renewing"}
    /\ \E r \in wire :
        /\ r.mac = m /\ r.msg = "ACK"
        /\ client' = [client EXCEPT ![m] =
                IF r.ttl > client[m].age
                THEN [Off(r.ip) EXCEPT !.phase = "bound", !.left = r.ttl - client[m].age]
                ELSE Off(r.ip)]
    /\ Abandon(m) /\ inbox' = Forget(m, inbox)
    /\ Silent /\ UNCHANGED <<upset, calls>>

RecvNak(m) ==
    /\ client[m].phase \in {"requesting", "renewing"}
    /\ \E r \in wire : r.mac = m /\ r.msg = "NAK"
    /\ Abandon(m) /\ inbox' = Forget(m, inbox)
    /\ client' = [client EXCEPT ![m] = Off(NoIP)]
    /\ Silent /\ UNCHANGED <<upset, calls>>

ClientStep(m) ==
    \/ SendDiscover(m) \/ SendReboot(m) \/ SendRenew(m) \/ SendLast(m)
    \/ PowerOff(m) \/ Timeout(m)
    \/ RecvOffer(m) \/ RecvAck(m) \/ RecvNak(m)

-----------------------------------------------------------------------------
(* The server on the segment *)

Sent(isLive) == {r \in out' : r.msg \in {"OFFER", "ACK", "NAK"} /\ isLive}

\* recvfrom: the next frame is handled, or it is dropped without effect.
Receive ==
    /\ inbox # <<>> /\ srv = Idle
    /\ LET f == Head(inbox)
           moot == Dropped(f.p) \/ (f.p.type = "RELEASE" /\ ~Known(f.p.mac))
       IN  /\ IF moot THEN Silent ELSE Handle(f.p)
           /\ live' = (f.live /\ srv' # Idle)
           /\ wire' = wire \cup (IF moot THEN {} ELSE Sent(f.live))
    /\ inbox' = Tail(inbox)
    /\ UNCHANGED <<client, upset, calls>>

Proceed ==
    /\ ServerStep
    /\ wire' = wire \cup Sent(live)
    /\ live' = (live /\ srv' # Idle)
    /\ UNCHANGED <<inbox, client, upset, calls>>

Block ==
    /\ \E S \in SUBSET Suspect : SetBlockedMACs(S)
    /\ UNCHANGED netVars

\* The other calls on the server, at any moment of a handler.  The NAK of
\* kickClient bears no client's xid: a client ignores it, or takes it and
\* starts over as in PowerOff and Timeout.
Touch(m) ==
    /\ calls < MaxCalls /\ calls' = calls + 1
    /\ (\E ip \in Pinnable : AddStaticLease(m, ip)) \/ ExpireLease(m) \/ KickClient(m)
    /\ upset' = upset \cup {m}
    /\ UNCHANGED segment

Poison == PoisonBlockedArpEntries /\ UNCHANGED netVars

\* The new server's socket has received nothing; the clients know of nothing.
RestartServer ==
    /\ calls < MaxCalls /\ calls' = calls + 1
    /\ Restart
    /\ inbox' = <<>> /\ live' = FALSE
    /\ upset' = MAC
    /\ UNCHANGED <<wire, client>>

\* A frame is lost on its way to the server or to the client.
Lose ==
    /\ Lossy
    /\ \/ inbox # <<>> /\ inbox' = Tail(inbox) /\ UNCHANGED wire
       \/ \E r \in wire : wire' = wire \ {r} /\ UNCHANGED inbox
    /\ Silent /\ UNCHANGED <<live, client, upset, calls>>

\* An address whose time is up is no longer used, and its renewal is void.
Elapse ==
    /\ Patient => Quiet
    /\ Tick
    /\ LET over(m) == client[m].left = 1
           waiting(m) == client[m].phase \in {"requesting", "renewing"}
           aged(m) == [client[m] EXCEPT
                        !.left = Less(@),
                        !.age = IF waiting(m) /\ @ < LeaseTime THEN @ + 1 ELSE @]
           done == {m \in MAC : over(m)}
       IN  /\ client' = [m \in MAC |-> IF over(m) THEN Off(client[m].ip) ELSE aged(m)]
           /\ inbox' = [i \in DOMAIN inbox |->
                 IF inbox[i].p.mac \in done THEN [inbox[i] EXCEPT !.live = FALSE] ELSE inbox[i]]
           /\ wire' = {r \in wire : r.mac \notin done}
           /\ live' = (live /\ (srv = Idle \/ srv.mac \notin done))
    /\ UNCHANGED <<upset, calls>>

NetNext ==
    \/ \E m \in MAC : ClientStep(m)
    \/ Receive \/ Proceed
    \/ Block \/ Poison \/ (\E m \in Touchable : Touch(m)) \/ RestartServer
    \/ Lose \/ Elapse

NetSpec == NetInit /\ [][NetNext]_allVars

\* The server thread keeps handling what arrives.  A client that has no
\* address keeps trying, takes what it receives and gives up when nothing
\* comes; strong fairness where it needs room in the buffer, which the other
\* clients may fill again and again.
NetFairness ==
    /\ WF_allVars(Receive) /\ WF_allVars(Proceed)
    /\ \A m \in MAC :
        /\ SF_allVars(SendDiscover(m) \/ SendReboot(m))
        /\ SF_allVars(RecvOffer(m))
        /\ WF_allVars(RecvAck(m) \/ RecvNak(m))
        /\ WF_allVars(Timeout(m))

LiveSpec == NetSpec /\ NetFairness /\ <>[][~Lose]_allVars

-----------------------------------------------------------------------------
(* Properties *)

\* Type correctness of the segment and of the clients.
NetTypeOK ==
    /\ inbox \in Seq([p : NetPacket, live : BOOLEAN]) /\ Len(inbox) <= Buffer
    /\ live \in BOOLEAN
    /\ wire \subseteq ReplyType
    /\ client \in [MAC -> ClientType]
    /\ upset \subseteq MAC /\ calls \in 0..MaxCalls

\* Two devices never use one address at the same time, whatever is lost,
\* delayed, abandoned, blocked or done to the records of others, unless the
\* pool had run out when it was given, it was pinned, or one of the two lost
\* its record under its hands: a call or a restart changed it after the
\* client had started, and the code tells no client.
NoAddressConflict ==
    \A a, b \in MAC \ upset :
        a # b /\ Using(a) /\ Using(b) /\ client[a].ip = client[b].ip
            => client[a].ip \in contested

\* The server never by itself forgets a lease its client still counts on:
\* the record names the same address and lasts at least as long, although an
\* offer overwrites the record with a pending one of 60 s (sendOffer), the
\* reply, computed later, carries the full time, and the records of other
\* clients are pinned, expired and kicked meanwhile.
RecordOutlivesUse ==
    \A m \in MAC \ upset :
        Using(m) /\ client[m].ip \notin contested =>
            leases[m].ip = client[m].ip /\ leases[m].ttl >= client[m].left

\* DHCP_SERVER_IMPLEMENTATION.md, Verification: OFFER and ACK show the same
\* address.
AckMatchesOffer ==
    [][\A m \in MAC :
        client[m].phase = "requesting" /\ client'[m].phase = "bound" /\ client[m].asked # NoIP
            => client'[m].ip = client[m].asked]_allVars

\* Every client that wants an address gets one, blocked or not (a blocked
\* one is trapped in a poisoned lease, never starved), once frames are no
\* longer lost, whatever calls and restarts there were before.
EventuallyBound == \A m \in MAC : client[m].phase = "init" ~> client[m].phase = "bound"
=============================================================================
