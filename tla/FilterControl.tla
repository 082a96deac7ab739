--------------------------- MODULE FilterControl ---------------------------
(***************************************************************************)
(* Who switches the two filters, and with which lists: the resolver of     *)
(* module DnsProxy with its list of domains (DnsBlocklistManager), and the *)
(* firewall's set of malicious addresses (ThreatIntelManager,              *)
(* FirewallManager).  The network thread runs NetworkManager and both list *)
(* managers; the GUI thread starts and stops the DHCP server and gateway   *)
(* mode; the proxy's thread serves a queue of calls.  nft commands of the  *)
(* two threads interleave.                                                 *)
(*                                                                         *)
(* What a list contains is left out: that of the threats is there or not,  *)
(* that of the domains takes its turn in the queue of the proxy's thread   *)
(* (what the resolver does with it is in DnsProxy).  This machine's        *)
(* address is known, as it is once activate() has run.                     *)
(***************************************************************************)
EXTENDS Naturals, Sequences

CONSTANTS
    MaxQueue,    \* bound on either queue of calls
    MaxFetch     \* bound on the downloads of a list under way

ASSUME FilterAssumption == MaxQueue \in Nat \ {0} /\ MaxFetch \in Nat \ {0}

VARIABLES
    dhcp,        \* DHCPManager::m_isRunning
    server,      \* m_dhcpThread: "none", "runs", or "ended" on its own
    events,      \* dhcpStatusChanged signals on their way to the network thread
    dnsOn,       \* m_dnsVisibilityEnabled, and the domain list's m_enabled
    dnsFetch,    \* downloads of the domain list under way
    calls,       \* calls on their way to the proxy's thread
    proxy,       \* the resolver: "off", "on", or "failed" to bind
    threatOn,    \* m_enabled of the threat list, m_threatBlocklistEnabled
    threatFetch, \* downloads of the threat list under way
    counted,     \* m_threatBlocklistSize is not 0
    gateway,     \* FirewallManager::m_active
    tables,      \* the kernel has the program's tables
    malicious,   \* the kernel's set malicious_ips is not empty
    pc           \* what each thread does next within the call it is in

dhcpServer == <<dhcp, server, events>>
dns == <<dhcpServer, dnsOn, dnsFetch, calls, proxy>>
threat == <<threatOn, threatFetch, counted>>
kernel == <<tables, malicious>>
vars == <<dns, threat, gateway, kernel, pc>>

Thread == {"network", "gui"}
Call == {"start", "stop", "list"}
Step == {"ready", "delete", "create", "remove", "flush", "load", "clear",
         "begin", "started", "stopped", "restart"}
Ready(t) == pc[t] = "ready"

TypeOK ==
    /\ dhcp \in BOOLEAN /\ server \in {"none", "runs", "ended"} /\ dnsOn \in BOOLEAN
    /\ threatOn \in BOOLEAN /\ counted \in BOOLEAN /\ gateway \in BOOLEAN
    /\ events \in Seq(BOOLEAN) /\ Len(events) <= MaxQueue
    /\ calls \in Seq(Call) /\ Len(calls) <= MaxQueue
    /\ proxy \in {"off", "on", "failed"}
    /\ dnsFetch \in 0..MaxFetch /\ threatFetch \in 0..MaxFetch
    /\ tables \in BOOLEAN /\ malicious \in BOOLEAN /\ (malicious => tables)
    /\ pc \in [Thread -> Step]

\* activate() has created the tables.
Init ==
    /\ dhcp = FALSE /\ server = "none" /\ events = << >>
    /\ dnsOn = FALSE /\ dnsFetch = 0
    /\ calls = << >> /\ proxy = "off"
    /\ threatOn = FALSE /\ threatFetch = 0 /\ counted = FALSE
    /\ gateway = FALSE
    /\ tables = TRUE /\ malicious = FALSE
    /\ pc = [t \in Thread |-> "ready"]

Goes(t, step) == pc' = [pc EXCEPT ![t] = step]

-----------------------------------------------------------------------------
(* The DHCP server, switched from its page in the GUI thread.              *)

\* startServer: a thread that is there, though it may have ended, is stopped
\* first; the flag and the signal follow when the nft commands are done.
StartServer ==
    /\ Ready("gui")
    /\ IF server = "none" THEN server' = "runs" /\ Goes("gui", "started")
                          ELSE server' = "none" /\ Goes("gui", "restart")
    /\ UNCHANGED <<dhcp, events, dnsOn, dnsFetch, calls, proxy, threat, gateway, kernel>>

StopServer ==
    /\ Ready("gui")
    /\ server' = "none"
    /\ Goes("gui", "stopped")
    /\ UNCHANGED <<dhcp, events, dnsOn, dnsFetch, calls, proxy, threat, gateway, kernel>>

\* dhcpStatusChanged, sent to the network thread.
Status(on) ==
    /\ Len(events) < MaxQueue
    /\ dhcp' = on
    /\ events' = Append(events, on)
    /\ UNCHANGED <<dnsOn, dnsFetch, calls, proxy, threat, gateway, kernel>>

\* Within startServer the stop is followed by the start.
Stopped ==
    /\ pc["gui"] \in {"stopped", "restart"}
    /\ Status(FALSE)
    /\ Goes("gui", IF pc["gui"] = "restart" THEN "begin" ELSE "ready")
    /\ UNCHANGED server

Begin ==
    /\ pc["gui"] = "begin"
    /\ server' = "runs"
    /\ Goes("gui", "started")
    /\ UNCHANGED <<dhcp, events, dnsOn, dnsFetch, calls, proxy, threat, gateway, kernel>>

Started ==
    /\ pc["gui"] = "started"
    /\ Status(TRUE)
    /\ Goes("gui", "ready")
    /\ UNCHANGED server

\* DhcpServer::run returns: no interface, no socket, or one that fails later.
\* Nobody is told.
ServerEnds ==
    /\ server = "runs"
    /\ server' = "ended"
    /\ UNCHANGED <<dhcp, events, dnsOn, dnsFetch, calls, proxy, threat, gateway, kernel, pc>>

IsServerRunning == dhcp /\ server = "runs"

-----------------------------------------------------------------------------
(* The resolver.                                                           *)

Posted(call) == Len(calls) < MaxQueue /\ calls' = Append(calls, call)

\* The handler of dhcpStatusUpdate: the proxy runs in lockstep with the server.
DhcpStatus ==
    /\ Ready("network")
    /\ events # << >>
    /\ events' = Tail(events)
    /\ IF Head(events) THEN IF dnsOn THEN Posted("start") ELSE UNCHANGED calls
                       ELSE Posted("stop")
    /\ UNCHANGED <<dhcp, server, dnsOn, dnsFetch, proxy, threat, gateway, kernel, pc>>

\* Mutant of SetDnsVisibility: the proxy is started with the switch.
SetDnsVisibilityAlone(on) ==
    /\ Ready("network")
    /\ dnsOn # on
    /\ dnsOn' = on
    /\ Posted(IF on THEN "start" ELSE "stop")
    /\ UNCHANGED <<dhcpServer, dnsFetch, proxy, threat, gateway, kernel, pc>>

\* setDnsVisibilityEnabled; enabling the list fetches it.
SetDnsVisibility(on) ==
    /\ Ready("network")
    /\ dnsOn # on
    /\ dnsOn' = on
    /\ IF on THEN dnsFetch < MaxFetch /\ dnsFetch' = dnsFetch + 1 ELSE UNCHANGED dnsFetch
    /\ IF ~on THEN Posted("stop")
       ELSE IF IsServerRunning THEN Posted("start") ELSE UNCHANGED calls
    /\ UNCHANGED <<dhcpServer, proxy, threat, gateway, kernel, pc>>

\* The timer of the domain list, every 12 h while it is enabled.
RefreshDomains ==
    /\ Ready("network")
    /\ dnsOn /\ dnsFetch < MaxFetch
    /\ dnsFetch' = dnsFetch + 1
    /\ UNCHANGED <<dhcpServer, dnsOn, calls, proxy, threat, gateway, kernel, pc>>

\* onReplyFinished of the domain list: an error or a page without any domain is
\* reported, a list is passed on, also when the switch is off by now.
DomainsFetched ==
    /\ Ready("network")
    /\ dnsFetch > 0
    /\ dnsFetch' = dnsFetch - 1
    /\ UNCHANGED calls \/ Posted("list")
    /\ UNCHANGED <<dhcpServer, dnsOn, proxy, threat, gateway, kernel, pc>>

\* The proxy's thread; start may find port 53 taken.
ServeProxy ==
    /\ calls # << >>
    /\ calls' = Tail(calls)
    /\ proxy' \in CASE Head(calls) = "start" -> {"on", "failed"}
                    [] Head(calls) = "stop"  -> {"off"}
                    [] OTHER                 -> {proxy}
    /\ UNCHANGED <<dhcpServer, dnsOn, dnsFetch, threat, gateway, kernel, pc>>

-----------------------------------------------------------------------------
(* The set of malicious addresses.                                         *)

\* NetworkManager::setThreatBlocklistEnabled; off empties the set.
SetThreatBlocklist(on) ==
    /\ Ready("network")
    /\ threatOn # on
    /\ threatOn' = on
    /\ IF on THEN /\ threatFetch < MaxFetch /\ threatFetch' = threatFetch + 1
                  /\ UNCHANGED pc
             ELSE Goes("network", "clear") /\ UNCHANGED threatFetch
    /\ UNCHANGED <<dns, counted, gateway, kernel>>

Clear ==
    /\ pc["network"] = "clear"
    /\ malicious' = FALSE
    /\ counted' = FALSE
    /\ Goes("network", "ready")
    /\ UNCHANGED <<dns, threatOn, threatFetch, gateway, tables>>

\* Mutant of RefreshThreats: a list that was loaded is not fetched again.
RefreshThreatsOnce ==
    /\ Ready("network")
    /\ threatOn /\ ~counted /\ threatFetch < MaxFetch
    /\ threatFetch' = threatFetch + 1
    /\ UNCHANGED <<dns, threatOn, counted, gateway, kernel, pc>>

\* The timer of the threat list, every 4 h while it is enabled, or the button.
RefreshThreats ==
    /\ Ready("network")
    /\ threatOn /\ threatFetch < MaxFetch
    /\ threatFetch' = threatFetch + 1
    /\ UNCHANGED <<dns, threatOn, counted, gateway, kernel, pc>>

\* Mutant of ThreatsFetched: the firewall does not ask whether it is enabled.
ThreatsFetchedAnyway ==
    /\ Ready("network")
    /\ threatFetch > 0
    /\ threatFetch' = threatFetch - 1
    /\ Goes("network", "flush")
    /\ UNCHANGED <<dns, threatOn, counted, gateway, kernel>>

\* onReplyFinished of the threat list: after an error nothing changes, and
\* updateThreatBlocklist does nothing when the list is off by now.
ThreatsFetched ==
    /\ Ready("network")
    /\ threatFetch > 0
    /\ threatFetch' = threatFetch - 1
    /\ UNCHANGED pc \/ (threatOn /\ Goes("network", "flush"))
    /\ UNCHANGED <<dns, threatOn, counted, gateway, kernel>>

Flush ==
    /\ pc["network"] = "flush"
    /\ malicious' = FALSE
    /\ Goes("network", "load")
    /\ UNCHANGED <<dns, threat, gateway, tables>>

\* One script adds all the addresses; it fails when the tables are gone.
Load ==
    /\ pc["network"] = "load"
    /\ malicious' = tables
    /\ counted' = (counted \/ tables)
    /\ Goes("network", "ready")
    /\ UNCHANGED <<dns, threatOn, threatFetch, gateway, tables>>

-----------------------------------------------------------------------------
(* Gateway mode: FirewallManager::start and stop, from the GUI thread.     *)

SetGatewayMode(on) ==
    /\ Ready("gui")
    /\ gateway # on
    /\ gateway' = on
    /\ Goes("gui", IF on THEN "delete" ELSE "remove")
    /\ UNCHANGED <<dns, threat, kernel>>

\* initFirewall deletes the tables, whatever they hold,
DeleteTables ==
    /\ pc["gui"] \in {"delete", "remove"}
    /\ tables' = FALSE /\ malicious' = FALSE
    /\ Goes("gui", IF pc["gui"] = "delete" THEN "create" ELSE "ready")
    /\ UNCHANGED <<dns, threat, gateway>>

\* and creates them with an empty set of malicious addresses.
CreateTables ==
    /\ pc["gui"] = "create"
    /\ tables' = TRUE
    /\ Goes("gui", "ready")
    /\ UNCHANGED <<dns, threat, gateway, malicious>>

Network ==
    \/ DhcpStatus \/ DomainsFetched \/ RefreshDomains
    \/ ThreatsFetched \/ RefreshThreats \/ Clear \/ Flush \/ Load
    \/ \E on \in BOOLEAN : SetDnsVisibility(on) \/ SetThreatBlocklist(on)

Gui ==
    \/ StartServer \/ StopServer \/ Stopped \/ Begin \/ Started
    \/ DeleteTables \/ CreateTables
    \/ \E on \in BOOLEAN : SetGatewayMode(on)

Next == Network \/ Gui \/ ServeProxy \/ ServerEnds

Spec == Init /\ [][Next]_vars

\* Queued calls are served, commands end, the timer fires, a download ends,
\* and not every one in vain.
Fairness ==
    /\ WF_vars(ServeProxy) /\ WF_vars(DhcpStatus)
    /\ WF_vars(Clear) /\ WF_vars(Flush) /\ WF_vars(Load)
    /\ WF_vars(DeleteTables) /\ WF_vars(CreateTables)
    /\ SF_vars(RefreshThreats) /\ SF_vars(ThreatsFetched /\ pc' # pc)
FairSpec == Spec /\ Fairness

-----------------------------------------------------------------------------
(* Properties.                                                             *)

\* When no call is on its way, the resolver is on, or was tried, only if DNS
\* visibility is on and the DHCP server was started, and then always if the
\* server's thread is still there, in whichever order and from whichever
\* thread the two were switched.  When the thread has ended on its own nobody
\* is told: a resolver that was on stays on, one that was off stays off.  The
\* comment on DhcpStatus, "in lockstep with the DHCP server", fails there.
ProxyFollowsSwitches ==
    events = << >> /\ calls = << >> =>
        /\ proxy # "off" => dhcp /\ dnsOn
        /\ IsServerRunning /\ dnsOn => proxy # "off"

\* With the threat list off, no address is dropped, however late a download
\* ends and whatever gateway mode does meanwhile.
ThreatOffDropsNothing == ~threatOn /\ Ready("network") => ~malicious

\* Starting gateway mode empties the set; while the list and the mode stay on,
\* the timer brings it back.
ThreatListComesBack == <>[](threatOn /\ gateway) => []<>malicious
=============================================================================
