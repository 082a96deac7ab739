------------------------- MODULE FilterControlProofs -------------------------
(***************************************************************************)
(* Theorems about who switches the filters: for every length of the queues *)
(* and every number of downloads under way.                                *)
(***************************************************************************)
EXTENDS FilterControl, TLAPS

-----------------------------------------------------------------------------
(* The resolver.                                                           *)

\* What the proxy's thread will have done when it has served its queue.
WillRun ==
    \/ \E n \in DOMAIN calls :
          /\ calls[n] = "start"
          /\ \A m \in DOMAIN calls : m > n => calls[m] = "list"
    \/ proxy # "off" /\ \A n \in DOMAIN calls : calls[n] = "list"

\* The flag is raised last and lowered last: it is up only with a thread that
\* may have ended, or between the stop of the thread and the signal.
ServerInv ==
    /\ pc = [t \in Thread |-> pc[t]]
    /\ dhcp => server # "none" \/ pc["gui"] \in {"stopped", "restart"}
    /\ pc["gui"] \in {"begin", "started"} => ~dhcp
    /\ pc["gui"] = "started" => server # "none"

\* The last signal tells of the flag.  While signals are on their way, the
\* resolver may be behind the server, but never ahead of the switch.
ProxyInv ==
    /\ dhcp \in BOOLEAN /\ dnsOn \in BOOLEAN
    /\ events \in Seq(BOOLEAN) /\ calls \in Seq(Call)
    /\ events # << >> => events[Len(events)] = dhcp
    /\ WillRun => dnsOn
    /\ events = << >> =>
          /\ WillRun => dhcp
          /\ IsServerRunning /\ dnsOn => WillRun

LEMMA ProxyStart == Init => ProxyInv /\ ServerInv
<1> SUFFICES ASSUME Init PROVE ProxyInv /\ ServerInv
  OBVIOUS
<1>1. events \in Seq(BOOLEAN) /\ calls \in Seq(Call) /\ DOMAIN calls = {}
  BY DEF Init
<1>2. ServerInv
  BY DEF Init, ServerInv, Thread
<1> QED
  BY <1>1, <1>2 DEF Init, ProxyInv, WillRun

\* A thread goes to its next command, the other one stays.
LEMMA GoesAlone ==
    ASSUME pc = [t \in Thread |-> pc[t]], NEW t \in Thread, NEW step, Goes(t, step)
    PROVE  /\ pc' = [u \in Thread |-> pc'[u]] /\ pc'[t] = step
           /\ \A u \in Thread : u # t => pc'[u] = pc[u]
BY DEF Goes

LEMMA ServerKept == ServerInv /\ [Next]_vars => ServerInv'
<1> SUFFICES ASSUME ServerInv, [Next]_vars PROVE ServerInv'
  OBVIOUS
<1>0. /\ "network" \in Thread /\ "gui" \in Thread /\ "network" # "gui"
      /\ pc = [t \in Thread |-> pc[t]]
  BY DEF Thread, ServerInv
<1>1. ASSUME UNCHANGED <<dhcp, server, pc>> PROVE ServerInv'
  BY <1>1 DEF ServerInv
<1>2. ASSUME UNCHANGED <<dhcp, server>>, NEW step, Goes("network", step) PROVE ServerInv'
  BY <1>0, <1>2, GoesAlone DEF ServerInv
<1>3. ASSUME UNCHANGED <<dhcp, server>>, NEW step \in {"ready", "delete", "create", "remove"},
             Goes("gui", step), pc["gui"] \notin {"stopped", "restart"}
      PROVE  ServerInv'
  BY <1>0, <1>3, GoesAlone DEF ServerInv
<1>4. CASE StartServer
  BY <1>0, <1>4, GoesAlone DEF StartServer, ServerInv, Ready
<1>5. CASE StopServer
  BY <1>0, <1>5, GoesAlone DEF StopServer, ServerInv, Ready
<1>6. CASE Stopped
  <2>1. ~dhcp' /\ Goes("gui", IF pc["gui"] = "restart" THEN "begin" ELSE "ready")
    BY <1>6 DEF Stopped, Status
  <2> QED
    BY <1>0, <2>1, GoesAlone DEF ServerInv
<1>7. CASE Begin
  BY <1>0, <1>7, GoesAlone DEF Begin, ServerInv
<1>8. CASE Started
  <2>1. server' = server /\ pc["gui"] = "started" /\ Goes("gui", "ready")
    BY <1>8 DEF Started
  <2> QED
    BY <1>0, <2>1, GoesAlone DEF ServerInv
<1>9. CASE ServerEnds
  BY <1>9 DEF ServerEnds, ServerInv
<1>10. CASE \/ DhcpStatus \/ DomainsFetched \/ RefreshDomains \/ RefreshThreats \/ ServeProxy
            \/ \E on \in BOOLEAN : SetDnsVisibility(on)
  BY <1>1, <1>10 DEF DhcpStatus, DomainsFetched, RefreshDomains, RefreshThreats, ServeProxy,
     SetDnsVisibility, dhcpServer, dns
<1>11. CASE \/ ThreatsFetched \/ Clear \/ Flush \/ Load
            \/ \E on \in BOOLEAN : SetThreatBlocklist(on)
  <2>1. UNCHANGED <<dhcp, server>>
    BY <1>11 DEF ThreatsFetched, Clear, Flush, Load, SetThreatBlocklist, dns, dhcpServer
  <2>2. UNCHANGED pc \/ \E step \in Step : Goes("network", step)
    BY <1>11 DEF ThreatsFetched, Clear, Flush, Load, SetThreatBlocklist, Step
  <2> QED
    BY <1>1, <1>2, <2>1, <2>2
<1>12. CASE \/ DeleteTables \/ CreateTables \/ \E on \in BOOLEAN : SetGatewayMode(on)
  <2>1. UNCHANGED <<dhcp, server>> /\ pc["gui"] \notin {"stopped", "restart"}
    BY <1>12 DEF DeleteTables, CreateTables, SetGatewayMode, dns, dhcpServer, Ready
  <2>2. \E step \in {"ready", "delete", "create", "remove"} : Goes("gui", step)
    BY <1>12 DEF DeleteTables, CreateTables, SetGatewayMode
  <2> QED
    BY <1>3, <2>1, <2>2
<1>13. CASE UNCHANGED vars
  BY <1>1, <1>13 DEF vars, dns, dhcpServer
<1> QED
  BY <1>4, <1>5, <1>6, <1>7, <1>8, <1>9, <1>10, <1>11, <1>12, <1>13 DEF Next, Network, Gui

\* The last element of a queue, when one joins it and when one leaves it.
LEMMA LastOfAppend ==
    ASSUME NEW S, NEW s \in Seq(S), NEW e \in S
    PROVE  /\ Append(s, e) \in Seq(S) /\ Append(s, e) # << >>
           /\ Append(s, e)[Len(Append(s, e))] = e
OBVIOUS

LEMMA LastOfTail ==
    ASSUME NEW S, NEW s \in Seq(S), s # << >>
    PROVE  /\ Head(s) \in S /\ Tail(s) \in Seq(S)
           /\ Tail(s) # << >> => Tail(s)[Len(Tail(s))] = s[Len(s)]
           /\ Tail(s) = << >> => Head(s) = s[Len(s)]
<1>1. /\ Len(s) \in Nat \ {0} /\ Len(Tail(s)) = Len(s) - 1
      /\ Head(s) = s[1] /\ Head(s) \in S /\ Tail(s) \in Seq(S)
  OBVIOUS
<1>2. ASSUME Tail(s) # << >> PROVE Tail(s)[Len(Tail(s))] = s[Len(s)]
  <2>1. Len(s) - 1 \in 1 .. Len(s) - 1
    <3>1. Len(s) > 1
      BY <1>1, <1>2
    <3> QED
      BY <1>1, <3>1
  <2>2. Tail(s)[Len(s) - 1] = s[Len(s) - 1 + 1]
    BY <1>1, <2>1
  <2>3. Len(s) - 1 + 1 = Len(s) /\ Len(Tail(s)) = Len(s) - 1
    BY <1>1
  <2> QED
    BY <2>2, <2>3
<1>3. Tail(s) = << >> => Len(s) = 1
  BY <1>1
<1> QED
  BY <1>1, <1>2, <1>3

\* A call that is posted is the last one.
LEMMA PostedCounts ==
    ASSUME calls \in Seq(Call), NEW call \in Call, Posted(call), proxy' = proxy
    PROVE  /\ calls' \in Seq(Call)
           /\ call = "start" => WillRun'
           /\ call = "stop" => ~WillRun'
           /\ call = "list" => (WillRun' <=> WillRun)
<1>1. /\ DOMAIN calls' = 1 .. Len(calls) + 1 /\ DOMAIN calls = 1 .. Len(calls)
      /\ Len(calls) \in Nat /\ calls' \in Seq(Call)
      /\ calls'[Len(calls) + 1] = call
      /\ \A n \in DOMAIN calls : calls'[n] = calls[n]
  BY DEF Posted
<1>2. call = "start" => WillRun'
  BY <1>1 DEF WillRun
<1>3. call = "stop" => ~WillRun'
  BY <1>1 DEF WillRun
<1>4. ASSUME call = "list" PROVE WillRun' <=> WillRun
  BY <1>1, <1>4 DEF WillRun
<1> QED
  BY <1>1, <1>2, <1>3, <1>4

\* A call that is served has the effect it was counted for.
LEMMA ServedCounts ==
    ASSUME calls \in Seq(Call), ServeProxy
    PROVE  calls' \in Seq(Call) /\ (WillRun' <=> WillRun)
<1>1. /\ Len(calls) \in Nat \ {0} /\ DOMAIN calls = 1 .. Len(calls)
      /\ calls' \in Seq(Call) /\ DOMAIN calls' = 1 .. Len(calls) - 1
      /\ \A n \in DOMAIN calls' : calls'[n] = calls[n + 1]
      /\ Head(calls) = calls[1] /\ calls[1] \in Call
  BY DEF ServeProxy
<1>2. /\ \A n \in DOMAIN calls : n = 1 \/ (n - 1 \in DOMAIN calls' /\ calls'[n - 1] = calls[n])
      /\ \A n \in DOMAIN calls' : n + 1 \in DOMAIN calls /\ n + 1 # 1
      /\ 1 \in DOMAIN calls
  BY <1>1
<1>3. /\ calls[1] = "start" => proxy' # "off"
      /\ calls[1] = "stop" => proxy' = "off"
      /\ calls[1] = "list" => proxy' = proxy
  BY <1>1 DEF ServeProxy, Call
<1>4. (\A n \in DOMAIN calls' : calls'[n] = "list") <=>
          \A n \in DOMAIN calls : n = 1 \/ calls[n] = "list"
  BY <1>1, <1>2
<1>5. (\E n \in DOMAIN calls' : /\ calls'[n] = "start"
                                /\ \A m \in DOMAIN calls' : m > n => calls'[m] = "list")
      <=> \E n \in DOMAIN calls : /\ n # 1 /\ calls[n] = "start"
                                  /\ \A m \in DOMAIN calls : m > n => calls[m] = "list"
  <2>1. ASSUME NEW n \in DOMAIN calls', calls'[n] = "start",
               \A m \in DOMAIN calls' : m > n => calls'[m] = "list"
        PROVE  /\ n + 1 \in DOMAIN calls /\ n + 1 # 1 /\ calls[n + 1] = "start"
               /\ \A m \in DOMAIN calls : m > n + 1 => calls[m] = "list"
    BY <1>1, <1>2, <2>1
  <2>2. ASSUME NEW n \in DOMAIN calls, n # 1, calls[n] = "start",
               \A m \in DOMAIN calls : m > n => calls[m] = "list"
        PROVE  /\ n - 1 \in DOMAIN calls' /\ calls'[n - 1] = "start"
               /\ \A m \in DOMAIN calls' : m > n - 1 => calls'[m] = "list"
    BY <1>1, <1>2, <2>2
  <2> QED
    BY <2>1, <2>2
<1>6. calls[1] \in {"start", "stop", "list"}
  BY <1>1 DEF Call
<1>7. WillRun <=>
        \/ \E n \in DOMAIN calls : /\ n # 1 /\ calls[n] = "start"
                                   /\ \A m \in DOMAIN calls : m > n => calls[m] = "list"
        \/ calls[1] = "start" /\ \A n \in DOMAIN calls : n = 1 \/ calls[n] = "list"
        \/ /\ proxy # "off" /\ calls[1] = "list"
           /\ \A n \in DOMAIN calls : n = 1 \/ calls[n] = "list"
  <2>1. (\A n \in DOMAIN calls : calls[n] = "list") <=>
            calls[1] = "list" /\ \A n \in DOMAIN calls : n = 1 \/ calls[n] = "list"
    BY <1>2
  <2>2. (\A m \in DOMAIN calls : m > 1 => calls[m] = "list") <=>
            \A n \in DOMAIN calls : n = 1 \/ calls[n] = "list"
    BY <1>1
  <2> QED
    BY <1>2, <2>1, <2>2 DEF WillRun
<1> QED
  BY <1>1, <1>3, <1>4, <1>5, <1>6, <1>7 DEF WillRun

\* A signal is the last of its queue and tells of the flag it was sent with.
LEMMA StatusTells ==
    ASSUME ProxyInv, NEW on \in BOOLEAN, Status(on)
    PROVE  ProxyInv'
<1>1. /\ events' = Append(events, on) /\ dhcp' = on /\ UNCHANGED <<dnsOn, calls, proxy>>
      /\ events \in Seq(BOOLEAN)
  BY DEF Status, ProxyInv
<1>2. events' \in Seq(BOOLEAN) /\ events' # << >> /\ events'[Len(events')] = on
  BY <1>1, LastOfAppend
<1> QED
  BY <1>1, <1>2 DEF ProxyInv, WillRun

LEMMA ProxyKept == ProxyInv /\ ServerInv /\ [Next]_vars => ProxyInv'
<1> SUFFICES ASSUME ProxyInv, ServerInv, [Next]_vars PROVE ProxyInv'
  OBVIOUS
<1>0. ASSUME UNCHANGED <<dhcp, events, dnsOn, calls, proxy>>, IsServerRunning' => IsServerRunning
      PROVE  ProxyInv'
  BY <1>0 DEF ProxyInv, WillRun
<1>1. CASE StartServer \/ StopServer \/ Begin \/ ServerEnds
  <2>1. UNCHANGED <<dhcp, events, dnsOn, calls, proxy>>
    BY <1>1 DEF StartServer, StopServer, Begin, ServerEnds
  <2>2. dhcp /\ server' = "runs" => server = "runs"
    BY <1>1 DEF StartServer, StopServer, Begin, ServerEnds, ServerInv, Ready
  <2> QED
    BY <1>0, <2>1, <2>2 DEF IsServerRunning
<1>14. CASE Stopped \/ Started
  BY <1>14, StatusTells DEF Stopped, Started
<1>2. CASE DhcpStatus
  <2>1. /\ events # << >> /\ events' = Tail(events)
        /\ UNCHANGED <<dhcp, server, dnsOn, proxy>>
        /\ events \in Seq(BOOLEAN) /\ calls \in Seq(Call) /\ events[Len(events)] = dhcp
    BY <1>2 DEF DhcpStatus, ProxyInv
  <2>2. /\ events' \in Seq(BOOLEAN) /\ Head(events) \in BOOLEAN
        /\ events' # << >> => events'[Len(events')] = dhcp
    BY <2>1, LastOfTail
  <2>3. events' = << >> => Head(events) = dhcp
    BY <2>1, LastOfTail
  <2>4. /\ "start" \in Call /\ "stop" \in Call
    BY DEF Call
  <2>5. CASE Head(events) /\ dnsOn
    <3>1. Posted("start")
      BY <1>2, <2>5 DEF DhcpStatus
    <3>2. calls' \in Seq(Call) /\ WillRun'
      BY <2>1, <2>4, <3>1, PostedCounts
    <3> QED
      BY <2>1, <2>2, <2>3, <2>5, <3>2 DEF ProxyInv, IsServerRunning
  <2>6. CASE Head(events) /\ ~dnsOn
    <3>1. UNCHANGED calls
      BY <1>2, <2>6 DEF DhcpStatus
    <3>2. WillRun' <=> WillRun
      BY <2>1, <3>1 DEF WillRun
    <3> QED
      BY <2>1, <2>2, <2>3, <2>6, <3>1, <3>2 DEF ProxyInv, IsServerRunning
  <2>7. CASE ~Head(events)
    <3>1. Posted("stop")
      BY <1>2, <2>7 DEF DhcpStatus
    <3>2. calls' \in Seq(Call) /\ ~WillRun'
      BY <2>1, <2>4, <3>1, PostedCounts
    <3> QED
      BY <2>1, <2>2, <2>3, <2>7, <3>2 DEF ProxyInv, IsServerRunning
  <2> QED
    BY <2>2, <2>5, <2>6, <2>7
<1>3. ASSUME NEW on \in BOOLEAN, SetDnsVisibility(on) PROVE ProxyInv'
  <2>1. /\ dnsOn # on /\ dnsOn' = on /\ UNCHANGED <<dhcp, server, events, proxy>>
        /\ calls \in Seq(Call)
    BY <1>3 DEF SetDnsVisibility, ProxyInv, dhcpServer
  <2>2. "start" \in Call /\ "stop" \in Call
    BY DEF Call
  <2>3. CASE ~on
    <3>1. calls' \in Seq(Call) /\ ~WillRun'
      BY <1>3, <2>1, <2>2, <2>3, PostedCounts DEF SetDnsVisibility
    <3> QED
      BY <2>1, <2>3, <3>1 DEF ProxyInv
  <2>4. CASE on /\ IsServerRunning
    <3>1. calls' \in Seq(Call) /\ WillRun'
      BY <1>3, <2>1, <2>2, <2>4, PostedCounts DEF SetDnsVisibility
    <3> QED
      BY <2>1, <2>4, <3>1 DEF ProxyInv, IsServerRunning
  <2>5. CASE on /\ ~IsServerRunning
    <3>1. UNCHANGED calls
      BY <1>3, <2>5 DEF SetDnsVisibility
    <3>2. WillRun' <=> WillRun
      BY <2>1, <3>1 DEF WillRun
    <3> QED
      BY <2>1, <2>5, <3>1, <3>2 DEF ProxyInv, IsServerRunning
  <2> QED
    BY <2>3, <2>4, <2>5
<1>4. CASE DomainsFetched
  <2>1. /\ UNCHANGED <<dhcp, server, events, dnsOn, proxy>>
        /\ UNCHANGED calls \/ Posted("list")
    BY <1>4 DEF DomainsFetched, dhcpServer
  <2>2. "list" \in Call /\ calls \in Seq(Call)
    BY DEF Call, ProxyInv
  <2>3. CASE Posted("list")
    <3>1. calls' \in Seq(Call) /\ (WillRun' <=> WillRun)
      BY <2>1, <2>2, <2>3, PostedCounts
    <3> QED
      BY <2>1, <3>1 DEF ProxyInv, IsServerRunning
  <2> QED
    BY <1>0, <2>1, <2>3 DEF IsServerRunning
<1>5. CASE ServeProxy
  <2>1. calls' \in Seq(Call) /\ (WillRun' <=> WillRun)
    BY <1>5, ServedCounts DEF ProxyInv
  <2> QED
    BY <1>5, <2>1 DEF ServeProxy, ProxyInv, IsServerRunning, dhcpServer
<1>6. CASE \/ RefreshDomains \/ ThreatsFetched \/ RefreshThreats \/ Clear \/ Flush \/ Load
           \/ \E on \in BOOLEAN : SetThreatBlocklist(on) \/ SetGatewayMode(on)
           \/ DeleteTables \/ CreateTables
  BY <1>0, <1>6 DEF RefreshDomains, ThreatsFetched, RefreshThreats, Clear, Flush, Load,
     SetThreatBlocklist, SetGatewayMode, DeleteTables, CreateTables, dns, dhcpServer,
     IsServerRunning
<1>7. CASE UNCHANGED vars
  BY <1>0, <1>7 DEF vars, dns, dhcpServer, IsServerRunning
<1> QED
  BY <1>1, <1>2, <1>3, <1>4, <1>5, <1>6, <1>7, <1>14 DEF Next, Network, Gui

\* When no call is on its way, a resolver that is on, or was tried, has both
\* switches on, and with both on it is there as long as the server's thread.
THEOREM ProxyFollows == Spec => []ProxyFollowsSwitches
<1>1. ProxyInv => ProxyFollowsSwitches
  BY DEF ProxyInv, ProxyFollowsSwitches, WillRun
<1>2. ProxyInv /\ ServerInv /\ [Next]_vars => ProxyInv' /\ ServerInv'
  BY ProxyKept, ServerKept
<1> QED
  BY <1>1, <1>2, ProxyStart, PTL DEF Spec

-----------------------------------------------------------------------------
(* The set of malicious addresses.                                         *)

\* The network thread loads the set only while the list is on, and is about
\* to empty it when it was switched off.
ThreatInv ==
    /\ pc = [t \in Thread |-> pc[t]]
    /\ pc["network"] \in {"ready", "flush", "load", "clear"}
    /\ ~threatOn => pc["network"] \in {"ready", "clear"}
    /\ ThreatOffDropsNothing

LEMMA ThreatStart == Init => ThreatInv
BY DEF Init, ThreatInv, ThreatOffDropsNothing, Thread

LEMMA ThreatKept == ThreatInv /\ [Next]_vars => ThreatInv'
<1> SUFFICES ASSUME ThreatInv, [Next]_vars PROVE ThreatInv'
  OBVIOUS
<1>0. /\ "network" \in Thread /\ "gui" \in Thread /\ "network" # "gui"
      /\ pc = [t \in Thread |-> pc[t]]
  BY DEF Thread, ThreatInv
<1>1. ASSUME UNCHANGED <<threatOn, malicious, pc>> PROVE ThreatInv'
  BY <1>1 DEF ThreatInv, ThreatOffDropsNothing, Ready
<1>2. ASSUME NEW on \in BOOLEAN, SetThreatBlocklist(on) PROVE ThreatInv'
  BY <1>0, <1>2, GoesAlone DEF SetThreatBlocklist, ThreatInv, ThreatOffDropsNothing, Ready, kernel
<1>3. CASE ThreatsFetched
  BY <1>0, <1>3, GoesAlone DEF ThreatsFetched, ThreatInv, ThreatOffDropsNothing, Ready, kernel
<1>4. CASE Clear \/ Flush
  BY <1>0, <1>4, GoesAlone DEF Clear, Flush, ThreatInv, ThreatOffDropsNothing, Ready, threat
<1>5. CASE Load
  BY <1>0, <1>5, GoesAlone DEF Load, ThreatInv, ThreatOffDropsNothing, Ready
<1>6. ASSUME NEW on \in BOOLEAN, SetGatewayMode(on) PROVE ThreatInv'
  BY <1>0, <1>6, GoesAlone
     DEF SetGatewayMode, ThreatInv, ThreatOffDropsNothing, Ready, threat, kernel
<1>7. CASE DeleteTables \/ CreateTables
  BY <1>0, <1>7, GoesAlone
     DEF DeleteTables, CreateTables, ThreatInv, ThreatOffDropsNothing, Ready, threat
<1>8. CASE \/ DhcpStatus \/ DomainsFetched \/ RefreshDomains \/ RefreshThreats \/ ServeProxy
           \/ ServerEnds \/ \E on \in BOOLEAN : SetDnsVisibility(on)
  BY <1>1, <1>8 DEF DhcpStatus, DomainsFetched, RefreshDomains, RefreshThreats, ServeProxy,
     ServerEnds, SetDnsVisibility, threat, kernel
<1>10. CASE StartServer \/ StopServer \/ Stopped \/ Begin \/ Started
  <2>1. UNCHANGED <<threatOn, malicious>> /\ \E step \in Step : Goes("gui", step)
    BY <1>10 DEF StartServer, StopServer, Stopped, Begin, Started, Status, Step, threat, kernel
  <2> QED
    BY <1>0, <2>1, GoesAlone DEF ThreatInv, ThreatOffDropsNothing, Ready
<1>9. CASE UNCHANGED vars
  BY <1>1, <1>9 DEF vars, threat, kernel
<1> QED
  BY <1>2, <1>3, <1>4, <1>5, <1>6, <1>7, <1>8, <1>9, <1>10 DEF Next, Network, Gui

\* With the threat list off, nothing is dropped, however late a download ends
\* and whatever gateway mode does meanwhile.
THEOREM OffDropsNothing == Spec => []ThreatOffDropsNothing
<1>1. ThreatInv => ThreatOffDropsNothing
  BY DEF ThreatInv
<1> QED
  BY <1>1, ThreatStart, ThreatKept, PTL DEF Spec
=============================================================================
