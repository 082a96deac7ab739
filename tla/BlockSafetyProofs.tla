-------------------------- MODULE BlockSafetyProofs --------------------------
(***************************************************************************)
(* More about BlockEnforcement for every set of devices and networks: this *)
(* machine is never blocked, gateway mode leaves nothing behind, and what  *)
(* the database lists is dropped.                                          *)
(***************************************************************************)
EXTENDS BlockEnforcementProofs

-----------------------------------------------------------------------------
(* What the remaining steps of a task do to it.                            *)

LEMMA ReadFacts ==
    ASSUME TInv, NEW t \in Thread, ReadBlocked(t)
    PROVE  /\ pc'[t].at = "add" /\ pc'[t].op = pc[t].op /\ pc'[t].mac = pc[t].mac
           /\ pc'[t].todo = pc[t].todo /\ pc'[t].elems = firewall.blocked
           /\ \A u \in Thread \ {t} : pc'[u] = pc[u]
<1>1. pc[t] \in Task /\ pc \in [Thread -> Task]
    BY DEF TInv, TypeOK
<1>2. pc' = [pc EXCEPT ![t] = [pc[t] EXCEPT !.elems = firewall.blocked, !.at = "add"]]
    BY DEF ReadBlocked, Becomes
<1>3. pc'[t] = [pc[t] EXCEPT !.elems = firewall.blocked, !.at = "add"]
    BY <1>1, <1>2
<1> QED BY <1>1, <1>2, <1>3 DEF Task

LEMMA AddFacts ==
    ASSUME TInv, NEW t \in Thread, AddDrops(t)
    PROVE  /\ pc'[t].at \in {"list", "next", "dhcp"}
           /\ pc'[t].op = pc[t].op /\ pc'[t].mac = pc[t].mac
           /\ pc'[t].todo = pc[t].todo /\ pc'[t].elems = {}
           /\ pc'[t].at = "list" <=> pc[t].mac = NoMAC
           /\ pc'[t].at = "next" <=> pc[t].mac # NoMAC /\ pc[t].op = "start"
           /\ \A u \in Thread \ {t} : pc'[u] = pc[u]
<1>1. pc[t] \in Task /\ pc \in [Thread -> Task]
    BY DEF TInv, TypeOK
<1>2. pc' = [pc EXCEPT ![t] = [pc[t] EXCEPT !.elems = {}, !.at = AfterSync(pc[t])]]
    BY DEF AddDrops, Becomes
<1>3. pc'[t] = [pc[t] EXCEPT !.elems = {}, !.at = AfterSync(pc[t])]
    BY <1>1, <1>2
<1>4. /\ AfterSync(pc[t]) \in {"list", "next", "dhcp"}
      /\ AfterSync(pc[t]) = "list" <=> pc[t].mac = NoMAC
      /\ AfterSync(pc[t]) = "next" <=> pc[t].mac # NoMAC /\ pc[t].op = "start"
    BY DEF AfterSync
<1> HIDE DEF AfterSync
<1>5. /\ pc'[t].at = AfterSync(pc[t]) /\ pc'[t].op = pc[t].op /\ pc'[t].mac = pc[t].mac
      /\ pc'[t].todo = pc[t].todo /\ pc'[t].elems = {}
    BY <1>1, <1>3 DEF Task
<1> QED BY <1>1, <1>2, <1>4, <1>5

LEMMA ListFacts ==
    ASSUME TInv, NEW t \in Thread, ListBlacklist(t)
    PROVE  /\ pc'[t].at = "next" /\ pc'[t].op = pc[t].op /\ pc'[t].mac = pc[t].mac
           /\ pc'[t].elems = pc[t].elems
           /\ pc'[t].todo \subseteq Listed(gatewayMac)
           /\ pc[t].op = "start" => pc'[t].todo = Listed(gatewayMac)
           /\ \A u \in Thread \ {t} : pc'[u] = pc[u]
<1> DEFINE due == IF pc[t].op = "start" THEN Listed(gatewayMac)
                  ELSE Listed(gatewayMac) \cap Known
<1>1. pc[t] \in Task /\ pc \in [Thread -> Task]
    BY DEF TInv, TypeOK
<1>2. pc' = [pc EXCEPT ![t] = [pc[t] EXCEPT !.at = "next", !.todo = due]]
    BY DEF ListBlacklist, Becomes
<1>3. due \subseteq Listed(gatewayMac) /\ (pc[t].op = "start" => due = Listed(gatewayMac))
    OBVIOUS
<1> HIDE DEF due
<1>4. pc'[t] = [pc[t] EXCEPT !.at = "next", !.todo = due]
    BY <1>1, <1>2
<1>5. /\ pc'[t].at = "next" /\ pc'[t].op = pc[t].op /\ pc'[t].mac = pc[t].mac
      /\ pc'[t].elems = pc[t].elems /\ pc'[t].todo = due
    BY <1>1, <1>4 DEF Task
<1> QED BY <1>1, <1>2, <1>3, <1>5

LEMMA NextFacts ==
    ASSUME TInv, NEW t \in Thread, ReapplyNext(t)
    PROVE  /\ pc'[t].at = "edit" /\ pc'[t].op = pc[t].op
           /\ pc'[t].mac \in pc[t].todo /\ pc'[t].todo = pc[t].todo \ {pc'[t].mac}
           /\ pc'[t].elems = pc[t].elems
           /\ unguarded' = IF pc[t].op = "activate" THEN unguarded \cup {pc'[t].mac}
                                                    ELSE unguarded
           /\ \A u \in Thread \ {t} : pc'[u] = pc[u]
<1>1. pc[t] \in Task /\ pc \in [Thread -> Task]
    BY DEF TInv, TypeOK
<1>2. PICK m \in pc[t].todo :
        /\ Becomes(t, [pc[t] EXCEPT !.at = "edit", !.mac = m, !.todo = @ \ {m}])
        /\ unguarded' = IF pc[t].op = "activate" THEN unguarded \cup {m} ELSE unguarded
    BY DEF ReapplyNext
<1> DEFINE new == [pc[t] EXCEPT !.at = "edit", !.mac = m, !.todo = @ \ {m}]
<1>3. /\ new.at = "edit" /\ new.op = pc[t].op /\ new.mac = m
      /\ new.todo = pc[t].todo \ {m} /\ new.elems = pc[t].elems
    BY <1>1 DEF Task
<1>4. pc' = [pc EXCEPT ![t] = new]
    BY <1>2 DEF Becomes
<1> HIDE DEF new
<1>5. pc'[t] = new /\ \A u \in Thread \ {t} : pc'[u] = pc[u]
    BY <1>1, <1>4
<1> QED BY <1>2, <1>3, <1>5

-----------------------------------------------------------------------------
(* This machine.                                                           *)

\* A task that is not an unblock has another device in hand than this machine,
\* and in its lists.
Spared(t) ==
    /\ Host \notin pc[t].elems /\ Host \notin pc[t].todo
    /\ pc[t].op # "unblock" => pc[t].mac # Host

HostInv ==
    /\ TInv
    /\ \A n \in Network : Host \notin Listed(n)
    /\ Host \notin firewall.blocked /\ HostNeverBlocked
    /\ \A t \in Thread : Spared(t)

LEMMA HostStart == Init => HostInv
<1> SUFFICES ASSUME Init PROVE HostInv
    OBVIOUS
<1>1. \A n \in Network : Host \notin Listed(n)
    BY DEF Init, Listed
<1>2. firewall.blocked = {} /\ kernel.drops = {} /\ dhcpBanned = {}
    BY DEF Init, NewFirewall, NoTables
<1>3. \A t \in Thread : Spared(t)
    BY NameAssumption DEF Init, Spared, Idle
<1> QED BY <1>1, <1>2, <1>3, TypeInit DEF HostInv, HostNeverBlocked

\* A thread that goes on with its task as it is.
LEMMA StillSpared ==
    ASSUME HostInv, NEW t \in Thread,
           pc'[t].op = pc[t].op, pc'[t].mac = pc[t].mac,
           pc'[t].todo = pc[t].todo, pc'[t].elems \subseteq pc[t].elems \cup firewall.blocked,
           \A u \in Thread \ {t} : pc'[u] = pc[u]
    PROVE  \A u \in Thread : Spared(u)'
BY DEF HostInv, Spared

\* A thread that is through.
LEMMA IdleSpared ==
    ASSUME HostInv, NEW t \in Thread, Finish(t)
    PROVE  \A u \in Thread : Spared(u)'
BY FinishType, NameAssumption DEF HostInv, Spared, Idle

\* A thread that starts with a device, or with none.
LEMMA BeginSpared ==
    ASSUME HostInv, NEW t \in Thread, NEW l \in Label, NEW o \in Operation,
           NEW m \in MAC \cup {NoMAC}, Begin(t, l, o, m), l # "idle",
           l \in {"record", "edit", "dhcp"} => m # NoMAC,
           o = "unblock" \/ m # Host
    PROVE  \A u \in Thread : Spared(u)'
BY BeginType DEF HostInv, Spared

LEMMA FirewallSpares ==
    ASSUME HostInv, NEW t \in Thread, FirewallStep(t)
    PROVE  HostInv'
<1>0. TInv /\ TInv' /\ pc[t] \in Task
    BY FirewallType DEF HostInv, TInv, TypeOK
<1>1. blacklist' = blacklist /\ dhcpBanned' = dhcpBanned
    BY DEF FirewallStep, DeleteTables, CreateTables, EditBlocked, FlushDrops, ReadBlocked,
           AddDrops, disk, dhcp
<1>2. ASSUME NEW l \in Label, l \in {"create", "flush", "read"}, GoTo(t, l)
      PROVE  \A u \in Thread : Spared(u)'
    BY <1>0, <1>2, GoToType, StillSpared
<1>3. CASE DeleteTables(t)
    <2>1. \A u \in Thread : Spared(u)'
        BY <1>2, <1>3, IdleSpared DEF DeleteTables, Label
    <2>2. firewall' = firewall /\ kernel'.drops = {}
        BY <1>3 DEF DeleteTables, NoTables
    <2> QED BY <1>0, <1>1, <2>1, <2>2 DEF HostInv, HostNeverBlocked, Listed
<1>4. CASE CreateTables(t)
    <2>1. \A u \in Thread : Spared(u)'
        BY <1>2, <1>4 DEF CreateTables, Label
    <2>2. firewall' = firewall /\ kernel'.drops = kernel.drops
        BY <1>0, <1>4 DEF CreateTables, TInv, TypeOK
    <2> QED BY <1>0, <1>1, <2>1, <2>2 DEF HostInv, HostNeverBlocked, Listed
<1>5. CASE EditBlocked(t)
    <2>1. \A u \in Thread : Spared(u)'
        BY <1>2, <1>5 DEF EditBlocked, Label
    <2>2. kernel' = kernel
        BY <1>5 DEF EditBlocked
    <2>3. firewall'.blocked = IF pc[t].op = "unblock" THEN firewall.blocked \ {pc[t].mac}
                              ELSE firewall.blocked \cup {pc[t].mac}
        BY <1>0, <1>5 DEF EditBlocked, TInv, TypeOK
    <2>4. Host \notin firewall'.blocked
        BY <2>3 DEF HostInv, Spared
    <2> QED BY <1>0, <1>1, <2>1, <2>2, <2>4 DEF HostInv, HostNeverBlocked, Listed
<1>6. CASE FlushDrops(t)
    <2>1. \A u \in Thread : Spared(u)'
        BY <1>2, <1>6 DEF FlushDrops, Label
    <2>2. firewall' = firewall /\ kernel'.drops = {}
        BY <1>0, <1>6 DEF FlushDrops, TInv, TypeOK
    <2> QED BY <1>0, <1>1, <2>1, <2>2 DEF HostInv, HostNeverBlocked, Listed
<1>7. CASE ReadBlocked(t)
    <2>1. \A u \in Thread : Spared(u)'
        BY <1>0, <1>7, ReadFacts, StillSpared
    <2>2. firewall' = firewall /\ kernel' = kernel
        BY <1>7 DEF ReadBlocked
    <2> QED BY <1>0, <1>1, <2>1, <2>2 DEF HostInv, HostNeverBlocked, Listed
<1>8. CASE AddDrops(t)
    <2>1. \A u \in Thread : Spared(u)'
        BY <1>0, <1>8, AddFacts, StillSpared
    <2>2. firewall' = firewall /\ kernel'.drops \subseteq kernel.drops \cup pc[t].elems
        BY <1>0, <1>8 DEF AddDrops, TInv, TypeOK
    <2>3. Host \notin kernel'.drops
        BY <2>2 DEF HostInv, HostNeverBlocked, Spared
    <2> QED BY <1>0, <1>1, <2>1, <2>2, <2>3 DEF HostInv, HostNeverBlocked, Listed
<1> QED BY <1>3, <1>4, <1>5, <1>6, <1>7, <1>8 DEF FirewallStep

LEMMA ReapplySpares ==
    ASSUME HostInv, NEW t \in Thread,
           ListBlacklist(t) \/ ReapplyNext(t) \/ ReapplyDone(t)
    PROVE  HostInv'
<1>0. TInv /\ TInv' /\ gatewayMac \in Network
    BY ReapplyType DEF HostInv, TInv, TypeOK
<1>1. UNCHANGED <<blacklist, dhcpBanned, firewall, kernel>>
    BY DEF ListBlacklist, ReapplyNext, ReapplyDone, disk, dhcp
<1>2. CASE ListBlacklist(t)
    <2>1. \A u \in Thread : Spared(u)'
        BY <1>0, <1>2, ListFacts DEF HostInv, Spared
    <2> QED BY <1>0, <1>1, <2>1 DEF HostInv, HostNeverBlocked, Listed
<1>3. CASE ReapplyNext(t)
    <2>1. \A u \in Thread : Spared(u)'
        BY <1>0, <1>3, NextFacts DEF HostInv, Spared
    <2> QED BY <1>0, <1>1, <2>1 DEF HostInv, HostNeverBlocked, Listed
<1>4. CASE ReapplyDone(t)
    <2>1. \A u \in Thread : Spared(u)'
        BY <1>4, IdleSpared DEF ReapplyDone
    <2> QED BY <1>0, <1>1, <2>1 DEF HostInv, HostNeverBlocked, Listed
<1> QED BY <1>2, <1>3, <1>4

LEMMA NetworkSpares ==
    ASSUME HostInv, UnblockTask, NetworkStep
    PROVE  HostInv'
<1>0. /\ TInv /\ TInv' /\ "network" \in Thread /\ pc["network"] \in Task
      /\ gatewayMac \in Network /\ \A m \in MAC : m # NoMAC
    BY NetworkType, NameAssumption DEF HostInv, TInv, TypeOK, Thread
<1>1. kernel' = kernel /\ firewall'.blocked = firewall.blocked
    BY <1>0 DEF NetworkStep, Activate, BlockDevice, EnforceStrictModeBlock, UnblockDevice,
           PossibleMacRotation, RecordBlock, UpdateBans, SetGatewayMac, TInv, TypeOK
<1>2. CASE Activate
    <2>1. \A u \in Thread : Spared(u)'
        BY <1>0, <1>2, BeginSpared, NameAssumption DEF Activate, Label, Operation
    <2> QED BY <1>0, <1>1, <1>2, <2>1 DEF HostInv, HostNeverBlocked, Listed, Activate, disk, dhcp
<1>3. ASSUME NEW m \in MAC, NEW p \in MAC,
             BlockDevice(m) \/ EnforceStrictModeBlock(m) \/ PossibleMacRotation(p, m)
      PROVE  HostInv'
    <2>1. Begin("network", "record", "block", m) /\ m # Host
        BY <1>3 DEF BlockDevice, EnforceStrictModeBlock, PossibleMacRotation
    <2>2. \A u \in Thread : Spared(u)'
        BY <1>0, <2>1, BeginSpared DEF Label, Operation
    <2>3. blacklist' = blacklist /\ dhcpBanned' = dhcpBanned
        BY <1>3 DEF BlockDevice, EnforceStrictModeBlock, PossibleMacRotation, disk, dhcp
    <2> QED BY <1>0, <1>1, <2>2, <2>3 DEF HostInv, HostNeverBlocked, Listed
<1>4. ASSUME NEW m \in MAC, UnblockDevice(m) PROVE HostInv'
    <2>1. \A u \in Thread : Spared(u)'
        BY <1>0, <1>4, BeginSpared DEF UnblockDevice, Label, Operation
    <2>2. dhcpBanned' = dhcpBanned /\ blacklist' \subseteq blacklist
        BY <1>4 DEF UnblockDevice, dhcp
    <2> QED BY <1>0, <1>1, <2>1, <2>2 DEF HostInv, HostNeverBlocked, Listed
<1>5. CASE RecordBlock
    <2>1. pc["network"].mac # NoMAC
        BY <1>0, <1>5 DEF RecordBlock, At, TInv, TaskOK
    <2>2. \A u \in Thread : Spared(u)'
        BY <1>0, <1>5, <2>1, GoToType, StillSpared DEF RecordBlock, Label
    <2>3. pc["network"].mac # Host
        BY <1>0, <1>5 DEF RecordBlock, At, UnblockTask, Editing, HostInv, Spared
    <2>4. \A n \in Network : Host \notin Listed(n)'
        BY <1>0, <1>5, <2>3 DEF RecordBlock, HostInv, Listed
    <2> QED BY <1>0, <1>1, <1>5, <2>2, <2>4 DEF HostInv, HostNeverBlocked, RecordBlock, dhcp
<1>6. CASE UpdateBans
    <2>1. pc["network"].mac # NoMAC
        BY <1>0, <1>6 DEF UpdateBans, At, TInv, TaskOK
    <2>2. \A u \in Thread : Spared(u)'
        <3>1. CASE GoTo("network", "next")
            BY <1>0, <3>1, GoToType, StillSpared DEF Label
        <3> QED BY <1>0, <1>6, <3>1, IdleSpared DEF UpdateBans
    <2>3. Host \notin dhcpBanned'
        BY <1>0, <1>6 DEF UpdateBans, HostInv, HostNeverBlocked, Spared
    <2> QED BY <1>0, <1>1, <1>6, <2>2, <2>3 DEF HostInv, HostNeverBlocked, Listed, UpdateBans, disk
<1>7. ASSUME NEW g \in Gateway, SetGatewayMac(g) PROVE HostInv'
    <2>1. pc' = pc /\ dhcpBanned' = dhcpBanned /\ blacklist' \subseteq blacklist
        BY <1>7 DEF SetGatewayMac, dhcp
    <2> QED BY <1>0, <1>1, <2>1 DEF HostInv, HostNeverBlocked, Listed, Spared
<1> QED BY <1>0, <1>2, <1>3, <1>4, <1>5, <1>6, <1>7 DEF NetworkStep

LEMMA GuiSpares ==
    ASSUME HostInv, GuiStep
    PROVE  HostInv'
<1>0. TInv /\ TInv' /\ "gui" \in Thread /\ Host # NoMAC
    BY GuiType, NameAssumption DEF HostInv, TInv, Thread
<1>1. /\ UNCHANGED <<kernel, blacklist, dhcpBanned>>
      /\ firewall'.blocked \subseteq firewall.blocked
    BY <1>0 DEF GuiStep, StartServer, EngageGateway, StopServer, DisengageGateway,
           ClearBlocked, TInv, TypeOK, disk, dhcp
<1>2. \A u \in Thread : Spared(u)'
    <2>1. CASE pc' = pc
        BY <2>1 DEF HostInv, Spared
    <2>2. ASSUME NEW l \in Label, NEW o \in Operation, l \in {"engage", "disengage"},
                 Begin("gui", l, o, NoMAC)
          PROVE  \A u \in Thread : Spared(u)'
        BY <1>0, <2>2, BeginSpared
    <2>3. ASSUME NEW l \in Label, l \in {"delete", "clear"}, GoTo("gui", l)
          PROVE  \A u \in Thread : Spared(u)'
        BY <1>0, <2>3, GoToType, StillSpared
    <2> QED BY <2>1, <2>2, <2>3 DEF GuiStep, StartServer, EngageGateway, StopServer,
                DisengageGateway, ClearBlocked, Label, Operation
<1> QED BY <1>0, <1>1, <1>2 DEF HostInv, HostNeverBlocked, Listed

LEMMA HostKept == FInv /\ HostInv /\ [Next]_vars => HostInv'
<1> SUFFICES ASSUME FInv, HostInv, [Next]_vars PROVE HostInv'
    OBVIOUS
<1>0. TInv'
    BY TypeStep DEF HostInv
<1>1. ASSUME NEW t \in Thread,
             FirewallStep(t) \/ ListBlacklist(t) \/ ReapplyNext(t) \/ ReapplyDone(t)
      PROVE  HostInv'
    BY <1>1, FirewallSpares, ReapplySpares
<1>2. CASE Crash \/ CloseEvent
    <2>1. Forget /\ blacklist' = blacklist /\ kernel'.drops \subseteq kernel.drops
        BY <1>2 DEF Crash, CloseEvent, NoTables
    <2>2. \A t \in Thread : Spared(t)'
        BY <2>1, NameAssumption DEF Forget, Spared, Idle
    <2>3. firewall'.blocked = {} /\ dhcpBanned' = {}
        BY <2>1 DEF Forget, NewFirewall
    <2> QED BY <1>0, <2>1, <2>2, <2>3 DEF HostInv, HostNeverBlocked, Listed
<1>3. CASE Boot
    <2>1. /\ UNCHANGED <<blacklist, firewall, dhcpBanned, pc>>
          /\ kernel'.drops = {}
        BY <1>3 DEF Boot, memory, dhcp, NoTables
    <2> QED BY <1>0, <2>1 DEF HostInv, HostNeverBlocked, Listed, Spared
<1>4. CASE UNCHANGED vars
    <2>1. UNCHANGED <<blacklist, firewall, kernel, dhcpBanned, pc>>
        BY <1>4 DEF vars, memory, disk, dhcp
    <2> QED BY <1>0, <2>1 DEF HostInv, HostNeverBlocked, Listed, Spared
<1> QED BY <1>1, <1>2, <1>3, <1>4, NetworkSpares, GuiSpares DEF Next, FInv

\* No path to a block, not even default deny, cuts off this machine.
THEOREM HostIsSpared == Spec => []HostNeverBlocked
<1>1. HostInv => HostNeverBlocked
    BY DEF HostInv
<1> QED BY <1>1, FreedInit, FreedStep, HostStart, HostKept, PTL DEF Spec

-----------------------------------------------------------------------------
(* The shapes of the two threads' tasks.                                   *)

\* The network thread activates once, or works on one device.
NetworkTask ==
    /\ \/ pc["network"] = Idle
       \/ /\ pc["network"].op \in {"block", "unblock"} /\ pc["network"].mac # NoMAC
          /\ pc["network"].at \in Editing \cup {"record"}
       \/ /\ pc["network"].op = "activate"
          /\ pc["network"].at \in Editing \cup {"delete", "create", "list", "next"}
    /\ pc["network"].at \in {"delete", "create"} => pc["network"].elems = {}

\* The GUI thread is about to switch the mode off, or does what follows.
GuiTask ==
    /\ pc["gui"].at \in {"disengage", "clear"} => pc["gui"].op = "stop"
    /\ ~gatewayMode =>
          \/ pc["gui"].at \in {"idle", "engage", "clear"}
          \/ pc["gui"].at = "delete" /\ pc["gui"].op = "stop"

\* Nobody works while the program does not run, and the network thread starts
\* with the interface.
Asleep ==
    /\ ~running => \A t \in Thread : pc[t] = Idle
    /\ ~firewall.iface => pc["network"] = Idle /\ (running => ~kernel.layer2)

Shapes == TInv /\ NetworkTask /\ GuiTask /\ Asleep

LEMMA ShapesStart == Init => Shapes
<1> SUFFICES ASSUME Init PROVE Shapes
    OBVIOUS
<1>1. pc["network"] = Idle /\ pc["gui"] = Idle /\ Idle.at = "idle"
    BY DEF Init, Thread, Idle
<1>2. ~kernel.layer2 /\ running
    BY DEF Init, NoTables
<1> QED BY <1>1, <1>2, TypeInit DEF Shapes, NetworkTask, GuiTask, Asleep

\* A thread that works on the firewall goes on with its task, but at the end
\* of switching the mode off.
LEMMA FirewallMoves ==
    ASSUME TInv, NEW t \in Thread, FirewallStep(t)
    PROVE  \/ /\ pc'[t].op = pc[t].op /\ pc'[t].mac = pc[t].mac /\ pc'[t].todo = pc[t].todo
              /\ \A u \in Thread \ {t} : pc'[u] = pc[u]
              /\ \/ /\ pc[t].at = "delete" /\ pc[t].op # "stop"
                    /\ pc'[t].at = "create" /\ pc'[t].elems = pc[t].elems
                 \/ pc[t].at = "create" /\ pc'[t].at = "flush"
                 \/ pc[t].at \in Editing /\ pc'[t].at \in Editing \ {"edit"}
                 \/ pc[t].at = "add" /\ pc'[t].at = "list" /\ pc[t].mac = NoMAC
                 \/ pc[t].at = "add" /\ pc'[t].at = "next" /\ pc[t].op = "start"
           \/ /\ pc[t].at = "delete" /\ pc[t].op = "stop" /\ pc'[t] = Idle
              /\ \A u \in Thread \ {t} : pc'[u] = pc[u]
<1>0. pc[t] \in Task
    BY DEF TInv, TypeOK
<1>1. CASE DeleteTables(t)
    BY <1>0, <1>1, GoToType, FinishType DEF DeleteTables, At, Label
<1>2. CASE CreateTables(t)
    BY <1>0, <1>2, GoToType DEF CreateTables, At, Label
<1>3. CASE EditBlocked(t) \/ FlushDrops(t)
    BY <1>0, <1>3, GoToType DEF EditBlocked, FlushDrops, At, Label, Editing
<1>4. CASE ReadBlocked(t)
    BY <1>0, <1>4, ReadFacts DEF ReadBlocked, At, Editing
<1>5. CASE AddDrops(t)
    BY <1>0, <1>5, AddFacts DEF AddDrops, At, Editing
<1> QED BY <1>1, <1>2, <1>3, <1>4, <1>5 DEF FirewallStep

LEMMA FirewallShapes ==
    ASSUME Shapes, NEW t \in Thread, FirewallStep(t)
    PROVE  Shapes'
<1>0. /\ TInv /\ TInv' /\ pc[t] \in Task /\ Idle.at = "idle"
      /\ t = "network" \/ t = "gui"
    BY FirewallType DEF Shapes, TInv, TypeOK, Thread, Idle
<1>1. /\ pc[t].at # "idle" /\ running /\ running' = running /\ gatewayMode' = gatewayMode
      /\ firewall'.iface = firewall.iface
    BY <1>0 DEF FirewallStep, DeleteTables, CreateTables, EditBlocked, FlushDrops, ReadBlocked,
           AddDrops, At, disk, link, Shapes, Asleep, TInv, TypeOK
<1>2. ~firewall.iface => t = "gui" /\ ~kernel'.layer2
    BY <1>0, <1>1 DEF FirewallStep, DeleteTables, CreateTables, EditBlocked, FlushDrops,
           ReadBlocked, AddDrops, Shapes, Asleep, NoTables, TInv, TypeOK
<1>3. NetworkTask'
    BY <1>0, FirewallMoves DEF Shapes, NetworkTask, Editing, Thread, Idle
<1>4. GuiTask'
    BY <1>0, <1>1, FirewallMoves DEF Shapes, GuiTask, Editing, Thread
<1>5. ~firewall.iface => pc'["network"] = pc["network"]
    BY <1>0, <1>2, FirewallMoves DEF Thread
<1> QED BY <1>0, <1>1, <1>2, <1>3, <1>4, <1>5 DEF Shapes, Asleep

LEMMA ReapplyShapes ==
    ASSUME Shapes, NEW t \in Thread,
           ListBlacklist(t) \/ ReapplyNext(t) \/ ReapplyDone(t)
    PROVE  Shapes'
<1>0. /\ TInv /\ TInv' /\ pc[t] \in Task /\ Idle.at = "idle"
      /\ t = "network" \/ t = "gui"
    BY ReapplyType DEF Shapes, TInv, TypeOK, Thread, Idle
<1>1. /\ pc[t].at \in {"list", "next"} /\ UNCHANGED <<running, gatewayMode, firewall, kernel>>
    BY DEF ListBlacklist, ReapplyNext, ReapplyDone, At, disk, link
<1>2. /\ \A u \in Thread \ {t} : pc'[u] = pc[u]
      /\ pc'[t] = Idle \/ (pc'[t].op = pc[t].op /\ pc'[t].at \in {"next", "edit"})
    BY <1>0, ListFacts, NextFacts, FinishType DEF ReapplyDone
<1>3. NetworkTask'
    BY <1>0, <1>1, <1>2 DEF Shapes, NetworkTask, Editing, Thread, Idle
<1>4. GuiTask'
    BY <1>0, <1>1, <1>2 DEF Shapes, GuiTask, Editing, Thread
<1>5. ~firewall.iface => pc'["network"] = pc["network"]
    BY <1>0, <1>1, <1>2 DEF Thread, Shapes, Asleep
<1>6. running
    BY <1>0, <1>1 DEF Shapes, Asleep
<1> QED BY <1>0, <1>1, <1>3, <1>4, <1>5, <1>6 DEF Shapes, Asleep

LEMMA NetworkShapes ==
    ASSUME Shapes, NetworkStep
    PROVE  Shapes'
<1>0. /\ TInv /\ TInv' /\ "network" \in Thread /\ "gui" \in Thread /\ pc["network"] \in Task
      /\ \A m \in MAC : m # NoMAC
    BY NetworkType, NameAssumption DEF Shapes, TInv, TypeOK, Thread
<1>i. /\ ~running => pc["network"].at = "idle"
      /\ ~firewall.iface => pc["network"].at = "idle"
    BY <1>0 DEF Shapes, Asleep, Idle
<1>1. UNCHANGED <<running, kernel, gatewayMode>> /\ running
    BY <1>i DEF NetworkStep, Activate, BlockDevice, EnforceStrictModeBlock, UnblockDevice,
           PossibleMacRotation, RecordBlock, UpdateBans, SetGatewayMac,
           NetworkReady, Free, At, disk, link
<1>2. firewall'.iface
    <2>1. CASE Activate
        BY <1>0, <2>1 DEF Activate, TInv, TypeOK
    <2>2. CASE ~Activate
        <3>1. firewall' = firewall /\ firewall.iface
            BY <1>i, <2>2 DEF NetworkStep, BlockDevice, EnforceStrictModeBlock, UnblockDevice,
               PossibleMacRotation, RecordBlock, UpdateBans, SetGatewayMac, NetworkReady, At
        <3> QED BY <3>1
    <2> QED BY <2>1, <2>2
<1>3. pc'["gui"] = pc["gui"] /\ NetworkTask'
    <2>1. CASE Activate
        BY <1>0, <2>1, BeginType DEF Activate, Label, Operation, NetworkTask, Thread, Idle
    <2>2. ASSUME NEW m \in MAC, NEW p \in MAC,
                 BlockDevice(m) \/ EnforceStrictModeBlock(m) \/ PossibleMacRotation(p, m)
          PROVE  pc'["gui"] = pc["gui"] /\ NetworkTask'
        <3>1. Begin("network", "record", "block", m)
            BY <2>2 DEF BlockDevice, EnforceStrictModeBlock, PossibleMacRotation
        <3> QED BY <1>0, <3>1, BeginType DEF Label, Operation, NetworkTask, Thread, Idle
    <2>3. ASSUME NEW m \in MAC, UnblockDevice(m)
          PROVE  pc'["gui"] = pc["gui"] /\ NetworkTask'
        <3>1. Begin("network", "edit", "unblock", m)
            BY <2>3 DEF UnblockDevice
        <3>2. /\ pc'["network"].at = "edit" /\ pc'["network"].op = "unblock"
              /\ pc'["network"].mac = m /\ pc'["gui"] = pc["gui"]
            BY <1>0, <3>1, BeginType DEF Label, Operation, Thread
        <3> QED BY <1>0, <3>2 DEF NetworkTask, Editing
    <2>4. CASE RecordBlock
        <3>1. pc["network"].mac # NoMAC
            BY <1>0, <2>4 DEF RecordBlock, At, TInv, TaskOK
        <3>2. pc["network"].at = "record" /\ "edit" \in Label /\ Idle.at = "idle"
            BY <2>4 DEF RecordBlock, At, Label, Idle
        <3>3. /\ pc["network"].op \in {"block", "unblock"}
            BY <3>2 DEF Shapes, NetworkTask, Editing
        <3>4. GoTo("network", "edit")
            BY <2>4 DEF RecordBlock
        <3>5. /\ pc'["network"].at = "edit" /\ pc'["network"].op = pc["network"].op
              /\ pc'["network"].mac = pc["network"].mac
              /\ \A u \in Thread \ {"network"} : pc'[u] = pc[u]
            BY <1>0, <3>1, <3>2, <3>4, GoToType
        <3>6. pc'["gui"] = pc["gui"]
            BY <1>0, <3>5
        <3> QED BY <3>1, <3>3, <3>5, <3>6 DEF NetworkTask, Editing
    <2>5. CASE UpdateBans
        BY <1>0, <2>5, GoToType, FinishType
           DEF UpdateBans, At, Label, Shapes, NetworkTask, Thread, Editing, Idle
    <2>6. ASSUME NEW g \in Gateway, SetGatewayMac(g)
          PROVE  pc'["gui"] = pc["gui"] /\ NetworkTask'
        BY <2>6 DEF SetGatewayMac, Shapes, NetworkTask
    <2> QED BY <1>0, <2>1, <2>2, <2>3, <2>4, <2>5, <2>6 DEF NetworkStep
<1> QED BY <1>0, <1>1, <1>2, <1>3 DEF Shapes, Asleep, GuiTask

LEMMA GuiShapes ==
    ASSUME Shapes, GuiStep
    PROVE  Shapes'
<1>0. /\ TInv /\ TInv' /\ "gui" \in Thread /\ "network" \in Thread /\ pc["gui"] \in Task
    BY GuiType DEF Shapes, TInv, TypeOK, Thread
<1>1. UNCHANGED <<running, kernel>> /\ firewall'.iface = firewall.iface /\ running
    BY <1>0 DEF GuiStep, StartServer, EngageGateway, StopServer, DisengageGateway,
           ClearBlocked, TInv, TypeOK, disk, Free, At, Shapes, Asleep, Idle
<1>2. pc'["network"] = pc["network"] /\ GuiTask'
    <2>1. CASE StartServer
        <3>1. gatewayMode' = gatewayMode
            BY <2>1 DEF StartServer, link
        <3>2. CASE pc' = pc
            BY <3>1, <3>2 DEF Shapes, GuiTask
        <3>3. CASE Begin("gui", "engage", "start", NoMAC)
            BY <1>0, <3>1, <3>3, BeginType DEF Label, Operation, GuiTask, Thread
        <3> QED BY <2>1, <3>2, <3>3 DEF StartServer
    <2>2. CASE EngageGateway
        BY <1>0, <2>2, GoToType DEF EngageGateway, Label, GuiTask, Thread
    <2>3. CASE StopServer
        <3>1. gatewayMode' = gatewayMode
            BY <2>3 DEF StopServer, link
        <3>2. CASE pc' = pc
            BY <3>1, <3>2 DEF Shapes, GuiTask
        <3>3. CASE gatewayMode /\ Begin("gui", "disengage", "stop", NoMAC)
            BY <1>0, <3>1, <3>3, BeginType DEF Label, Operation, GuiTask, Thread
        <3> QED BY <2>3, <3>2, <3>3 DEF StopServer
    <2>4. CASE DisengageGateway
        BY <1>0, <2>4, GoToType DEF DisengageGateway, At, Label, Shapes, GuiTask, Thread
    <2>5. CASE ClearBlocked
        BY <1>0, <2>5, GoToType DEF ClearBlocked, At, Label, Shapes, GuiTask, Thread
    <2> QED BY <2>1, <2>2, <2>3, <2>4, <2>5 DEF GuiStep
<1> QED BY <1>0, <1>1, <1>2 DEF Shapes, Asleep, NetworkTask

LEMMA EndShapes ==
    ASSUME Shapes, Crash \/ CloseEvent \/ Boot
    PROVE  Shapes'
<1>0. TInv' /\ Idle.at = "idle"
    BY EndType DEF Shapes, Idle
<1>1. ASSUME Forget PROVE Shapes'
    <2>1. ~running' /\ pc'["network"] = Idle /\ pc'["gui"] = Idle
        BY <1>1 DEF Forget, Thread
    <2>2. \A t \in Thread : pc'[t] = Idle
        BY <1>1 DEF Forget
    <2> QED BY <1>0, <2>1, <2>2 DEF Shapes, NetworkTask, GuiTask, Asleep
<1>2. CASE Boot
    <2>1. running' /\ ~kernel'.layer2 /\ UNCHANGED <<pc, firewall, gatewayMode>>
        BY <1>2 DEF Boot, memory, link, NoTables
    <2> QED BY <1>0, <2>1 DEF Shapes, NetworkTask, GuiTask, Asleep
<1> QED BY <1>1, <1>2 DEF Crash, CloseEvent

LEMMA ShapesKept == Shapes /\ [Next]_vars => Shapes'
<1> SUFFICES ASSUME Shapes, [Next]_vars PROVE Shapes'
    OBVIOUS
<1>1. ASSUME NEW t \in Thread,
             FirewallStep(t) \/ ListBlacklist(t) \/ ReapplyNext(t) \/ ReapplyDone(t)
      PROVE  Shapes'
    BY <1>1, FirewallShapes, ReapplyShapes
<1>2. CASE UNCHANGED vars
    <2>1. UNCHANGED <<running, gatewayMode, firewall, kernel, pc>> /\ TInv'
        BY <1>2, TypeStep DEF vars, memory, disk, link, Shapes
    <2> QED BY <2>1 DEF Shapes, NetworkTask, GuiTask, Asleep
<1> QED BY <1>1, <1>2, NetworkShapes, GuiShapes, EndShapes DEF Next

-----------------------------------------------------------------------------
(* Gateway mode leaves nothing behind.                                     *)

\* The network thread creates the tables that "activate" asked for.
Building == pc["network"].at \in {"delete", "create"}

\* With the mode off, the tables are created over a list that unblockAll left.
Empty ==
    ~gatewayMode /\ pc["gui"].at # "clear" /\ (~firewall.iface \/ Building)
        => firewall.blocked \subseteq unguarded

\* What the firewall holds, and what the network thread is about to add.
Allowed ==
    /\ firewall.blocked \subseteq unguarded /\ kernel.drops \subseteq unguarded
    /\ pc["network"].elems \subseteq unguarded
    /\ pc["network"].at \in {"record", "edit"} /\ pc["network"].op # "unblock"
         => pc["network"].mac \in unguarded

\* A block that outlived the mode finds no table.
Open ==
    running /\ ~gatewayMode /\ pc["gui"].at \in {"idle", "engage"}
      /\ (kernel.layer2 \/ Building) => Allowed

OpenInv == Shapes /\ Empty /\ Open

LEMMA OpenStart == Init => OpenInv
<1> SUFFICES ASSUME Init PROVE OpenInv
    OBVIOUS
<1>1. firewall.blocked = {} /\ ~kernel.layer2 /\ pc["network"].at = "idle"
    BY DEF Init, NewFirewall, NoTables, Thread, Idle
<1> QED BY <1>1, ShapesStart DEF OpenInv, Empty, Open, Building

\* The GUI thread works on the firewall in gateway mode, but for the last step
\* of switching it off.
LEMMA GuiInMode ==
    ASSUME GuiTask, ~gatewayMode,
           pc["gui"].at \notin {"idle", "engage", "clear"}
    PROVE  pc["gui"].at = "delete" /\ pc["gui"].op = "stop"
BY DEF GuiTask

LEMMA DeleteOpen ==
    ASSUME OpenInv, NEW t \in Thread, DeleteTables(t)
    PROVE  Empty' /\ Open'
<1>0. TInv /\ pc[t] \in Task /\ "gui" \in Thread \ {"network"} /\ Idle.at = "idle"
    BY DEF OpenInv, Shapes, TInv, TypeOK, Thread, Idle
<1>1. /\ UNCHANGED <<running, gatewayMode, firewall, unguarded>>
      /\ ~kernel'.layer2 /\ kernel'.drops = {} /\ pc[t].at = "delete"
    BY DEF DeleteTables, NoTables, At, disk, link, history
<1>2. CASE t = "network"
    <2>1. pc["network"].op # "stop"
        BY <1>1, <1>2 DEF OpenInv, Shapes, NetworkTask, Idle
    <2>2. GoTo("network", "create")
        BY <1>2, <2>1 DEF DeleteTables
    <2>3. /\ pc'["network"].at = "create" /\ pc'["network"].elems = pc["network"].elems
          /\ pc'["gui"] = pc["gui"]
        BY <1>0, <1>2, <2>2, GoToType DEF Label
    <2> QED BY <1>1, <1>2, <2>3 DEF OpenInv, Empty, Open, Allowed, Building
<1>3. CASE t = "gui"
    <2>1. CASE gatewayMode
        BY <1>1, <2>1 DEF Empty, Open
    <2>2. CASE ~gatewayMode
        <3>1. Finish("gui")
            BY <1>1, <1>3, <2>2, GuiInMode DEF OpenInv, Shapes, DeleteTables
        <3>2. pc'["network"] = pc["network"] /\ pc["gui"].at # "clear"
            BY <1>0, <1>1, <1>3, <3>1, FinishType DEF Thread
        <3>3. Building => firewall.blocked \subseteq unguarded /\ pc["network"].elems = {}
            BY <2>2, <3>2 DEF OpenInv, Empty, Building, Shapes, NetworkTask
        <3> QED BY <1>1, <2>2, <3>2, <3>3 DEF OpenInv, Empty, Open, Allowed, Building
    <2> QED BY <2>1, <2>2
<1> QED BY <1>2, <1>3 DEF Thread

LEMMA FirewallOpen ==
    ASSUME OpenInv, NEW t \in Thread, FirewallStep(t)
    PROVE  Empty' /\ Open'
<1>0. /\ TInv /\ pc[t] \in Task /\ "gui" \in Thread \ {"network"} /\ Idle.at = "idle"
      /\ {"flush", "read"} \subseteq Label
    BY DEF OpenInv, Shapes, TInv, TypeOK, Thread, Idle, Label
<1> SUFFICES ASSUME ~DeleteTables(t) PROVE Empty' /\ Open'
    BY DeleteOpen
<1>1. /\ UNCHANGED <<running, gatewayMode, unguarded>> /\ firewall'.iface = firewall.iface
      /\ pc[t].at \in {"create", "edit", "flush", "read", "add"}
    BY <1>0 DEF FirewallStep, CreateTables, EditBlocked, FlushDrops, ReadBlocked, AddDrops,
           At, disk, link, history, TInv, TypeOK
<1>2. CASE t = "gui"
    BY <1>1, <1>2, GuiInMode DEF OpenInv, Shapes, Empty, Open
<1>3. CASE t = "network"
    <2>1. firewall.iface /\ pc["network"].at # "delete"
        BY <1>0, <1>1, <1>3 DEF OpenInv, Shapes, Asleep
    <2>2. CASE CreateTables(t)
        <3>1. /\ kernel'.drops = kernel.drops /\ firewall' = firewall
              /\ pc["network"].at = "create"
            BY <1>0, <1>3, <2>2 DEF CreateTables, At, TInv, TypeOK
        <3>2. /\ pc'["network"].at = "flush" /\ pc'["gui"] = pc["gui"]
              /\ pc'["network"].elems = pc["network"].elems
            BY <1>0, <1>3, <2>2, GoToType DEF CreateTables
        <3> QED BY <1>1, <2>1, <3>1, <3>2 DEF OpenInv, Empty, Open, Allowed, Building
    <2>3. CASE EditBlocked(t)
        <3>1. /\ kernel' = kernel /\ pc["network"].at = "edit"
              /\ firewall'.blocked \subseteq firewall.blocked \cup
                   IF pc["network"].op = "unblock" THEN {} ELSE {pc["network"].mac}
            BY <1>0, <1>3, <2>3 DEF EditBlocked, At, TInv, TypeOK
        <3>2. /\ pc'["network"].at = "flush" /\ pc'["gui"] = pc["gui"]
              /\ pc'["network"].elems = pc["network"].elems
            BY <1>0, <1>3, <2>3, GoToType DEF EditBlocked
        <3> QED BY <1>1, <2>1, <3>1, <3>2 DEF OpenInv, Empty, Open, Allowed, Building
    <2>4. CASE FlushDrops(t)
        <3>1. /\ kernel'.drops = {} /\ kernel'.layer2 = kernel.layer2
              /\ firewall' = firewall /\ pc["network"].at = "flush"
            BY <1>0, <1>3, <2>4 DEF FlushDrops, At, TInv, TypeOK
        <3>2. /\ pc'["network"].at = "read" /\ pc'["gui"] = pc["gui"]
              /\ pc'["network"].elems = pc["network"].elems
            BY <1>0, <1>3, <2>4, GoToType DEF FlushDrops
        <3> QED BY <1>1, <2>1, <3>1, <3>2 DEF OpenInv, Empty, Open, Allowed, Building
    <2>5. CASE ReadBlocked(t)
        <3>1. kernel' = kernel /\ firewall' = firewall /\ pc["network"].at = "read"
            BY <1>3, <2>5 DEF ReadBlocked, At
        <3>2. /\ pc'["network"].at = "add" /\ pc'["gui"] = pc["gui"]
              /\ pc'["network"].elems = firewall.blocked
            BY <1>0, <1>3, <2>5, ReadFacts
        <3> QED BY <1>1, <2>1, <3>1, <3>2 DEF OpenInv, Empty, Open, Allowed, Building
    <2>6. CASE AddDrops(t)
        <3>1. /\ kernel'.layer2 = kernel.layer2
              /\ kernel'.drops \subseteq kernel.drops \cup pc["network"].elems
              /\ firewall' = firewall /\ pc["network"].at = "add"
            BY <1>0, <1>3, <2>6 DEF AddDrops, At, TInv, TypeOK
        <3>2. /\ pc'["network"].at \in {"list", "next", "dhcp"} /\ pc'["gui"] = pc["gui"]
              /\ pc'["network"].elems = {}
            BY <1>0, <1>3, <2>6, AddFacts
        <3> QED BY <1>1, <2>1, <3>1, <3>2 DEF OpenInv, Empty, Open, Allowed, Building
    <2> QED BY <2>2, <2>3, <2>4, <2>5, <2>6 DEF FirewallStep
<1> QED BY <1>2, <1>3 DEF Thread

LEMMA ReapplyOpen ==
    ASSUME OpenInv, NEW t \in Thread,
           ListBlacklist(t) \/ ReapplyNext(t) \/ ReapplyDone(t)
    PROVE  Empty' /\ Open'
<1>0. TInv /\ pc[t] \in Task /\ "gui" \in Thread \ {"network"} /\ Idle.at = "idle"
    BY DEF OpenInv, Shapes, TInv, TypeOK, Thread, Idle
<1>1. /\ pc[t].at \in {"list", "next"}
      /\ UNCHANGED <<running, gatewayMode, firewall, kernel>>
    BY DEF ListBlacklist, ReapplyNext, ReapplyDone, At, disk, link
<1>2. CASE t = "gui"
    BY <1>1, <1>2, GuiInMode DEF OpenInv, Shapes, Empty, Open
<1>3. CASE t = "network"
    <2>1. firewall.iface /\ pc["network"].at \notin {"delete", "create"}
        BY <1>0, <1>1, <1>3 DEF OpenInv, Shapes, Asleep
    <2>2. CASE ListBlacklist(t)
        <3>1. /\ pc'["network"].at = "next" /\ pc'["network"].elems = pc["network"].elems
              /\ pc'["gui"] = pc["gui"]
            BY <1>0, <1>3, <2>2, ListFacts
        <3>2. unguarded' = unguarded
            BY <2>2 DEF ListBlacklist
        <3> QED BY <1>1, <2>1, <3>1, <3>2 DEF OpenInv, Empty, Open, Allowed, Building
    <2>3. CASE ReapplyNext(t)
        <3>1. pc["network"].op = "activate"
            BY <1>0, <1>3, <2>3 DEF ReapplyNext, At, OpenInv, Shapes, NetworkTask, Editing
        <3>2. /\ pc'["network"].at = "edit" /\ pc'["network"].elems = pc["network"].elems
              /\ pc'["gui"] = pc["gui"]
              /\ unguarded' = unguarded \cup {pc'["network"].mac}
            BY <1>0, <1>3, <2>3, <3>1, NextFacts
        <3> QED BY <1>1, <2>1, <3>2 DEF OpenInv, Empty, Open, Allowed, Building
    <2>4. CASE ReapplyDone(t)
        <3>1. pc'["network"] = Idle /\ Idle.elems = {} /\ pc'["gui"] = pc["gui"]
            BY <1>0, <1>3, <2>4, FinishType DEF ReapplyDone, Idle
        <3>2. unguarded' = unguarded
            BY <2>4 DEF ReapplyDone, history
        <3> QED BY <1>0, <1>1, <2>1, <3>1, <3>2 DEF OpenInv, Empty, Open, Allowed, Building
    <2> QED BY <2>2, <2>3, <2>4
<1> QED BY <1>2, <1>3 DEF Thread

LEMMA NetworkOpen ==
    ASSUME OpenInv, NetworkStep
    PROVE  Empty' /\ Open'
<1>0. /\ TInv /\ "network" \in Thread /\ "gui" \in Thread \ {"network"}
      /\ pc["network"] \in Task /\ \A m \in MAC : m # NoMAC
    BY NameAssumption DEF OpenInv, Shapes, TInv, TypeOK, Thread
<1>1. UNCHANGED <<running, gatewayMode, kernel>> /\ firewall'.blocked = firewall.blocked
    BY <1>0 DEF NetworkStep, Activate, BlockDevice, EnforceStrictModeBlock, UnblockDevice,
           PossibleMacRotation, RecordBlock, UpdateBans, SetGatewayMac, disk, link, TInv, TypeOK
<1>2. CASE Activate
    <2>1. /\ running /\ ~firewall.iface /\ ~kernel.layer2 /\ kernel.drops = {}
          /\ unguarded' = unguarded
        BY <1>0, <1>2 DEF Activate, Free, history, OpenInv, Shapes, Asleep, TInv, TypeOK
    <2>2. /\ pc'["network"].at = "delete" /\ pc'["network"].elems = {}
          /\ pc'["gui"] = pc["gui"]
        BY <1>0, <1>2, BeginType DEF Activate, Label, Operation
    <2> QED BY <1>1, <2>1, <2>2 DEF OpenInv, Empty, Open, Allowed, Building
<1>3. ASSUME NEW m \in MAC, BlockDevice(m) \/ EnforceStrictModeBlock(m)
      PROVE  Empty' /\ Open'
    BY <1>1, <1>3 DEF BlockDevice, EnforceStrictModeBlock, Empty, Open
<1>4. ASSUME NEW m \in MAC, NEW p \in MAC, PossibleMacRotation(p, m)
      PROVE  Empty' /\ Open'
    <2>1. /\ firewall' = firewall /\ firewall.iface /\ unguarded' = unguarded \cup {m}
          /\ pc["network"].at = "idle"
        BY <1>4 DEF PossibleMacRotation, NetworkReady, Free
    <2>2. /\ pc'["network"].at = "record" /\ pc'["network"].mac = m
          /\ pc'["network"].elems = {} /\ pc'["gui"] = pc["gui"]
        BY <1>0, <1>4, BeginType DEF PossibleMacRotation, Label, Operation
    <2> QED BY <1>1, <2>1, <2>2 DEF OpenInv, Empty, Open, Allowed, Building
<1>5. ASSUME NEW m \in MAC, UnblockDevice(m)
      PROVE  Empty' /\ Open'
    <2>1. /\ firewall' = firewall /\ firewall.iface /\ unguarded' = unguarded
          /\ pc["network"].at = "idle"
        BY <1>5 DEF UnblockDevice, NetworkReady, Free, history
    <2>2. /\ pc'["network"].at = "edit" /\ pc'["network"].op = "unblock"
          /\ pc'["network"].elems = {} /\ pc'["gui"] = pc["gui"]
        BY <1>0, <1>5, BeginType DEF UnblockDevice, Label, Operation
    <2> QED BY <1>1, <2>1, <2>2 DEF OpenInv, Empty, Open, Allowed, Building
<1>6. CASE RecordBlock
    <2>1. /\ pc["network"].at = "record" /\ firewall' = firewall /\ unguarded' = unguarded
          /\ firewall.iface
        BY <1>6 DEF RecordBlock, At, OpenInv, Shapes, Asleep, Idle
    <2>2. pc["network"].mac # NoMAC /\ "edit" \in Label
        BY <1>0, <2>1 DEF TInv, TaskOK, Label
    <2>3. /\ pc'["network"].at = "edit" /\ pc'["network"].op = pc["network"].op
          /\ pc'["network"].mac = pc["network"].mac
          /\ pc'["network"].elems = pc["network"].elems /\ pc'["gui"] = pc["gui"]
        BY <1>0, <1>6, <2>2, GoToType DEF RecordBlock
    <2> QED BY <1>1, <2>1, <2>3 DEF OpenInv, Empty, Open, Allowed, Building
<1>7. CASE UpdateBans
    <2>1. /\ pc["network"].at = "dhcp" /\ firewall' = firewall /\ unguarded' = unguarded
          /\ firewall.iface /\ Idle.at = "idle" /\ Idle.elems = {} /\ "next" \in Label
        BY <1>7 DEF UpdateBans, At, history, OpenInv, Shapes, Asleep, Idle, Label
    <2>2. /\ pc'["network"].at \in {"next", "idle"} /\ pc'["gui"] = pc["gui"]
          /\ pc'["network"].elems \subseteq pc["network"].elems
        BY <1>0, <1>7, <2>1, GoToType, FinishType DEF UpdateBans
    <2> QED BY <1>1, <2>1, <2>2 DEF OpenInv, Empty, Open, Allowed, Building
<1>8. ASSUME NEW g \in Gateway, SetGatewayMac(g)
      PROVE  Empty' /\ Open'
    <2>1. UNCHANGED <<firewall, pc, unguarded>>
        BY <1>8 DEF SetGatewayMac
    <2> QED BY <1>1, <2>1 DEF OpenInv, Empty, Open, Allowed, Building
<1> QED BY <1>2, <1>3, <1>4, <1>5, <1>6, <1>7, <1>8, <1>0 DEF NetworkStep

LEMMA GuiOpen ==
    ASSUME OpenInv, GuiStep
    PROVE  Empty' /\ Open'
<1>0. /\ TInv /\ "gui" \in Thread /\ "network" \in Thread \ {"gui"} /\ pc["gui"] \in Task
      /\ {"engage", "disengage", "clear", "delete"} \subseteq Label
      /\ {"start", "stop"} \subseteq Operation
    BY DEF OpenInv, Shapes, TInv, TypeOK, Thread, Label, Operation
<1>1. CASE StartServer \/ StopServer
    <2>1. UNCHANGED <<running, gatewayMode, firewall, kernel, unguarded>> /\ pc["gui"].at = "idle"
        BY <1>1 DEF StartServer, StopServer, disk, link, history, Free
    <2>2. CASE gatewayMode
        BY <2>1, <2>2 DEF Empty, Open
    <2>3. CASE ~gatewayMode
        <3>1. pc' = pc \/ Begin("gui", "engage", "start", NoMAC)
            BY <1>1, <2>3 DEF StartServer, StopServer
        <3>2. pc'["network"] = pc["network"] /\ pc'["gui"].at \in {"idle", "engage"}
            BY <1>0, <2>1, <3>1, BeginType
        <3> QED BY <2>1, <3>2 DEF OpenInv, Empty, Open, Allowed, Building
    <2> QED BY <2>2, <2>3
<1>2. CASE EngageGateway
    BY <1>2 DEF EngageGateway, Empty, Open
<1>3. CASE DisengageGateway
    <2>1. pc'["gui"].at = "clear"
        BY <1>0, <1>3, GoToType DEF DisengageGateway
    <2> QED BY <2>1 DEF Empty, Open
<1>4. CASE ClearBlocked
    <2>1. pc'["gui"].at = "delete" /\ firewall'.blocked = {}
        BY <1>0, <1>4, GoToType DEF ClearBlocked, TInv, TypeOK
    <2> QED BY <2>1 DEF Empty, Open
<1> QED BY <1>1, <1>2, <1>3, <1>4 DEF GuiStep

LEMMA OpenKept == OpenInv /\ [Next]_vars => OpenInv'
<1> SUFFICES ASSUME OpenInv, [Next]_vars PROVE OpenInv'
    OBVIOUS
<1>0. Shapes'
    BY ShapesKept DEF OpenInv
<1>1. ASSUME NEW t \in Thread,
             FirewallStep(t) \/ ListBlacklist(t) \/ ReapplyNext(t) \/ ReapplyDone(t)
      PROVE  Empty' /\ Open'
    BY <1>1, FirewallOpen, ReapplyOpen
<1>2. CASE Crash \/ CloseEvent
    <2>1. ~running' /\ firewall'.blocked = {}
        BY <1>2 DEF Crash, CloseEvent, Forget, NewFirewall
    <2> QED BY <1>0, <2>1 DEF OpenInv, Empty, Open
<1>3. CASE Boot
    <2>1. /\ ~kernel'.layer2 /\ UNCHANGED <<pc, firewall, gatewayMode, unguarded>>
          /\ ~running /\ "network" \in Thread /\ Idle.at = "idle"
        BY <1>3 DEF Boot, memory, link, history, NoTables, Thread, Idle
    <2>2. pc["network"].at = "idle"
        BY <2>1 DEF OpenInv, Shapes, Asleep
    <2>3. ~Building'
        BY <2>1, <2>2 DEF Building
    <2>4. Empty'
        BY <2>1, <2>2, <2>3 DEF OpenInv, Empty
    <2> QED BY <1>0, <2>1, <2>3, <2>4 DEF OpenInv, Open
<1>4. CASE UNCHANGED vars
    <2>1. UNCHANGED <<running, gatewayMode, firewall, kernel, pc, unguarded>>
        BY <1>4 DEF vars, memory, disk, link, history
    <2>2. (Building' <=> Building) /\ (Allowed' <=> Allowed)
        BY <2>1 DEF Building, Allowed
    <2> QED BY <1>0, <2>1, <2>2 DEF OpenInv, Empty, Open
<1>5. CASE NetworkStep \/ GuiStep
    BY <1>0, <1>5, NetworkOpen, GuiOpen DEF OpenInv
<1> QED BY <1>0, <1>1, <1>2, <1>3, <1>4, <1>5 DEF Next, OpenInv

\* A block allowed because the mode was on leaves no rule when the mode goes
\* off in the middle of it, nor does a crash: in a state in which nobody works
\* and the mode is off, only calls that ignore the mode have left drops.
THEOREM OffIsOpen == Spec => []OffMeansOpen
<1>1. OpenInv => OffMeansOpen
    <2>1. OpenInv => (kernel.drops # {} => kernel.layer2)
        BY DEF OpenInv, Shapes, TInv, TypeOK
    <2> QED BY <2>1 DEF OpenInv, OffMeansOpen, Quiet, Open, Allowed, Thread
<1> QED BY <1>1, OpenStart, OpenKept, PTL DEF Spec

-----------------------------------------------------------------------------
(* What the database lists is dropped.                                     *)

\* The mode is off once the GUI thread has begun to empty the firewall.
ModeTask ==
    /\ gatewayMode => /\ running /\ pc["gui"].at # "clear"
                      /\ ~(pc["gui"].at = "delete" /\ pc["gui"].op = "stop")
    /\ pc["gui"].at # "idle" => pc["gui"].op \in {"start", "stop"}
    /\ pc["gui"].op = "stop" => pc["gui"].at \in {"disengage", "clear", "delete"}

\* Gateway mode has its tables, or a thread is creating them.
Rebuilt ==
    firewall.iface /\ gatewayMode =>
        kernel.layer2 \/ \E t \in Thread : pc[t].at \in {"delete", "create"}

\* Once gateway mode has read the list, each of its devices is blocked or is
\* still to be: the GUI thread has it to re-apply, or a thread is about to edit.
Underway(m) ==
    \/ m \in firewall.blocked
    \/ m \in pc["gui"].todo
    \/ \E t \in Thread : pc[t].at = "edit" /\ pc[t].op # "unblock" /\ pc[t].mac = m

Reapplied == applied => gatewayMode /\ \A m \in Listed(gatewayMac) : Underway(m)

ListInv == FInv /\ Shapes /\ ModeTask /\ Rebuilt /\ Reapplied

LEMMA ListStart == Init => ListInv
<1> SUFFICES ASSUME Init PROVE ListInv
    OBVIOUS
<1>1. ~applied /\ ~gatewayMode /\ pc["gui"].at = "idle" /\ pc["gui"].op = "none"
    BY DEF Init, Thread, Idle
<1> QED BY <1>1, FreedInit, ShapesStart DEF ListInv, ModeTask, Rebuilt, Reapplied

LEMMA FirewallLists ==
    ASSUME ListInv, NEW t \in Thread, FirewallStep(t)
    PROVE  ModeTask' /\ Rebuilt' /\ Reapplied'
<1>0. /\ TInv /\ pc[t] \in Task /\ "gui" \in Thread /\ "network" \in Thread
      /\ Idle.at = "idle" /\ Idle.op = "none" /\ Idle.todo = {}
    BY DEF ListInv, FInv, TInv, TypeOK, Thread, Idle
<1>1. /\ UNCHANGED <<running, gatewayMode, gatewayMac, blacklist, applied>>
      /\ firewall'.iface = firewall.iface
      /\ pc[t].at \in {"delete", "create", "edit", "flush", "read", "add"}
    BY <1>0 DEF FirewallStep, DeleteTables, CreateTables, EditBlocked, FlushDrops, ReadBlocked,
           AddDrops, At, disk, link, history, TInv, TypeOK
<1>2. ModeTask'
    BY <1>0, <1>1, FirewallMoves DEF ListInv, ModeTask, Editing, Thread
<1>3. pc[t].at = "delete" /\ pc[t].op = "stop" => ~gatewayMode /\ t = "gui"
    BY <1>0 DEF ListInv, ModeTask, Shapes, NetworkTask, Editing, Thread
<1>4. Rebuilt'
    <2>1. CASE DeleteTables(t)
        <3>1. pc[t].op # "stop" => pc'[t].at = "create"
            BY <1>0, <2>1, GoToType DEF DeleteTables, Label
        <3> QED BY <1>1, <1>3, <2>1, <3>1 DEF DeleteTables, At, Rebuilt
    <2>2. CASE CreateTables(t)
        <3>1. firewall.iface => kernel'.layer2
            BY <1>0, <2>2 DEF CreateTables, TInv, TypeOK
        <3> QED BY <1>1, <3>1 DEF Rebuilt
    <2>3. CASE ~DeleteTables(t) /\ ~CreateTables(t)
        <3>1. kernel'.layer2 = kernel.layer2 /\ pc[t].at \notin {"delete", "create"}
            BY <1>0, <2>3 DEF FirewallStep, EditBlocked, FlushDrops, ReadBlocked, AddDrops, At,
               TInv, TypeOK
        <3>2. \A u \in Thread \ {t} : pc'[u] = pc[u]
            BY <1>0, FirewallMoves
        <3> QED BY <1>1, <3>1, <3>2 DEF ListInv, Rebuilt
    <2> QED BY <2>1, <2>2, <2>3
<1>5. Reapplied'
    <2> SUFFICES ASSUME applied, NEW m \in MAC, <<gatewayMac, m>> \in blacklist
                 PROVE  Underway(m)'
        BY <1>1 DEF ListInv, Reapplied, Listed
    <2>1. Underway(m) /\ gatewayMode
        BY DEF ListInv, Reapplied, Listed
    <2>2. pc'["gui"].todo = pc["gui"].todo
        BY <1>0, <1>3, <2>1, FirewallMoves DEF Thread
    <2>3. CASE EditBlocked(t)
        <3>1. /\ pc[t].at = "edit"
              /\ firewall'.blocked = IF pc[t].op = "unblock" THEN firewall.blocked \ {pc[t].mac}
                                     ELSE firewall.blocked \cup {pc[t].mac}
            BY <1>0, <2>3 DEF EditBlocked, At, TInv, TypeOK
        <3>2. pc[t].op = "unblock" => pc[t].mac # m
            BY <3>1 DEF ListInv, FInv, UnblockTask
        <3>3. \A u \in Thread \ {t} : pc'[u] = pc[u]
            BY <1>0, FirewallMoves
        <3> QED BY <2>1, <2>2, <3>1, <3>2, <3>3 DEF Underway
    <2>4. CASE ~EditBlocked(t)
        <3>1. firewall' = firewall /\ pc[t].at # "edit"
            BY <2>4 DEF FirewallStep, DeleteTables, CreateTables, FlushDrops, ReadBlocked,
               AddDrops, At
        <3>2. \A u \in Thread \ {t} : pc'[u] = pc[u]
            BY <1>0, FirewallMoves
        <3> QED BY <2>1, <2>2, <3>1, <3>2 DEF Underway
    <2> QED BY <2>3, <2>4
<1> QED BY <1>2, <1>4, <1>5

LEMMA ReapplyLists ==
    ASSUME ListInv, NEW t \in Thread,
           ListBlacklist(t) \/ ReapplyNext(t) \/ ReapplyDone(t)
    PROVE  ModeTask' /\ Rebuilt' /\ Reapplied'
<1>0. /\ TInv /\ pc[t] \in Task /\ "gui" \in Thread /\ "network" \in Thread
      /\ Idle.at = "idle" /\ Idle.op = "none" /\ Idle.todo = {}
    BY DEF ListInv, FInv, TInv, TypeOK, Thread, Idle
<1>1. /\ UNCHANGED <<running, gatewayMode, gatewayMac, blacklist, firewall, kernel>>
      /\ pc[t].at \in {"list", "next"}
    BY DEF ListBlacklist, ReapplyNext, ReapplyDone, At, disk, link
<1>2. /\ \A u \in Thread \ {t} : pc'[u] = pc[u]
      /\ \/ pc'[t].at \in {"next", "edit"} /\ pc'[t].op = pc[t].op
         \/ pc'[t] = Idle
    BY <1>0, ListFacts, NextFacts, FinishType DEF ReapplyDone
<1>3. ModeTask'
    BY <1>0, <1>1, <1>2 DEF ListInv, ModeTask, Thread
<1>4. Rebuilt'
    BY <1>1, <1>2 DEF ListInv, Rebuilt
<1>5. Reapplied'
    <2>1. CASE ListBlacklist(t)
        <3>1. applied' => applied \/ pc[t].op = "start"
            BY <2>1 DEF ListBlacklist
        <3>2. pc[t].op = "start" => t = "gui" /\ gatewayMode
            BY <1>0, <1>1 DEF ListInv, Shapes, NetworkTask, GuiTask, Editing, Thread, Idle
        <3>3. CASE t = "gui" /\ pc[t].op = "start"
            <4>1. pc'["gui"].todo = Listed(gatewayMac)
                BY <1>0, <2>1, <3>3, ListFacts
            <4> QED BY <1>1, <3>2, <3>3, <4>1 DEF Reapplied, Underway, Listed
        <3>4. CASE t = "network"
            BY <1>0, <1>1, <1>2, <3>1, <3>2, <3>4 DEF ListInv, Reapplied, Underway, Listed, Thread
        <3> QED BY <1>1, <3>3, <3>4 DEF ListInv, ModeTask, Thread
    <2>2. CASE ReapplyNext(t)
        <3>1. /\ pc'[t].at = "edit" /\ pc'[t].op = pc[t].op
              /\ pc'[t].todo = pc[t].todo \ {pc'[t].mac}
            BY <1>0, <2>2, NextFacts
        <3>2. pc[t].op # "unblock" /\ applied' = applied
            BY <1>1, <2>2 DEF ReapplyNext, ListInv, FInv, UnblockTask, Editing
        <3>3. ASSUME NEW m \in MAC, Underway(m) PROVE Underway(m)'
            BY <1>1, <1>2, <3>1, <3>2, <3>3 DEF Underway, Thread
        <3> QED BY <1>1, <3>2, <3>3 DEF ListInv, Reapplied, Listed
    <2>3. CASE ReapplyDone(t)
        <3>1. pc'[t].todo = pc[t].todo /\ applied' = applied
            BY <1>0, <2>3, FinishType DEF ReapplyDone, history
        <3>2. ASSUME NEW m \in MAC, Underway(m) PROVE Underway(m)'
            BY <1>1, <1>2, <3>1, <3>2 DEF Underway, Thread
        <3> QED BY <1>1, <3>1, <3>2 DEF ListInv, Reapplied, Listed
    <2> QED BY <2>1, <2>2, <2>3
<1> QED BY <1>3, <1>4, <1>5

\* The network thread takes up a task or goes on with one, edits nothing, and
\* the list grows by no device that is not about to be edited.
LEMMA NetworkKeeps ==
    ASSUME ListInv,
           pc'["gui"] = pc["gui"], firewall' = firewall, kernel' = kernel,
           pc["network"].at \notin {"edit", "delete", "create"},
           UNCHANGED <<running, gatewayMode, gatewayMac, applied>>,
           \A m \in MAC : <<gatewayMac, m>> \in blacklist' =>
               \/ <<gatewayMac, m>> \in blacklist
               \/ /\ pc'["network"].at = "edit" /\ pc'["network"].op # "unblock"
                  /\ pc'["network"].mac = m
    PROVE  ModeTask' /\ Rebuilt' /\ Reapplied'
<1>1. ModeTask' /\ Rebuilt'
    BY DEF ListInv, ModeTask, Rebuilt, Thread
<1>2. ASSUME NEW m \in MAC, Underway(m) PROVE Underway(m)'
    BY <1>2 DEF Underway, Thread
<1>3. \A m \in MAC : pc'["network"].at = "edit" /\ pc'["network"].op # "unblock"
                       /\ pc'["network"].mac = m => Underway(m)'
    BY DEF Underway, Thread
<1>4. Reapplied'
    BY <1>2, <1>3 DEF ListInv, Reapplied, Listed
<1> QED BY <1>1, <1>4

LEMMA NetworkLists ==
    ASSUME ListInv, NetworkStep
    PROVE  ModeTask' /\ Rebuilt' /\ Reapplied'
<1>0. /\ TInv /\ "network" \in Thread /\ "gui" \in Thread \ {"network"}
      /\ pc["network"] \in Task /\ \A m \in MAC : m # NoMAC
      /\ Idle.at = "idle"
    BY NameAssumption DEF ListInv, FInv, TInv, TypeOK, Thread, Idle
<1>1. CASE Activate
    <2>1. /\ UNCHANGED <<running, gatewayMode, gatewayMac, blacklist, kernel, applied>>
          /\ firewall'.blocked = firewall.blocked
          /\ pc["network"].at = "idle"
        BY <1>0, <1>1 DEF Activate, Free, disk, link, history, TInv, TypeOK
    <2>2. pc'["network"].at = "delete" /\ pc'["gui"] = pc["gui"]
        BY <1>0, <1>1, BeginType DEF Activate, Label, Operation
    <2>3. ModeTask' /\ Rebuilt'
        BY <1>0, <2>1, <2>2 DEF ListInv, ModeTask, Rebuilt
    <2>4. ASSUME NEW m \in MAC, Underway(m) PROVE Underway(m)'
        BY <2>1, <2>2, <2>4 DEF Underway, Thread
    <2> QED BY <2>1, <2>3, <2>4 DEF ListInv, Reapplied, Listed
<1>2. ASSUME NEW m \in MAC, NEW p \in MAC,
             BlockDevice(m) \/ EnforceStrictModeBlock(m) \/ PossibleMacRotation(p, m)
      PROVE  ModeTask' /\ Rebuilt' /\ Reapplied'
    <2>1. /\ UNCHANGED <<running, gatewayMode, gatewayMac, blacklist, firewall, kernel, applied>>
          /\ Begin("network", "record", "block", m) /\ pc["network"].at = "idle"
        BY <1>2 DEF BlockDevice, EnforceStrictModeBlock, PossibleMacRotation,
           NetworkReady, Free, disk, link, history
    <2>2. pc'["gui"] = pc["gui"]
        BY <1>0, <2>1, BeginType DEF Label, Operation
    <2> QED BY <2>1, <2>2, NetworkKeeps
<1>3. ASSUME NEW m \in MAC, UnblockDevice(m)
      PROVE  ModeTask' /\ Rebuilt' /\ Reapplied'
    <2>1. /\ UNCHANGED <<running, gatewayMode, gatewayMac, firewall, kernel, applied>>
          /\ blacklist' \subseteq blacklist /\ pc["network"].at = "idle"
        BY <1>3 DEF UnblockDevice, NetworkReady, Free, link, history
    <2>2. pc'["gui"] = pc["gui"]
        BY <1>0, <1>3, BeginType DEF UnblockDevice, Label, Operation
    <2> QED BY <2>1, <2>2, NetworkKeeps
<1>4. CASE RecordBlock
    <2>1. /\ UNCHANGED <<running, gatewayMode, gatewayMac, firewall, kernel, applied>>
          /\ blacklist' = blacklist \cup {<<gatewayMac, pc["network"].mac>>}
          /\ pc["network"].at = "record"
        BY <1>4 DEF RecordBlock, At, link
    <2>2. pc["network"].mac # NoMAC /\ "edit" \in Label
        BY <1>0, <2>1 DEF TInv, TaskOK, Label
    <2>3. /\ pc'["network"].at = "edit" /\ pc'["network"].op = pc["network"].op
          /\ pc'["network"].mac = pc["network"].mac /\ pc'["gui"] = pc["gui"]
        BY <1>0, <1>4, <2>2, GoToType DEF RecordBlock
    <2>4. pc["network"].op # "unblock"
        BY <1>0, <2>1 DEF ListInv, FInv, UnblockTask, Editing
    <2> QED BY <2>1, <2>3, <2>4, NetworkKeeps
<1>5. CASE UpdateBans
    <2>1. /\ UNCHANGED <<running, gatewayMode, gatewayMac, blacklist, firewall, kernel, applied>>
          /\ pc["network"].at = "dhcp"
        BY <1>5 DEF UpdateBans, At, disk, link, history
    <2>2. pc'["gui"] = pc["gui"]
        BY <1>0, <1>5, GoToType, FinishType DEF UpdateBans, Label
    <2> QED BY <2>1, <2>2, NetworkKeeps
<1>6. ASSUME NEW g \in Gateway, SetGatewayMac(g)
      PROVE  ModeTask' /\ Rebuilt' /\ Reapplied'
    BY <1>6 DEF SetGatewayMac, ListInv, ModeTask, Rebuilt, Reapplied
<1> QED BY <1>0, <1>1, <1>2, <1>3, <1>4, <1>5, <1>6 DEF NetworkStep

LEMMA GuiLists ==
    ASSUME ListInv, GuiStep
    PROVE  ModeTask' /\ Rebuilt' /\ Reapplied'
<1>0. /\ TInv /\ "gui" \in Thread /\ "network" \in Thread \ {"gui"} /\ pc["gui"] \in Task
      /\ {"engage", "disengage", "clear", "delete"} \subseteq Label
      /\ {"start", "stop"} \subseteq Operation
    BY DEF ListInv, FInv, TInv, TypeOK, Thread, Label, Operation
<1>1. CASE StartServer \/ StopServer
    <2>1. /\ UNCHANGED <<running, gatewayMode, gatewayMac, blacklist, firewall, kernel, applied>>
          /\ pc["gui"].at = "idle" /\ pc["gui"].todo = {}
        BY <1>0, <1>1 DEF StartServer, StopServer, disk, link, history, Free, TInv, TaskOK, Idle
    <2>2. \/ pc' = pc
          \/ Begin("gui", "engage", "start", NoMAC) \/ Begin("gui", "disengage", "stop", NoMAC)
        BY <1>1 DEF StartServer, StopServer
    <2>3. /\ pc'["network"] = pc["network"]
          /\ \/ pc'["gui"] = pc["gui"]
             \/ pc'["gui"].at = "engage" /\ pc'["gui"].op = "start"
             \/ pc'["gui"].at = "disengage" /\ pc'["gui"].op = "stop"
        BY <1>0, <2>1, <2>2, BeginType
    <2>4. ModeTask' /\ Rebuilt'
        BY <2>1, <2>3 DEF ListInv, ModeTask, Rebuilt, Thread
    <2>5. ASSUME NEW m \in MAC, Underway(m) PROVE Underway(m)'
        BY <2>1, <2>3, <2>5 DEF Underway, Thread
    <2> QED BY <2>1, <2>4, <2>5 DEF ListInv, Reapplied, Listed
<1>2. CASE EngageGateway
    <2>1. /\ UNCHANGED <<running, gatewayMac, blacklist, applied>> /\ running
          /\ firewall'.blocked = firewall.blocked /\ gatewayMode' /\ pc["gui"].at = "engage"
        BY <1>0, <1>2 DEF EngageGateway, At, disk, history, ListInv, Shapes, Asleep, Idle,
           TInv, TypeOK
    <2>2. /\ pc'["network"] = pc["network"] /\ pc'["gui"].at = "delete"
          /\ pc'["gui"].op = pc["gui"].op /\ pc'["gui"].todo = pc["gui"].todo
        BY <1>0, <1>2, GoToType DEF EngageGateway
    <2>3. ModeTask' /\ Rebuilt'
        BY <1>0, <2>1, <2>2 DEF ListInv, ModeTask, Rebuilt
    <2>4. ASSUME NEW m \in MAC, Underway(m) PROVE Underway(m)'
        BY <2>1, <2>2, <2>4 DEF Underway, Thread
    <2> QED BY <2>1, <2>3, <2>4 DEF ListInv, Reapplied, Listed
<1>3. CASE DisengageGateway
    <2>1. pc'["gui"].at = "clear" /\ pc'["gui"].op = pc["gui"].op /\ pc["gui"].at = "disengage"
        BY <1>0, <1>3, GoToType DEF DisengageGateway, At
    <2> QED BY <1>3, <2>1 DEF DisengageGateway, ListInv, ModeTask, Rebuilt, Reapplied
<1>4. CASE ClearBlocked
    <2>1. /\ pc'["gui"].at = "delete" /\ pc'["gui"].op = pc["gui"].op /\ pc["gui"].at = "clear"
          /\ gatewayMode' = gatewayMode /\ applied' = applied
        BY <1>0, <1>4, GoToType DEF ClearBlocked, At, link, history
    <2> QED BY <2>1 DEF ListInv, ModeTask, Rebuilt, Reapplied
<1> QED BY <1>1, <1>2, <1>3, <1>4 DEF GuiStep

LEMMA ListKept == ListInv /\ [Next]_vars => ListInv'
<1> SUFFICES ASSUME ListInv, [Next]_vars PROVE ModeTask' /\ Rebuilt' /\ Reapplied'
    BY FreedStep, ShapesKept DEF ListInv
<1>1. ASSUME NEW t \in Thread,
             FirewallStep(t) \/ ListBlacklist(t) \/ ReapplyNext(t) \/ ReapplyDone(t)
      PROVE  ModeTask' /\ Rebuilt' /\ Reapplied'
    BY <1>1, FirewallLists, ReapplyLists
<1>2. CASE Crash \/ CloseEvent
    <2>1. ~gatewayMode' /\ ~applied' /\ pc'["gui"].at = "idle" /\ pc'["gui"].op = "none"
        BY <1>2 DEF Crash, CloseEvent, Forget, Thread, Idle
    <2> QED BY <2>1 DEF ModeTask, Rebuilt, Reapplied
<1>3. CASE Boot
    <2>1. /\ UNCHANGED <<pc, gatewayMode, applied>> /\ ~running
        BY <1>3 DEF Boot, memory, link, history
    <2> QED BY <2>1 DEF ListInv, ModeTask, Rebuilt, Reapplied
<1>4. CASE UNCHANGED vars
    <2>1. UNCHANGED <<running, gatewayMac, gatewayMode, blacklist, firewall, kernel, pc, applied>>
        BY <1>4 DEF vars, memory, disk, link, history
    <2>2. \A m \in MAC : Underway(m)' <=> Underway(m)
        BY <2>1 DEF Underway
    <2> QED BY <2>1, <2>2 DEF ListInv, ModeTask, Rebuilt, Reapplied, Listed
<1> QED BY <1>1, <1>2, <1>3, <1>4, NetworkLists, GuiLists DEF Next

\* Once both threads are through, every device the database lists for the
\* network on which gateway mode was started is dropped: a block that runs while
\* the firewall is rebuilt falls neither between the new tables and the list that
\* is read, nor between the database and the memory.
THEOREM BlacklistIsEnforced == Spec => []BlacklistEnforced
<1>1. ListInv /\ TInv /\ Covered => BlacklistEnforced
    <2> SUFFICES ASSUME ListInv, TInv, Covered, Quiet, gatewayMode, applied, firewall.iface,
                        NEW m \in Listed(gatewayMac)
                 PROVE  m \in kernel.drops
        BY DEF BlacklistEnforced
    <2>1. \A t \in Thread : pc[t].at = "idle" /\ pc[t].todo = {}
        BY DEF Quiet, TInv, TaskOK, Idle
    <2>2. kernel.layer2
        BY <2>1 DEF ListInv, Rebuilt
    <2>3. m \in firewall.blocked
        BY <2>1 DEF ListInv, Reapplied, Underway, Thread
    <2> QED BY <2>2, <2>3 DEF Covered, Quiet, Pending
<1>2. Init => Covered
    BY DEF Init, NewFirewall, Covered
<1>3. ListInv => TInv
    BY DEF ListInv, Shapes
<1> QED BY <1>1, <1>2, <1>3, ListStart, ListKept, CoveredStep, PTL DEF Spec

=============================================================================
