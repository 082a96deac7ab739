-------------------------- MODULE BlockEnforcement --------------------------
(***************************************************************************)
(* Blocking a device: NetworkManager records it in the database, the       *)
(* FirewallManager drops its frames with nftables and the DHCPManager      *)
(* refuses it a lease.  The network thread blocks and unblocks; the GUI    *)
(* thread starts and stops the DHCP server and, with it, gateway mode,     *)
(* which rebuilds the firewall.  No lock protects what the two share, and  *)
(* an update of the kernel's set takes several commands, so "pc" says      *)
(* where each thread stands between two accesses.                          *)
(* nft is taken to be available and its commands to succeed.               *)
(***************************************************************************)
EXTENDS Naturals, FiniteSets

CONSTANTS
    MAC,        \* hardware addresses
    Host,       \* m_myMac
    NoMAC,      \* no address
    Known,      \* devices the database remembers for this interface
    Gateway,    \* gateways' addresses, the keys of the networks
    NoGateway,  \* m_gatewayMac while the gateway is unknown
    MaxListed   \* bound: rows of the blacklist

ASSUME NameAssumption ==
    /\ Host \in MAC /\ NoMAC \notin MAC
    /\ Known \subseteq MAC
    /\ NoGateway \notin Gateway
    /\ MaxListed \in Nat

VARIABLES
    running,     \* the program is up
    blacklist,   \* the database's table: <<network, device>> pairs
    gatewayMac,  \* NetworkManager::m_gatewayMac
    gatewayMode, \* NetworkManager::m_gatewayModeActive
    firewall,    \* FirewallManager: m_blockedMACs, m_interface set, m_active
    kernel,      \* nftables: the netdev table is there, what its set holds
    dhcpBanned,  \* DHCPManager::m_blockedMACs
    server,      \* m_dhcpThread is there, its m_blockedMACs
    pc,          \* what each thread is doing
    applied,     \* history: gateway mode re-applied the current network's list
    unguarded,   \* history: devices blocked by a call that ignores the mode
    freed        \* history: devices unblocked on this network, with the GUI
                 \* thread at rest, and not blocked again

disk == <<running, blacklist>>
link == <<gatewayMac, gatewayMode>>
dhcp == <<dhcpBanned, server>>
history == <<applied, unguarded, freed>>
memory == <<link, firewall, dhcp, pc, history>>
vars == <<disk, kernel, memory>>

Network == Gateway \cup {NoGateway}
Thread == {"network", "gui"}
Label == {"idle", "record", "edit", "flush", "read", "add", "dhcp",
          "delete", "create", "list", "next", "engage", "disengage", "clear"}
Operation == {"none", "block", "unblock", "activate", "start", "stop"}
Task == [at : Label, op : Operation, mac : MAC \cup {NoMAC},
         todo : SUBSET MAC,   \* entries still to re-apply
         elems : SUBSET MAC]  \* what the next "add element" holds
Idle == [at |-> "idle", op |-> "none", mac |-> NoMAC, todo |-> {}, elems |-> {}]

TypeOK ==
    /\ running \in BOOLEAN
    /\ blacklist \subseteq Network \X MAC
    /\ gatewayMac \in Network
    /\ gatewayMode \in BOOLEAN
    /\ firewall \in [blocked : SUBSET MAC, iface : BOOLEAN, active : BOOLEAN]
    /\ kernel \in [layer2 : BOOLEAN, drops : SUBSET MAC]
    /\ kernel.drops # {} => kernel.layer2
    /\ dhcpBanned \subseteq MAC
    /\ server \in [up : BOOLEAN, banned : SUBSET MAC]
    /\ pc \in [Thread -> Task]
    /\ applied \in BOOLEAN
    /\ unguarded \subseteq MAC /\ freed \subseteq MAC

Listed(n) == {m \in MAC : <<n, m>> \in blacklist}

NewFirewall == [blocked |-> {}, iface |-> FALSE, active |-> FALSE]
NoServer == [up |-> FALSE, banned |-> {}]
NoTables == [layer2 |-> FALSE, drops |-> {}]

\* A fresh program over the database that earlier runs left.
Init ==
    /\ running = TRUE
    /\ blacklist \in SUBSET (Network \X (MAC \ {Host}))
    /\ Cardinality(blacklist) <= MaxListed
    /\ gatewayMac = NoGateway /\ gatewayMode = FALSE
    /\ firewall = NewFirewall /\ kernel = NoTables
    /\ dhcpBanned = {} /\ server = NoServer
    /\ pc = [t \in Thread |-> Idle]
    /\ applied = FALSE /\ unguarded = {} /\ freed = {}

-----------------------------------------------------------------------------
(* Threads.                                                                *)

Free(t) == running /\ pc[t].at = "idle"
At(t, l) == pc[t].at = l
Becomes(t, task) == pc' = [pc EXCEPT ![t] = task]
Begin(t, l, o, m) ==
    Becomes(t, [at |-> l, op |-> o, mac |-> m, todo |-> {}, elems |-> {}])
GoTo(t, l) == Becomes(t, [pc[t] EXCEPT !.at = l])
Finish(t) == Becomes(t, Idle)

\* Events of devices are handled once "activate" has set the interface.
NetworkReady == Free("network") /\ firewall.iface
Room == Cardinality(blacklist) < MaxListed

-----------------------------------------------------------------------------
(* FirewallManager, run by either thread.                                  *)

\* initFirewall deletes the tables of earlier runs; unblockAll ends with it.
DeleteTables(t) ==
    /\ At(t, "delete")
    /\ kernel' = NoTables
    /\ IF pc[t].op = "stop" THEN Finish(t) ELSE GoTo(t, "create")
    /\ UNCHANGED <<disk, link, firewall, dhcp, history>>

\* "add table", "add set" and "add rule" keep what is already there.
CreateTables(t) ==
    /\ At(t, "create")
    /\ kernel' = [kernel EXCEPT !.layer2 = @ \/ firewall.iface]
    /\ GoTo(t, "flush")
    /\ UNCHANGED <<disk, link, firewall, dhcp, history>>

\* blockMAC and unblockMAC, up to the call of syncBlockedMACs.
EditBlocked(t) ==
    /\ At(t, "edit")
    /\ firewall' = [firewall EXCEPT !.blocked =
                      IF pc[t].op = "unblock" THEN @ \ {pc[t].mac}
                                              ELSE @ \cup {pc[t].mac}]
    /\ freed' = IF pc[t].op = "unblock" /\ At("gui", "idle")
                THEN freed \cup {pc[t].mac} ELSE freed
    /\ GoTo(t, "flush")
    /\ UNCHANGED <<disk, link, kernel, dhcp, applied, unguarded>>

\* syncBlockedMACs is three steps: flush the set, read m_blockedMACs, add.
FlushDrops(t) ==
    /\ At(t, "flush")
    /\ kernel' = [kernel EXCEPT !.drops = {}]
    /\ GoTo(t, "read")
    /\ UNCHANGED <<disk, link, firewall, dhcp, history>>

ReadBlocked(t) ==
    /\ At(t, "read")
    /\ Becomes(t, [pc[t] EXCEPT !.elems = firewall.blocked, !.at = "add"])
    /\ UNCHANGED <<disk, link, firewall, kernel, dhcp, history>>

\* Where a call of syncBlockedMACs returns to.
AfterSync(task) ==
    IF task.mac = NoMAC THEN "list"
    ELSE IF task.op = "start" THEN "next" ELSE "dhcp"

\* Mutant of AddDrops: the elements arrive although the table is gone.
AddDropsAnyway(t) ==
    /\ At(t, "add")
    /\ kernel' = [kernel EXCEPT !.drops = @ \cup pc[t].elems]
    /\ Becomes(t, [pc[t] EXCEPT !.elems = {}, !.at = AfterSync(pc[t])])
    /\ UNCHANGED <<disk, link, firewall, dhcp, history>>

\* Mutant of AddDrops: the set is replaced, not added to.
AddDropsReplacing(t) ==
    /\ At(t, "add")
    /\ kernel' = [kernel EXCEPT !.drops = IF kernel.layer2 THEN pc[t].elems ELSE @]
    /\ Becomes(t, [pc[t] EXCEPT !.elems = {}, !.at = AfterSync(pc[t])])
    /\ UNCHANGED <<disk, link, firewall, dhcp, history>>

\* Without the table the command fails, which nobody notices.
AddDrops(t) ==
    /\ At(t, "add")
    /\ kernel' = [kernel EXCEPT !.drops =
                    IF kernel.layer2 THEN @ \cup pc[t].elems ELSE @]
    /\ Becomes(t, [pc[t] EXCEPT !.elems = {}, !.at = AfterSync(pc[t])])
    /\ UNCHANGED <<disk, link, firewall, dhcp, history>>

FirewallStep(t) ==
    \/ DeleteTables(t) \/ CreateTables(t)
    \/ EditBlocked(t) \/ FlushDrops(t) \/ ReadBlocked(t) \/ AddDrops(t)

-----------------------------------------------------------------------------
(* NetworkManager: the persisted list is applied again by "activate" (to   *)
(* the firewall and the DHCP manager) and by gateway mode (to the firewall)*)

\* Mutant of ListBlacklist: gateway mode, too, takes remembered devices only.
ListBlacklistKnown(t) ==
    /\ At(t, "list")
    /\ Becomes(t, [pc[t] EXCEPT !.at = "next", !.todo = Listed(gatewayMac) \cap Known])
    /\ applied' = (applied \/ pc[t].op = "start")
    /\ UNCHANGED <<disk, link, firewall, kernel, dhcp, unguarded, freed>>

ListBlacklist(t) ==
    /\ At(t, "list")
    /\ Becomes(t, [pc[t] EXCEPT !.at = "next",
                                !.todo = IF pc[t].op = "start"
                                         THEN Listed(gatewayMac)
                                         ELSE Listed(gatewayMac) \cap Known])
    /\ applied' = (applied \/ pc[t].op = "start")
    /\ UNCHANGED <<disk, link, firewall, kernel, dhcp, unguarded, freed>>

ReapplyNext(t) ==
    /\ At(t, "next")
    /\ \E m \in pc[t].todo :
         /\ Becomes(t, [pc[t] EXCEPT !.at = "edit", !.mac = m, !.todo = @ \ {m}])
         /\ unguarded' = IF pc[t].op = "activate" THEN unguarded \cup {m}
                                                  ELSE unguarded
    /\ UNCHANGED <<disk, link, firewall, kernel, dhcp, applied, freed>>

ReapplyDone(t) ==
    /\ At(t, "next") /\ pc[t].todo = {}
    /\ Finish(t)
    /\ UNCHANGED <<disk, link, firewall, kernel, dhcp, history>>

-----------------------------------------------------------------------------
(* The network thread.                                                     *)

Activate ==
    /\ Free("network") /\ ~firewall.iface
    /\ firewall' = [firewall EXCEPT !.iface = TRUE]
    /\ Begin("network", "delete", "activate", NoMAC)
    /\ UNCHANGED <<disk, link, kernel, dhcp, history>>

\* The operator blocks a device.
BlockDevice(m) ==
    /\ NetworkReady /\ Room
    /\ m # Host
    /\ gatewayMode
    /\ Begin("network", "record", "block", m)
    /\ UNCHANGED <<disk, link, firewall, kernel, dhcp, history>>

\* Mutant of EnforceStrictModeBlock: this machine is not spared.
EnforceStrictModeBlockSelf(m) ==
    /\ NetworkReady /\ Room
    /\ gatewayMode
    /\ m # gatewayMac
    /\ <<gatewayMac, m>> \notin blacklist
    /\ Begin("network", "record", "block", m)
    /\ UNCHANGED <<disk, link, firewall, kernel, dhcp, history>>

\* Default deny, a setting, meets a device that is not on the white list.
EnforceStrictModeBlock(m) ==
    /\ NetworkReady /\ Room
    /\ gatewayMode
    /\ m # Host /\ m # gatewayMac
    /\ <<gatewayMac, m>> \notin blacklist
    /\ Begin("network", "record", "block", m)
    /\ UNCHANGED <<disk, link, firewall, kernel, dhcp, history>>

\* A DHCP client was recognised as a blocked device under another address.
\* This path does not ask for gateway mode.
PossibleMacRotation(previous, m) ==
    /\ NetworkReady /\ Room
    /\ m # Host
    /\ <<gatewayMac, previous>> \in blacklist
    /\ Begin("network", "record", "block", m)
    /\ unguarded' = unguarded \cup {m}
    /\ UNCHANGED <<disk, link, firewall, kernel, dhcp, applied, freed>>

\* applyBlockEnforcement: the database comes first.
RecordBlock ==
    /\ At("network", "record")
    /\ blacklist' = blacklist \cup {<<gatewayMac, pc["network"].mac>>}
    /\ freed' = freed \ {pc["network"].mac}
    /\ GoTo("network", "edit")
    /\ UNCHANGED <<running, link, firewall, kernel, dhcp, applied, unguarded>>

\* Mutant of UnblockDevice: the row stays in the database.
UnblockDeviceInMemory(m) ==
    /\ NetworkReady
    /\ Begin("network", "edit", "unblock", m)
    /\ UNCHANGED <<disk, link, firewall, kernel, dhcp, history>>

UnblockDevice(m) ==
    /\ NetworkReady
    /\ blacklist' = blacklist \ {<<gatewayMac, m>>}
    /\ Begin("network", "edit", "unblock", m)
    /\ UNCHANGED <<running, link, firewall, kernel, dhcp, history>>

\* DHCPManager::blockMAC and unblockMAC, the last step of a block.
UpdateBans ==
    /\ At("network", "dhcp")
    /\ dhcpBanned' = IF pc["network"].op = "unblock"
                     THEN dhcpBanned \ {pc["network"].mac}
                     ELSE dhcpBanned \cup {pc["network"].mac}
    /\ server' = IF server.up THEN [server EXCEPT !.banned = dhcpBanned'] ELSE server
    /\ IF pc["network"].op = "activate" THEN GoTo("network", "next")
                                        ELSE Finish("network")
    /\ UNCHANGED <<disk, link, firewall, kernel, history>>

\* A setting clears the lists of other networks when the gateway changes.
SetGatewayMac(g) ==
    /\ NetworkReady
    /\ g # gatewayMac
    /\ gatewayMac' = g
    /\ \E autoClear \in BOOLEAN :
         blacklist' = IF autoClear
                      THEN {e \in blacklist : e[1] \in {g, NoGateway}}
                      ELSE blacklist
    /\ applied' = FALSE /\ freed' = {}
    /\ UNCHANGED <<running, gatewayMode, firewall, kernel, dhcp, pc, unguarded>>

NetworkStep ==
    \/ Activate
    \/ \E m \in MAC : BlockDevice(m) \/ EnforceStrictModeBlock(m) \/ UnblockDevice(m)
    \/ \E p, m \in MAC : PossibleMacRotation(p, m)
    \/ RecordBlock \/ UpdateBans
    \/ \E g \in Gateway : SetGatewayMac(g)

-----------------------------------------------------------------------------
(* The GUI thread: DHCPPage calls DHCPManager and, from its status signal, *)
(* NetworkManager::setGatewayModeActive.                                   *)

\* startServer creates a DhcpServer, whose blocked set is empty.
StartServer ==
    /\ Free("gui") /\ ~server.up
    /\ server' = [up |-> TRUE, banned |-> {}]
    /\ \E intercept \in BOOLEAN :
         IF intercept THEN Begin("gui", "engage", "start", NoMAC)
                      ELSE UNCHANGED pc
    /\ UNCHANGED <<disk, link, firewall, kernel, dhcpBanned, history>>

\* The mode is on before the firewall is ready.
EngageGateway ==
    /\ At("gui", "engage")
    /\ gatewayMode' = TRUE
    /\ firewall' = [firewall EXCEPT !.active = TRUE]
    /\ GoTo("gui", "delete")
    /\ UNCHANGED <<disk, gatewayMac, kernel, dhcp, history>>

StopServer ==
    /\ Free("gui") /\ server.up
    /\ server' = NoServer
    /\ IF gatewayMode THEN Begin("gui", "disengage", "stop", NoMAC)
                      ELSE UNCHANGED pc
    /\ UNCHANGED <<disk, link, firewall, kernel, dhcpBanned, history>>

DisengageGateway ==
    /\ At("gui", "disengage")
    /\ gatewayMode' = FALSE
    /\ firewall' = [firewall EXCEPT !.active = FALSE]
    /\ applied' = FALSE
    /\ GoTo("gui", "clear")
    /\ UNCHANGED <<disk, gatewayMac, kernel, dhcp, unguarded, freed>>

\* unblockAll
ClearBlocked ==
    /\ At("gui", "clear")
    /\ firewall' = [firewall EXCEPT !.blocked = {}]
    /\ GoTo("gui", "delete")
    /\ UNCHANGED <<disk, link, kernel, dhcp, history>>

GuiStep ==
    StartServer \/ EngageGateway \/ StopServer \/ DisengageGateway \/ ClearBlocked

-----------------------------------------------------------------------------
(* The end of the program.  The kernel and the database survive it.        *)

\* What the constructors find, set as soon as the memory is gone.
Forget ==
    /\ running' = FALSE
    /\ gatewayMac' = NoGateway /\ gatewayMode' = FALSE
    /\ firewall' = NewFirewall
    /\ dhcpBanned' = {} /\ server' = NoServer
    /\ pc' = [t \in Thread |-> Idle]
    /\ applied' = FALSE /\ unguarded' = {} /\ freed' = {}

Crash ==
    /\ running
    /\ Forget
    /\ UNCHANGED <<blacklist, kernel>>

\* closeEvent stops the server and removes every table.
CloseEvent ==
    /\ Free("gui") /\ Free("network")
    /\ Forget
    /\ kernel' = NoTables
    /\ UNCHANGED blacklist

\* Mutant of Boot: the tables of earlier runs stay.
BootOverOldTables ==
    /\ ~running
    /\ running' = TRUE
    /\ UNCHANGED <<blacklist, kernel, memory>>

\* The FirewallManager's constructor runs initFirewall without an interface.
Boot ==
    /\ ~running
    /\ running' = TRUE
    /\ kernel' = NoTables
    /\ UNCHANGED <<blacklist, memory>>

-----------------------------------------------------------------------------
Next ==
    \/ \E t \in Thread : FirewallStep(t) \/ ListBlacklist(t)
                         \/ ReapplyNext(t) \/ ReapplyDone(t)
    \/ NetworkStep
    \/ GuiStep
    \/ Crash \/ CloseEvent \/ Boot

Spec == Init /\ [][Next]_vars

-----------------------------------------------------------------------------
(* Properties.                                                             *)

Quiet == running /\ \A t \in Thread : pc[t].at = "idle"

\* However the two threads' commands interleave, once both are through the
\* kernel drops every device the FirewallManager holds blocked: an update
\* of one thread never undoes the other's (syncBlockedMACs, initFirewall).
NoLostBlock ==
    Quiet /\ kernel.layer2 => firewall.blocked \subseteq kernel.drops

\* A block is made in the database, the firewall and the DHCP manager one
\* after the other while the GUI may stop and start gateway mode.  Once both
\* threads are through, every device listed for the network on which gateway
\* mode was started is dropped: nothing falls between unblockAll and the
\* reading of the list (applyBlockEnforcement, setGatewayModeActive).
BlacklistEnforced ==
    Quiet /\ gatewayMode /\ applied /\ firewall.iface
        => Listed(gatewayMac) \subseteq kernel.drops

\* A block that was allowed because gateway mode was on leaves no drop rule
\* behind when the mode goes off in the middle of it, nor does a crash of
\* the program (unblockAll, the constructor's initFirewall).
OffMeansOpen ==
    Quiet /\ ~gatewayMode => kernel.drops \subseteq unguarded

\* An unblock made while the GUI thread is at rest holds until the device is
\* blocked again: no rebuilding of the firewall, no list applied again later
\* and no copy in a server thread brings it back (unblockDevice, initFirewall,
\* setGatewayModeActive, DHCPManager::unblockMAC).
UnblockHolds ==
    Quiet => freed \cap (kernel.drops \cup server.banned) = {}

\* No path to a block, not even default deny, cuts off this machine.
HostNeverBlocked == Host \notin kernel.drops \cup dhcpBanned

\* What DHCPManager.h says of blockMAC: "Permanently block a MAC (Ban)".
BanIsPermanent == Quiet /\ server.up => dhcpBanned \subseteq server.banned

=============================================================================
