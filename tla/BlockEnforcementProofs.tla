----------------------- MODULE BlockEnforcementProofs -----------------------
(***************************************************************************)
(* Safety of BlockEnforcement for every set of devices and networks: the   *)
(* types, that updates of the kernel's set by two threads without a lock   *)
(* lose no block, and that an unblock holds.                               *)
(***************************************************************************)
EXTENDS BlockEnforcement, TLAPS

\* A thread at rest has nothing left over, and one that works on a single
\* device has one to work on.
TaskOK ==
    \A t \in Thread :
        /\ pc[t].at = "idle" => pc[t] = Idle
        /\ pc[t].at \in {"record", "edit", "dhcp"} => pc[t].mac # NoMAC

\* Thread t still has to read the blocked set, or has read m in it, before
\* it adds what it read to the kernel's set.
Pending(t, m) ==
    \/ pc[t].at \in {"flush", "read"}
    \/ pc[t].at = "add" /\ m \in pc[t].elems

\* A blocked device is dropped already or some thread is about to drop it.
Covered ==
    kernel.layer2 =>
        \A m \in firewall.blocked :
            m \in kernel.drops \/ \E t \in Thread : Pending(t, m)

TInv == TypeOK /\ TaskOK

-----------------------------------------------------------------------------
(* How the operators on tasks change one.                                  *)

LEMMA IdleType == Idle \in Task
BY DEF Idle, Task, Label, Operation

LEMMA BecomesType ==
    ASSUME TInv, NEW t \in Thread, NEW k \in Task, Becomes(t, k),
           k.at = "idle" => k = Idle,
           k.at \in {"record", "edit", "dhcp"} => k.mac # NoMAC
    PROVE  /\ pc' \in [Thread -> Task] /\ TaskOK'
           /\ pc'[t] = k
           /\ \A u \in Thread \ {t} : pc'[u] = pc[u]
<1>1. pc \in [Thread -> Task]
    BY DEF TInv, TypeOK
<1>2. \A u \in Thread : pc'[u] = IF u = t THEN k ELSE pc[u]
    BY <1>1 DEF Becomes
<1>3. pc' \in [Thread -> Task]
    BY <1>1 DEF Becomes
<1>4. TaskOK'
    BY <1>2 DEF TInv, TaskOK
<1> QED BY <1>2, <1>3, <1>4

LEMMA BeginType ==
    ASSUME TInv, NEW t \in Thread, NEW l \in Label, NEW o \in Operation,
           NEW m \in MAC \cup {NoMAC}, Begin(t, l, o, m), l # "idle",
           l \in {"record", "edit", "dhcp"} => m # NoMAC
    PROVE  /\ pc' \in [Thread -> Task] /\ TaskOK'
           /\ pc'[t].at = l /\ pc'[t].op = o /\ pc'[t].mac = m
           /\ pc'[t].todo = {} /\ pc'[t].elems = {}
           /\ \A u \in Thread \ {t} : pc'[u] = pc[u]
<1> DEFINE k == [at |-> l, op |-> o, mac |-> m, todo |-> {}, elems |-> {}]
<1>1. k \in Task /\ k.at = l /\ k.mac = m /\ k.op = o /\ k.todo = {} /\ k.elems = {}
    BY DEF Task
<1>2. Becomes(t, k)
    BY DEF Begin
<1> HIDE DEF k
<1> QED BY <1>1, <1>2, BecomesType

LEMMA GoToType ==
    ASSUME TInv, NEW t \in Thread, NEW l \in Label, GoTo(t, l), l # "idle",
           l \in {"record", "edit", "dhcp"} => pc[t].mac # NoMAC
    PROVE  /\ pc' \in [Thread -> Task] /\ TaskOK'
           /\ pc'[t].at = l /\ pc'[t].op = pc[t].op /\ pc'[t].mac = pc[t].mac
           /\ pc'[t].todo = pc[t].todo /\ pc'[t].elems = pc[t].elems
           /\ \A u \in Thread \ {t} : pc'[u] = pc[u]
<1> DEFINE k == [pc[t] EXCEPT !.at = l]
<1>1. pc[t] \in Task
    BY DEF TInv, TypeOK
<1>2. /\ k \in Task /\ k.at = l /\ k.mac = pc[t].mac /\ k.op = pc[t].op
      /\ k.todo = pc[t].todo /\ k.elems = pc[t].elems
    BY <1>1 DEF Task
<1>3. Becomes(t, k)
    BY DEF GoTo
<1> HIDE DEF k
<1> QED BY <1>2, <1>3, BecomesType

LEMMA FinishType ==
    ASSUME TInv, NEW t \in Thread, Finish(t)
    PROVE  /\ pc' \in [Thread -> Task] /\ TaskOK'
           /\ pc'[t] = Idle
           /\ \A u \in Thread \ {t} : pc'[u] = pc[u]
<1>1. Idle.at = "idle"
    BY DEF Idle
<1> QED BY <1>1, IdleType, BecomesType DEF Finish

-----------------------------------------------------------------------------
(* Types.                                                                  *)

LEMMA TypeInit == Init => TInv
<1> SUFFICES ASSUME Init PROVE TInv
    OBVIOUS
<1>1. pc \in [Thread -> Task] /\ TaskOK
    BY IdleType DEF Init, TaskOK, Idle
<1>2. firewall \in [blocked : SUBSET MAC, iface : BOOLEAN, active : BOOLEAN]
    BY DEF Init, NewFirewall
<1>3. kernel \in [layer2 : BOOLEAN, drops : SUBSET MAC] /\ kernel.drops = {}
    BY DEF Init, NoTables
<1>4. server \in [up : BOOLEAN, banned : SUBSET MAC]
    BY DEF Init, NoServer
<1> QED BY <1>1, <1>2, <1>3, <1>4 DEF TInv, TypeOK, Init, Network

\* The steps that both threads take.
LEMMA FirewallType ==
    ASSUME TInv, NEW t \in Thread, FirewallStep(t)
    PROVE  TInv'
<1>0. pc[t] \in Task
    BY DEF TInv, TypeOK
<1>1. CASE DeleteTables(t)
    <2>1. pc' \in [Thread -> Task] /\ TaskOK'
        BY <1>1, GoToType, FinishType DEF DeleteTables, Label
    <2>2. kernel' \in [layer2 : BOOLEAN, drops : SUBSET MAC] /\ kernel'.drops = {}
        BY <1>1 DEF DeleteTables, NoTables
    <2> QED BY <1>1, <2>1, <2>2 DEF DeleteTables, TInv, TypeOK, disk, link, dhcp, history
<1>2. CASE CreateTables(t)
    <2>1. pc' \in [Thread -> Task] /\ TaskOK'
        BY <1>2, GoToType DEF CreateTables, Label
    <2>2. /\ kernel' \in [layer2 : BOOLEAN, drops : SUBSET MAC]
          /\ kernel'.drops # {} => kernel'.layer2
        BY <1>2 DEF CreateTables, TInv, TypeOK
    <2> QED BY <1>2, <2>1, <2>2 DEF CreateTables, TInv, TypeOK, disk, link, dhcp, history
<1>3. CASE EditBlocked(t)
    <2>1. pc' \in [Thread -> Task] /\ TaskOK'
        BY <1>3, GoToType DEF EditBlocked, Label
    <2>2. pc[t].mac \in MAC
        BY <1>0, <1>3 DEF EditBlocked, At, TInv, TaskOK, Task
    <2>3. firewall' \in [blocked : SUBSET MAC, iface : BOOLEAN, active : BOOLEAN]
        BY <1>3, <2>2 DEF EditBlocked, TInv, TypeOK
    <2>4. freed' \subseteq MAC
        BY <1>3, <2>2 DEF EditBlocked, TInv, TypeOK
    <2> QED BY <1>3, <2>1, <2>3, <2>4 DEF EditBlocked, TInv, TypeOK, disk, link, dhcp
<1>4. CASE FlushDrops(t)
    <2>1. pc' \in [Thread -> Task] /\ TaskOK'
        BY <1>4, GoToType DEF FlushDrops, Label
    <2>2. kernel' \in [layer2 : BOOLEAN, drops : SUBSET MAC] /\ kernel'.drops = {}
        BY <1>4 DEF FlushDrops, TInv, TypeOK
    <2> QED BY <1>4, <2>1, <2>2 DEF FlushDrops, TInv, TypeOK, disk, link, dhcp, history
<1>5. CASE ReadBlocked(t)
    <2> DEFINE k == [pc[t] EXCEPT !.elems = firewall.blocked, !.at = "add"]
    <2>1. k \in Task /\ k.at = "add"
        BY <1>0 DEF Task, Label, TInv, TypeOK
    <2>2. Becomes(t, k)
        BY <1>5 DEF ReadBlocked
    <2>3. pc' \in [Thread -> Task] /\ TaskOK'
        BY <2>1, <2>2, BecomesType
    <2> QED BY <1>5, <2>3 DEF ReadBlocked, TInv, TypeOK, disk, link, dhcp, history
<1>6. CASE AddDrops(t)
    <2> DEFINE k == [pc[t] EXCEPT !.elems = {}, !.at = AfterSync(pc[t])]
    <2>1. /\ AfterSync(pc[t]) \in {"list", "next", "dhcp"}
          /\ AfterSync(pc[t]) = "dhcp" => pc[t].mac # NoMAC
        BY DEF AfterSync
    <2>2. k \in Task /\ k.at = AfterSync(pc[t]) /\ k.mac = pc[t].mac
        BY <1>0, <2>1 DEF Task, Label
    <2>3. Becomes(t, k)
        BY <1>6 DEF AddDrops
    <2>4. pc' \in [Thread -> Task] /\ TaskOK'
        BY <2>1, <2>2, <2>3, BecomesType
    <2>5. /\ kernel' \in [layer2 : BOOLEAN, drops : SUBSET MAC]
          /\ kernel'.drops # {} => kernel'.layer2
        BY <1>0, <1>6 DEF AddDrops, TInv, TypeOK, Task
    <2> QED BY <1>6, <2>4, <2>5 DEF AddDrops, TInv, TypeOK, disk, link, dhcp, history
<1> QED BY <1>1, <1>2, <1>3, <1>4, <1>5, <1>6 DEF FirewallStep

LEMMA ReapplyType ==
    ASSUME TInv, NEW t \in Thread,
           ListBlacklist(t) \/ ReapplyNext(t) \/ ReapplyDone(t)
    PROVE  TInv'
<1>0. pc[t] \in Task
    BY DEF TInv, TypeOK
<1>1. CASE ListBlacklist(t)
    <2> DEFINE k == [pc[t] EXCEPT !.at = "next",
                       !.todo = IF pc[t].op = "start" THEN Listed(gatewayMac)
                                ELSE Listed(gatewayMac) \cap Known]
    <2>1. k \in Task /\ k.at = "next"
        BY <1>0 DEF Task, Label, Listed
    <2>2. Becomes(t, k)
        BY <1>1 DEF ListBlacklist
    <2>3. pc' \in [Thread -> Task] /\ TaskOK'
        BY <2>1, <2>2, BecomesType
    <2>4. applied' \in BOOLEAN
        BY <1>1 DEF ListBlacklist
    <2> QED BY <1>1, <2>3, <2>4 DEF ListBlacklist, TInv, TypeOK, disk, link, dhcp
<1>2. CASE ReapplyNext(t)
    <2>1. PICK m \in pc[t].todo :
            /\ Becomes(t, [pc[t] EXCEPT !.at = "edit", !.mac = m, !.todo = @ \ {m}])
            /\ unguarded' = IF pc[t].op = "activate" THEN unguarded \cup {m} ELSE unguarded
        BY <1>2 DEF ReapplyNext
    <2> DEFINE k == [pc[t] EXCEPT !.at = "edit", !.mac = m, !.todo = @ \ {m}]
    <2>2. m \in MAC /\ m # NoMAC
        BY <1>0, NameAssumption DEF Task
    <2>3. k \in Task /\ k.at = "edit" /\ k.mac = m
        BY <1>0, <2>2 DEF Task, Label
    <2>4. pc' \in [Thread -> Task] /\ TaskOK'
        BY <2>1, <2>2, <2>3, BecomesType
    <2> QED BY <1>2, <2>1, <2>2, <2>4 DEF ReapplyNext, TInv, TypeOK, disk, link, dhcp
<1>3. CASE ReapplyDone(t)
    <2>1. pc' \in [Thread -> Task] /\ TaskOK'
        BY <1>3, FinishType DEF ReapplyDone
    <2> QED BY <1>3, <2>1 DEF ReapplyDone, TInv, TypeOK, disk, link, dhcp, history
<1> QED BY <1>1, <1>2, <1>3

LEMMA NetworkType ==
    ASSUME TInv, NetworkStep
    PROVE  TInv'
<1>0. "network" \in Thread /\ pc["network"] \in Task
    BY DEF TInv, TypeOK, Thread
<1>n. \A m \in MAC : m # NoMAC
    BY NameAssumption
<1>1. CASE Activate
    <2>1. pc' \in [Thread -> Task] /\ TaskOK'
        BY <1>0, <1>1, BeginType DEF Activate, Label, Operation
    <2>2. firewall' \in [blocked : SUBSET MAC, iface : BOOLEAN, active : BOOLEAN]
        BY <1>1 DEF Activate, TInv, TypeOK
    <2> QED BY <1>1, <2>1, <2>2 DEF Activate, TInv, TypeOK, disk, link, dhcp, history
<1>2. ASSUME NEW m \in MAC, BlockDevice(m) PROVE TInv'
    <2>1. pc' \in [Thread -> Task] /\ TaskOK'
        BY <1>0, <1>n, <1>2, BeginType DEF BlockDevice, Label, Operation
    <2> QED BY <1>2, <2>1 DEF BlockDevice, TInv, TypeOK, disk, link, dhcp, history
<1>3. ASSUME NEW m \in MAC, EnforceStrictModeBlock(m) PROVE TInv'
    <2>1. pc' \in [Thread -> Task] /\ TaskOK'
        BY <1>0, <1>n, <1>3, BeginType DEF EnforceStrictModeBlock, Label, Operation
    <2> QED BY <1>3, <2>1 DEF EnforceStrictModeBlock, TInv, TypeOK, disk, link, dhcp, history
<1>4. ASSUME NEW m \in MAC, UnblockDevice(m) PROVE TInv'
    <2>1. pc' \in [Thread -> Task] /\ TaskOK'
        BY <1>0, <1>n, <1>4, BeginType DEF UnblockDevice, Label, Operation
    <2> QED BY <1>4, <2>1 DEF UnblockDevice, TInv, TypeOK, disk, link, dhcp, history
<1>5. ASSUME NEW p \in MAC, NEW m \in MAC, PossibleMacRotation(p, m) PROVE TInv'
    <2>1. pc' \in [Thread -> Task] /\ TaskOK'
        BY <1>0, <1>n, <1>5, BeginType DEF PossibleMacRotation, Label, Operation
    <2> QED BY <1>5, <2>1 DEF PossibleMacRotation, TInv, TypeOK, disk, link, dhcp
<1>6. CASE RecordBlock
    <2>1. pc' \in [Thread -> Task] /\ TaskOK'
        <3>1. pc["network"].mac # NoMAC
            BY <1>0, <1>6 DEF RecordBlock, At, TInv, TaskOK
        <3> QED BY <1>0, <1>6, <3>1, GoToType DEF RecordBlock, Label
    <2>2. pc["network"].mac \in MAC
        BY <1>0, <1>6 DEF RecordBlock, At, TInv, TaskOK, Task
    <2>3. blacklist' \subseteq Network \X MAC
        BY <1>6, <2>2 DEF RecordBlock, TInv, TypeOK
    <2> QED BY <1>6, <2>1, <2>3 DEF RecordBlock, TInv, TypeOK, link, dhcp
<1>7. CASE UpdateBans
    <2>1. pc' \in [Thread -> Task] /\ TaskOK'
        BY <1>0, <1>7, GoToType, FinishType DEF UpdateBans, Label
    <2>2. pc["network"].mac \in MAC
        BY <1>0, <1>7 DEF UpdateBans, At, TInv, TaskOK, Task
    <2>3. dhcpBanned' \subseteq MAC
        BY <1>7, <2>2 DEF UpdateBans, TInv, TypeOK
    <2>4. server' \in [up : BOOLEAN, banned : SUBSET MAC]
        BY <1>7, <2>3 DEF UpdateBans, TInv, TypeOK
    <2> QED BY <1>7, <2>1, <2>3, <2>4 DEF UpdateBans, TInv, TypeOK, disk, link, history
<1>8. ASSUME NEW g \in Gateway, SetGatewayMac(g) PROVE TInv'
    <2>1. blacklist' \subseteq Network \X MAC /\ gatewayMac' \in Network
        BY <1>8 DEF SetGatewayMac, TInv, TypeOK, Network
    <2>2. pc' = pc
        BY <1>8 DEF SetGatewayMac
    <2>3. TaskOK'
        BY <2>2 DEF TInv, TaskOK
    <2> QED BY <1>8, <2>1, <2>2, <2>3 DEF SetGatewayMac, TInv, TypeOK, dhcp
<1> QED BY <1>1, <1>2, <1>3, <1>4, <1>5, <1>6, <1>7, <1>8 DEF NetworkStep

LEMMA GuiType ==
    ASSUME TInv, GuiStep
    PROVE  TInv'
<1>0. "gui" \in Thread /\ pc["gui"] \in Task
    BY DEF TInv, TypeOK, Thread
<1>s. ASSUME pc' = pc PROVE pc' \in [Thread -> Task] /\ TaskOK'
    BY <1>s DEF TInv, TypeOK, TaskOK
<1>1. CASE StartServer
    <2>1. pc' \in [Thread -> Task] /\ TaskOK'
        BY <1>0, <1>s, <1>1, BeginType DEF StartServer, Label, Operation
    <2>2. server' \in [up : BOOLEAN, banned : SUBSET MAC]
        BY <1>1 DEF StartServer
    <2> QED BY <1>1, <2>1, <2>2 DEF StartServer, TInv, TypeOK, disk, link, history
<1>2. CASE EngageGateway
    <2>1. pc' \in [Thread -> Task] /\ TaskOK'
        BY <1>0, <1>2, GoToType DEF EngageGateway, Label
    <2>2. firewall' \in [blocked : SUBSET MAC, iface : BOOLEAN, active : BOOLEAN]
        BY <1>2 DEF EngageGateway, TInv, TypeOK
    <2> QED BY <1>2, <2>1, <2>2 DEF EngageGateway, TInv, TypeOK, disk, dhcp, history
<1>3. CASE StopServer
    <2>1. pc' \in [Thread -> Task] /\ TaskOK'
        BY <1>0, <1>s, <1>3, BeginType DEF StopServer, Label, Operation
    <2>2. server' \in [up : BOOLEAN, banned : SUBSET MAC]
        BY <1>3 DEF StopServer, NoServer
    <2> QED BY <1>3, <2>1, <2>2 DEF StopServer, TInv, TypeOK, disk, link, history
<1>4. CASE DisengageGateway
    <2>1. pc' \in [Thread -> Task] /\ TaskOK'
        BY <1>0, <1>4, GoToType DEF DisengageGateway, Label
    <2>2. firewall' \in [blocked : SUBSET MAC, iface : BOOLEAN, active : BOOLEAN]
        BY <1>4 DEF DisengageGateway, TInv, TypeOK
    <2> QED BY <1>4, <2>1, <2>2 DEF DisengageGateway, TInv, TypeOK, disk, dhcp
<1>5. CASE ClearBlocked
    <2>1. pc' \in [Thread -> Task] /\ TaskOK'
        BY <1>0, <1>5, GoToType DEF ClearBlocked, Label
    <2>2. firewall' \in [blocked : SUBSET MAC, iface : BOOLEAN, active : BOOLEAN]
        BY <1>5 DEF ClearBlocked, TInv, TypeOK
    <2> QED BY <1>5, <2>1, <2>2 DEF ClearBlocked, TInv, TypeOK, disk, link, dhcp, history
<1> QED BY <1>1, <1>2, <1>3, <1>4, <1>5 DEF GuiStep

LEMMA ForgetType ==
    ASSUME TInv, Forget, blacklist' = blacklist,
           kernel' = kernel \/ kernel' = NoTables
    PROVE  TInv'
<1>1. pc' \in [Thread -> Task] /\ TaskOK'
    BY IdleType DEF Forget, TaskOK, Idle
<1>2. firewall' \in [blocked : SUBSET MAC, iface : BOOLEAN, active : BOOLEAN]
    BY DEF Forget, NewFirewall
<1>3. /\ kernel' \in [layer2 : BOOLEAN, drops : SUBSET MAC]
      /\ kernel'.drops # {} => kernel'.layer2
    <2>1. CASE kernel' = kernel
        BY <2>1 DEF TInv, TypeOK
    <2>2. CASE kernel' = NoTables
        BY <2>2 DEF NoTables
    <2> QED BY <2>1, <2>2
<1>4. server' \in [up : BOOLEAN, banned : SUBSET MAC]
    BY DEF Forget, NoServer
<1> QED BY <1>1, <1>2, <1>3, <1>4 DEF Forget, TInv, TypeOK, Network

LEMMA EndType ==
    ASSUME TInv, Crash \/ CloseEvent \/ Boot
    PROVE  TInv'
<1>1. CASE Crash
    BY <1>1, ForgetType DEF Crash
<1>2. CASE CloseEvent
    BY <1>2, ForgetType DEF CloseEvent
<1>3. CASE Boot
    <2>1. kernel' \in [layer2 : BOOLEAN, drops : SUBSET MAC] /\ kernel'.drops = {}
        BY <1>3 DEF Boot, NoTables
    <2>2. pc' = pc
        BY <1>3 DEF Boot, memory
    <2>3. TaskOK'
        BY <2>2 DEF TInv, TaskOK
    <2> QED BY <1>3, <2>1, <2>2, <2>3
            DEF Boot, TInv, TypeOK, memory, link, dhcp, history
<1> QED BY <1>1, <1>2, <1>3

LEMMA TypeStep == TInv /\ [Next]_vars => TInv'
<1> SUFFICES ASSUME TInv, [Next]_vars PROVE TInv'
    OBVIOUS
<1>1. ASSUME NEW t \in Thread,
             FirewallStep(t) \/ ListBlacklist(t) \/ ReapplyNext(t) \/ ReapplyDone(t)
      PROVE  TInv'
    BY <1>1, FirewallType, ReapplyType
<1>2. CASE NetworkStep
    BY <1>2, NetworkType
<1>3. CASE GuiStep
    BY <1>3, GuiType
<1>4. CASE Crash \/ CloseEvent \/ Boot
    BY <1>4, EndType
<1>5. CASE UNCHANGED vars
    BY <1>5 DEF vars, memory, disk, link, dhcp, history, TInv, TypeOK, TaskOK
<1> QED BY <1>1, <1>2, <1>3, <1>4, <1>5 DEF Next

\* Every reachable state has the declared types.
THEOREM BlockTypeCorrect == Spec => []TypeOK
<1>1. Spec => []TInv
    BY TypeInit, TypeStep, PTL DEF Spec
<1>2. TInv => TypeOK
    BY DEF TInv
<1> QED BY <1>1, <1>2, PTL

-----------------------------------------------------------------------------
(* No block is lost.                                                       *)

\* A thread that is not synchronising leaves the others' work as it is.
LEMMA OtherWorkStays ==
    ASSUME TInv, Covered, NEW t \in Thread,
           pc[t].at \notin {"flush", "read", "add"},
           \A u \in Thread \ {t} : pc'[u] = pc[u],
           kernel' = kernel, firewall'.blocked \subseteq firewall.blocked
    PROVE  Covered'
<1> SUFFICES ASSUME kernel.layer2, NEW m \in firewall'.blocked, m \notin kernel.drops
             PROVE  \E u \in Thread : Pending(u, m)'
    BY DEF Covered
<1>1. PICK u \in Thread : Pending(u, m)
    BY DEF Covered
<1>2. u # t
    BY <1>1 DEF Pending
<1> QED BY <1>1, <1>2 DEF Pending

\* A thread that has just flushed the set, or is about to, covers everything.
LEMMA SyncCovers ==
    ASSUME NEW t \in Thread, pc'[t].at \in {"flush", "read"}
    PROVE  Covered'
BY DEF Covered, Pending

LEMMA FirewallCovers ==
    ASSUME TInv, Covered, NEW t \in Thread, FirewallStep(t)
    PROVE  Covered'
<1>1. CASE DeleteTables(t)
    BY <1>1 DEF DeleteTables, NoTables, Covered
<1>2. CASE CreateTables(t)
    BY <1>2, GoToType, SyncCovers DEF CreateTables, Label
<1>3. CASE EditBlocked(t)
    BY <1>3, GoToType, SyncCovers DEF EditBlocked, Label
<1>4. CASE FlushDrops(t)
    BY <1>4, GoToType, SyncCovers DEF FlushDrops, Label
<1>5. CASE ReadBlocked(t)
    <2>1. pc[t] \in Task /\ pc \in [Thread -> Task]
        BY DEF TInv, TypeOK
    <2>2. pc'[t] = [pc[t] EXCEPT !.elems = firewall.blocked, !.at = "add"]
        BY <1>5, <2>1 DEF ReadBlocked, Becomes
    <2>3. pc'[t].at = "add" /\ pc'[t].elems = firewall.blocked
        BY <2>1, <2>2 DEF Task
    <2> QED BY <1>5, <2>3 DEF ReadBlocked, Covered, Pending
<1>6. CASE AddDrops(t)
    <2>1. pc \in [Thread -> Task]
        BY DEF TInv, TypeOK
    <2>2. \A u \in Thread \ {t} : pc'[u] = pc[u]
        BY <1>6, <2>1 DEF AddDrops, Becomes
    <2>3. /\ kernel'.layer2 = kernel.layer2
          /\ kernel.layer2 => kernel'.drops = kernel.drops \cup pc[t].elems
        BY <1>6 DEF AddDrops, TInv, TypeOK
    <2>4. firewall' = firewall
        BY <1>6 DEF AddDrops
    <2> SUFFICES ASSUME kernel.layer2, NEW m \in firewall.blocked, m \notin kernel'.drops
                 PROVE  \E u \in Thread : Pending(u, m)'
        BY <2>3, <2>4 DEF Covered
    <2>5. PICK u \in Thread : Pending(u, m)
        BY <2>3 DEF Covered
    <2>6. u # t
        BY <1>6, <2>3, <2>5 DEF AddDrops, At, Pending
    <2> QED BY <2>2, <2>5, <2>6 DEF Pending
<1> QED BY <1>1, <1>2, <1>3, <1>4, <1>5, <1>6 DEF FirewallStep

LEMMA ReapplyCovers ==
    ASSUME TInv, Covered, NEW t \in Thread,
           ListBlacklist(t) \/ ReapplyNext(t) \/ ReapplyDone(t)
    PROVE  Covered'
<1>1. pc[t].at \notin {"flush", "read", "add"}
    BY DEF ListBlacklist, ReapplyNext, ReapplyDone, At
<1>2. kernel' = kernel /\ firewall' = firewall
    BY DEF ListBlacklist, ReapplyNext, ReapplyDone
<1>3. \A u \in Thread \ {t} : pc'[u] = pc[u]
    <2>1. pc \in [Thread -> Task]
        BY DEF TInv, TypeOK
    <2>2. \E k : Becomes(t, k)
        BY DEF ListBlacklist, ReapplyNext, ReapplyDone, Finish
    <2> QED BY <2>1, <2>2 DEF Becomes
<1> QED BY <1>1, <1>2, <1>3, OtherWorkStays

LEMMA NetworkCovers ==
    ASSUME TInv, Covered, NetworkStep
    PROVE  Covered'
<1>0. "network" \in Thread /\ pc \in [Thread -> Task]
    BY DEF TInv, TypeOK, Thread
<1>1. pc["network"].at \notin {"flush", "read", "add"}
    BY DEF NetworkStep, Activate, BlockDevice, EnforceStrictModeBlock, UnblockDevice,
           PossibleMacRotation, RecordBlock, UpdateBans, SetGatewayMac, NetworkReady,
           Free, At
<1>2. kernel' = kernel /\ firewall'.blocked = firewall.blocked
    BY DEF NetworkStep, Activate, BlockDevice, EnforceStrictModeBlock, UnblockDevice,
           PossibleMacRotation, RecordBlock, UpdateBans, SetGatewayMac, TInv, TypeOK
<1>3. pc' = pc \/ \E k : Becomes("network", k)
    BY DEF NetworkStep, Activate, BlockDevice, EnforceStrictModeBlock, UnblockDevice,
           PossibleMacRotation, RecordBlock, UpdateBans, SetGatewayMac,
           Begin, GoTo, Finish
<1>4. \A u \in Thread \ {"network"} : pc'[u] = pc[u]
    BY <1>0, <1>3 DEF Becomes
<1> QED BY <1>0, <1>1, <1>2, <1>4, OtherWorkStays

LEMMA GuiCovers ==
    ASSUME TInv, Covered, GuiStep
    PROVE  Covered'
<1>0. "gui" \in Thread /\ pc \in [Thread -> Task]
    BY DEF TInv, TypeOK, Thread
<1>1. pc["gui"].at \notin {"flush", "read", "add"}
    BY DEF GuiStep, StartServer, EngageGateway, StopServer, DisengageGateway,
           ClearBlocked, Free, At
<1>2. kernel' = kernel /\ firewall'.blocked \subseteq firewall.blocked
    BY DEF GuiStep, StartServer, EngageGateway, StopServer, DisengageGateway,
           ClearBlocked, TInv, TypeOK
<1>3. pc' = pc \/ \E k : Becomes("gui", k)
    BY DEF GuiStep, StartServer, EngageGateway, StopServer, DisengageGateway,
           ClearBlocked, Begin, GoTo
<1>4. \A u \in Thread \ {"gui"} : pc'[u] = pc[u]
    BY <1>0, <1>3 DEF Becomes
<1> QED BY <1>0, <1>1, <1>2, <1>4, OtherWorkStays

LEMMA EndCovers ==
    ASSUME Crash \/ CloseEvent \/ Boot
    PROVE  Covered'
<1>1. ASSUME Forget PROVE Covered'
    BY <1>1 DEF Forget, NewFirewall, Covered
<1>2. CASE Boot
    BY <1>2 DEF Boot, NoTables, Covered
<1> QED BY <1>1, <1>2 DEF Crash, CloseEvent

LEMMA CoveredStep == TInv /\ Covered /\ [Next]_vars => Covered'
<1> SUFFICES ASSUME TInv, Covered, [Next]_vars PROVE Covered'
    OBVIOUS
<1>1. ASSUME NEW t \in Thread,
             FirewallStep(t) \/ ListBlacklist(t) \/ ReapplyNext(t) \/ ReapplyDone(t)
      PROVE  Covered'
    BY <1>1, FirewallCovers, ReapplyCovers
<1>2. CASE UNCHANGED vars
    BY <1>2 DEF vars, memory, disk, link, dhcp, history, Covered, Pending
<1> QED BY <1>1, <1>2, NetworkCovers, GuiCovers, EndCovers DEF Next

\* Whatever the two threads' commands, once both are through, every device the
\* FirewallManager holds blocked is dropped by the kernel.
THEOREM NoBlockIsLost == Spec => []NoLostBlock
<1>1. Init => Covered
    BY DEF Init, NewFirewall, Covered
<1>2. Spec => [](TInv /\ Covered)
    BY <1>1, TypeInit, TypeStep, CoveredStep, PTL DEF Spec
<1>3. TInv /\ Covered => NoLostBlock
    BY DEF Covered, NoLostBlock, Quiet, Pending
<1> QED BY <1>2, <1>3, PTL

-----------------------------------------------------------------------------
(* An unblock holds.                                                       *)

Editing == {"edit", "flush", "read", "add", "dhcp"}

\* The network thread alone unblocks, one device at a time, and the database
\* has forgotten the device before anything else does.
UnblockTask ==
    \A t \in Thread : pc[t].op = "unblock" =>
        /\ t = "network" /\ pc[t].at \in Editing
        /\ pc[t].mac # NoMAC /\ pc[t].todo = {}
        /\ pc[t].at = "edit" =>
             pc[t].elems = {} /\ <<gatewayMac, pc[t].mac>> \notin blacklist

\* No thread is about to block m, or has read it where it will be applied.
NotUnderway(t, m) ==
    /\ m \notin pc[t].elems /\ m \notin pc[t].todo
    /\ pc[t].op # "unblock" /\ pc[t].at \in Editing => pc[t].mac # m

\* The unblock of m itself has yet to reach the DHCP manager.
Unbanning(m) ==
    /\ pc["network"].op = "unblock" /\ pc["network"].mac = m
    /\ pc["network"].at \in Editing

FreedOK ==
    \A m \in freed :
        /\ m \notin firewall.blocked
        /\ <<gatewayMac, m>> \notin blacklist
        /\ \A t \in Thread : NotUnderway(t, m)
        /\ m \in kernel.drops => pc["network"].at = "flush"
        /\ m \in dhcpBanned \cup server.banned => Unbanning(m)

\* A thread that rebuilds the firewall has no device in hand.
RebuildTask ==
    \A t \in Thread :
        pc[t].at \in {"engage", "disengage", "clear", "delete", "create"}
            => pc[t].mac = NoMAC

FInv ==
    /\ TInv /\ UnblockTask /\ RebuildTask /\ FreedOK
    /\ ~server.up => server.banned = {}

\* Enough about the threads for the properties of the next state.
LEMMA TaskFacts ==
    ASSUME FInv
    PROVE  /\ pc \in [Thread -> Task]
           /\ \A m \in freed : m \in MAC /\ m # NoMAC
           /\ "network" \in Thread /\ "gui" \in Thread
BY NameAssumption DEF FInv, TInv, TypeOK, Thread

LEMMA FirewallFreed ==
    ASSUME FInv, NEW t \in Thread, FirewallStep(t)
    PROVE  UnblockTask' /\ RebuildTask' /\ FreedOK'
<1> USE TaskFacts
<1>0. TInv /\ pc[t] \in Task
    BY DEF FInv
<1>1. CASE DeleteTables(t)
    <2>1. CASE Finish(t)
        <3>1. pc'[t] = Idle /\ \A u \in Thread \ {t} : pc'[u] = pc[u]
            BY <1>0, <2>1, FinishType
        <3> QED BY <1>1, <3>1 DEF DeleteTables, NoTables, At, FInv, UnblockTask,
                    RebuildTask, FreedOK, NotUnderway, Unbanning, Editing, Idle,
                    disk, link, dhcp, history
    <2>2. CASE GoTo(t, "create")
        <3>1. /\ pc'[t].at = "create" /\ pc'[t].op = pc[t].op /\ pc'[t].mac = pc[t].mac
              /\ pc'[t].todo = pc[t].todo /\ pc'[t].elems = pc[t].elems
              /\ \A u \in Thread \ {t} : pc'[u] = pc[u]
            BY <1>0, <2>2, GoToType DEF Label
        <3> QED BY <1>1, <3>1 DEF DeleteTables, NoTables, At, FInv, UnblockTask,
                    RebuildTask, FreedOK, NotUnderway, Unbanning, Editing,
                    disk, link, dhcp, history
    <2> QED BY <1>1, <2>1, <2>2 DEF DeleteTables
<1>2. CASE CreateTables(t)
    <2>1. /\ pc'[t].at = "flush" /\ pc'[t].op = pc[t].op /\ pc'[t].mac = pc[t].mac
          /\ pc'[t].todo = pc[t].todo /\ pc'[t].elems = pc[t].elems
          /\ \A u \in Thread \ {t} : pc'[u] = pc[u]
        BY <1>0, <1>2, GoToType DEF CreateTables, Label
    <2>2. kernel'.drops = kernel.drops
        BY <1>0, <1>2 DEF CreateTables, TInv, TypeOK
    <2> QED BY <1>2, <2>1, <2>2 DEF CreateTables, At, FInv, UnblockTask,
                RebuildTask, FreedOK, NotUnderway, Unbanning, Editing,
                disk, link, dhcp, history
<1>3. CASE EditBlocked(t)
    <2>1. /\ pc'[t].at = "flush" /\ pc'[t].op = pc[t].op /\ pc'[t].mac = pc[t].mac
          /\ pc'[t].todo = pc[t].todo /\ pc'[t].elems = pc[t].elems
          /\ \A u \in Thread \ {t} : pc'[u] = pc[u]
        BY <1>0, <1>3, GoToType DEF EditBlocked, Label
    <2>2. firewall'.blocked = IF pc[t].op = "unblock" THEN firewall.blocked \ {pc[t].mac}
                              ELSE firewall.blocked \cup {pc[t].mac}
        BY <1>0, <1>3 DEF EditBlocked, TInv, TypeOK
    <2>3. pc[t].at = "edit"
        BY <1>3 DEF EditBlocked, At
    <2>4. UnblockTask' /\ RebuildTask'
        BY <1>3, <2>1, <2>3 DEF EditBlocked, FInv, UnblockTask, RebuildTask, Editing,
           disk, link
    <2>5. ASSUME NEW m \in freed, pc[t].op # "unblock" \/ m # pc[t].mac
          PROVE  /\ m \notin firewall'.blocked
                 /\ <<gatewayMac', m>> \notin blacklist'
                 /\ \A u \in Thread : NotUnderway(u, m)'
                 /\ m \in kernel'.drops => pc'["network"].at = "flush"
                 /\ m \in dhcpBanned' \cup server'.banned => Unbanning(m)'
        BY <1>3, <2>1, <2>2, <2>3, <2>5 DEF EditBlocked, FInv, FreedOK,
           NotUnderway, Unbanning, Editing, disk, link, dhcp
    <2>6. ASSUME pc[t].op = "unblock", pc["gui"].at = "idle" \/ pc[t].mac \in freed
          PROVE  LET m == pc[t].mac
                 IN  /\ m \notin firewall'.blocked
                     /\ <<gatewayMac', m>> \notin blacklist'
                     /\ \A u \in Thread : NotUnderway(u, m)'
                     /\ m \in kernel'.drops => pc'["network"].at = "flush"
                     /\ m \in dhcpBanned' \cup server'.banned => Unbanning(m)'
        <3>1. /\ t = "network" /\ pc[t].todo = {} /\ pc[t].elems = {}
              /\ <<gatewayMac, pc[t].mac>> \notin blacklist
            BY <2>3, <2>6 DEF FInv, UnblockTask
        <3>2. \A u \in Thread : u # t => NotUnderway(u, pc[t].mac)
            <4>1. CASE pc[t].mac \in freed
                BY <4>1 DEF FInv, FreedOK
            <4>2. CASE pc["gui"].at = "idle"
                <5>1. pc["gui"] = Idle
                    BY <4>2 DEF FInv, TInv, TaskOK
                <5> QED BY <3>1, <5>1 DEF NotUnderway, Idle, Editing, Thread
            <4> QED BY <2>6, <4>1, <4>2
        <3>3. \A u \in Thread : NotUnderway(u, pc[t].mac)'
            BY <2>1, <2>6, <3>1, <3>2 DEF NotUnderway
        <3> QED BY <1>3, <2>1, <2>2, <2>6, <3>1, <3>3
                DEF EditBlocked, Unbanning, Editing, disk, link
    <2>7. FreedOK'
        BY <1>3, <2>1, <2>5, <2>6 DEF EditBlocked, FreedOK, At
    <2> QED BY <2>4, <2>7
<1>4. CASE FlushDrops(t)
    <2>1. /\ pc'[t].at = "read" /\ pc'[t].op = pc[t].op /\ pc'[t].mac = pc[t].mac
          /\ pc'[t].todo = pc[t].todo /\ pc'[t].elems = pc[t].elems
          /\ \A u \in Thread \ {t} : pc'[u] = pc[u]
        BY <1>0, <1>4, GoToType DEF FlushDrops, Label
    <2>2. kernel'.drops = {}
        BY <1>0, <1>4 DEF FlushDrops, TInv, TypeOK
    <2> QED BY <1>4, <2>1, <2>2 DEF FlushDrops, At, FInv, UnblockTask,
                RebuildTask, FreedOK, NotUnderway, Unbanning, Editing,
                disk, link, dhcp, history
<1>5. CASE ReadBlocked(t)
    <2>1. pc'[t] = [pc[t] EXCEPT !.elems = firewall.blocked, !.at = "add"]
        BY <1>5 DEF ReadBlocked, Becomes
    <2>2. /\ pc'[t].at = "add" /\ pc'[t].op = pc[t].op /\ pc'[t].mac = pc[t].mac
          /\ pc'[t].todo = pc[t].todo /\ pc'[t].elems = firewall.blocked
        BY <1>0, <2>1 DEF Task
    <2>3. \A u \in Thread \ {t} : pc'[u] = pc[u]
        BY <1>5 DEF ReadBlocked, Becomes
    <2> QED BY <1>5, <2>2, <2>3 DEF ReadBlocked, At, FInv, UnblockTask,
                RebuildTask, FreedOK, NotUnderway, Unbanning, Editing,
                disk, link, dhcp, history
<1>6. CASE AddDrops(t)
    <2>1. pc'[t] = [pc[t] EXCEPT !.elems = {}, !.at = AfterSync(pc[t])]
        BY <1>6 DEF AddDrops, Becomes
    <2>2. /\ pc'[t].at = AfterSync(pc[t]) /\ pc'[t].op = pc[t].op
          /\ pc'[t].mac = pc[t].mac /\ pc'[t].todo = pc[t].todo /\ pc'[t].elems = {}
        BY <1>0, <2>1 DEF Task
    <2>3. \A u \in Thread \ {t} : pc'[u] = pc[u]
        BY <1>6 DEF AddDrops, Becomes
    <2>4. kernel'.drops \subseteq kernel.drops \cup pc[t].elems
        BY <1>0, <1>6 DEF AddDrops, TInv, TypeOK
    <2>5. /\ AfterSync(pc[t]) \in {"list", "next", "dhcp"}
          /\ pc[t].op = "unblock" /\ pc[t].mac # NoMAC => AfterSync(pc[t]) = "dhcp"
        BY DEF AfterSync
    <2>6. UnblockTask' /\ RebuildTask'
        BY <1>6, <2>2, <2>3, <2>5 DEF AddDrops, At, FInv, UnblockTask,
                RebuildTask, Editing, disk, link
    <2>7. FreedOK'
        BY <1>6, <2>2, <2>3, <2>4, <2>5 DEF AddDrops, At, FInv, UnblockTask,
                FreedOK, NotUnderway, Unbanning, Editing, disk, link, dhcp, history
    <2> QED BY <2>6, <2>7
<1> QED BY <1>1, <1>2, <1>3, <1>4, <1>5, <1>6 DEF FirewallStep

LEMMA ReapplyFreed ==
    ASSUME FInv, NEW t \in Thread,
           ListBlacklist(t) \/ ReapplyNext(t) \/ ReapplyDone(t)
    PROVE  UnblockTask' /\ RebuildTask' /\ FreedOK'
<1> USE TaskFacts
<1>0. TInv /\ pc[t] \in Task
    BY DEF FInv
<1>1. CASE ListBlacklist(t)
    <2> DEFINE due == IF pc[t].op = "start" THEN Listed(gatewayMac)
                      ELSE Listed(gatewayMac) \cap Known
    <2>1. pc'[t] = [pc[t] EXCEPT !.at = "next", !.todo = due]
        BY <1>1 DEF ListBlacklist, Becomes
    <2>2. /\ pc'[t].at = "next" /\ pc'[t].op = pc[t].op /\ pc'[t].mac = pc[t].mac
          /\ pc'[t].todo = due /\ pc'[t].elems = pc[t].elems
        BY <1>0, <2>1 DEF Task
    <2>3. \A u \in Thread \ {t} : pc'[u] = pc[u]
        BY <1>1 DEF ListBlacklist, Becomes
    <2>4. \A m \in freed : m \notin due
        BY DEF FInv, FreedOK, Listed
    <2> HIDE DEF due
    <2> QED BY <1>1, <2>2, <2>3, <2>4 DEF ListBlacklist, At, FInv, UnblockTask,
                RebuildTask, FreedOK, NotUnderway, Unbanning, Editing, disk, link, dhcp
<1>2. CASE ReapplyNext(t)
    <2>1. PICK n \in pc[t].todo :
            Becomes(t, [pc[t] EXCEPT !.at = "edit", !.mac = n, !.todo = @ \ {n}])
        BY <1>2 DEF ReapplyNext
    <2>2. pc'[t] = [pc[t] EXCEPT !.at = "edit", !.mac = n, !.todo = @ \ {n}]
        BY <2>1 DEF Becomes
    <2>3. /\ pc'[t].at = "edit" /\ pc'[t].op = pc[t].op /\ pc'[t].mac = n
          /\ pc'[t].todo = pc[t].todo \ {n} /\ pc'[t].elems = pc[t].elems
        BY <1>0, <2>2 DEF Task
    <2>4. \A u \in Thread \ {t} : pc'[u] = pc[u]
        BY <2>1 DEF Becomes
    <2>5. pc[t].op # "unblock"
        BY <1>2 DEF ReapplyNext, At, FInv, UnblockTask, Editing
    <2>6. pc[t].at = "next"
        BY <1>2 DEF ReapplyNext, At
    <2>7. UnblockTask' /\ RebuildTask'
        <3>1. blacklist' = blacklist /\ gatewayMac' = gatewayMac
            BY <1>2 DEF ReapplyNext, disk, link
        <3> QED BY <2>3, <2>4, <2>5, <3>1 DEF FInv, UnblockTask, RebuildTask
    <2>8. \A m \in freed : \A u \in Thread : NotUnderway(u, m)'
        <3>1. ASSUME NEW m \in freed PROVE NotUnderway(t, m)'
            <4>1. m \notin pc[t].elems /\ m \notin pc[t].todo
                BY DEF FInv, FreedOK, NotUnderway
            <4> QED BY <2>3, <4>1 DEF NotUnderway
        <3>2. ASSUME NEW m \in freed, NEW u \in Thread, u # t
              PROVE  NotUnderway(u, m)'
            <4>1. NotUnderway(u, m)
                BY DEF FInv, FreedOK
            <4>2. pc'[u] = pc[u]
                BY <2>4, <3>2
            <4> QED BY <4>1, <4>2 DEF NotUnderway
        <3> QED BY <3>1, <3>2
    <2>9. FreedOK'
        <3>1. /\ freed' = freed /\ firewall' = firewall /\ kernel' = kernel
              /\ blacklist' = blacklist /\ gatewayMac' = gatewayMac
              /\ dhcpBanned' = dhcpBanned /\ server' = server
            BY <1>2 DEF ReapplyNext, disk, link, dhcp
        <3>2. ASSUME NEW m \in freed
              PROVE  /\ m \notin firewall.blocked
                     /\ <<gatewayMac, m>> \notin blacklist
                     /\ m \in kernel.drops => pc'["network"].at = "flush"
                     /\ m \in dhcpBanned \cup server.banned => Unbanning(m)'
            <4>1. t # "network" => pc'["network"] = pc["network"]
                BY <2>4
            <4> QED BY <2>5, <2>6, <4>1 DEF FInv, FreedOK, Unbanning
        <3> QED BY <2>8, <3>1, <3>2 DEF FreedOK
    <2> QED BY <2>7, <2>9
<1>3. CASE ReapplyDone(t)
    <2>1. pc'[t] = Idle /\ \A u \in Thread \ {t} : pc'[u] = pc[u]
        BY <1>0, <1>3, FinishType DEF ReapplyDone
    <2> QED BY <1>3, <2>1 DEF ReapplyDone, At, FInv, UnblockTask, Idle,
                RebuildTask, FreedOK, NotUnderway, Unbanning, Editing,
                disk, link, dhcp, history
<1> QED BY <1>1, <1>2, <1>3

\* The network thread takes up a call that is not an unblock.
LEMMA BeginFreed ==
    ASSUME FInv, NEW t \in Thread, pc[t].at = "idle",
           NEW l \in Label \ Editing, l # "idle", NEW o \in Operation \ {"unblock"},
           NEW m \in MAC \cup {NoMAC},
           l \in {"engage", "disengage", "clear", "delete", "create"} => m = NoMAC,
           l = "record" => m # NoMAC,
           Begin(t, l, o, m),
           blacklist' = blacklist, gatewayMac' = gatewayMac, freed' = freed,
           dhcpBanned' = dhcpBanned, server'.banned \subseteq server.banned,
           firewall'.blocked = firewall.blocked, kernel' = kernel
    PROVE  UnblockTask' /\ RebuildTask' /\ FreedOK'
<1>1. /\ pc'[t].at = l /\ pc'[t].op = o /\ pc'[t].mac = m
      /\ pc'[t].todo = {} /\ pc'[t].elems = {}
      /\ \A u \in Thread \ {t} : pc'[u] = pc[u]
    BY BeginType DEF FInv, Editing
<1>2. UnblockTask' /\ RebuildTask'
    BY <1>1 DEF FInv, UnblockTask, RebuildTask
<1>3. \A d \in freed : \A u \in Thread : NotUnderway(u, d)'
    BY <1>1 DEF FInv, FreedOK, NotUnderway
<1>4. FreedOK'
    BY <1>1, <1>3, TaskFacts DEF FInv, FreedOK, Unbanning, Editing
<1> QED BY <1>2, <1>4

LEMMA NetworkFreed ==
    ASSUME FInv, NetworkStep
    PROVE  UnblockTask' /\ RebuildTask' /\ FreedOK'
<1> USE TaskFacts
<1>0. TInv /\ pc["network"] \in Task
    BY DEF FInv
<1>n. \A m \in MAC : m # NoMAC
    BY NameAssumption
<1>1. CASE Activate
    <2>1. firewall'.blocked = firewall.blocked
        BY <1>0, <1>1 DEF Activate, TInv, TypeOK
    <2> QED BY <1>1, <2>1, BeginFreed DEF Activate, Free, Label, Operation, Editing,
                disk, link, dhcp, history
<1>2. ASSUME NEW m \in MAC, BlockDevice(m)
      PROVE  UnblockTask' /\ RebuildTask' /\ FreedOK'
    BY <1>2, <1>n, BeginFreed DEF BlockDevice, NetworkReady, Free, Label, Operation,
       Editing, disk, link, dhcp, history
<1>3. ASSUME NEW m \in MAC, EnforceStrictModeBlock(m)
      PROVE  UnblockTask' /\ RebuildTask' /\ FreedOK'
    BY <1>3, <1>n, BeginFreed DEF EnforceStrictModeBlock, NetworkReady, Free, Label,
       Operation, Editing, disk, link, dhcp, history
<1>4. ASSUME NEW p \in MAC, NEW m \in MAC, PossibleMacRotation(p, m)
      PROVE  UnblockTask' /\ RebuildTask' /\ FreedOK'
    BY <1>4, <1>n, BeginFreed DEF PossibleMacRotation, NetworkReady, Free, Label,
       Operation, Editing, disk, link, dhcp
<1>5. ASSUME NEW m \in MAC, UnblockDevice(m)
      PROVE  UnblockTask' /\ RebuildTask' /\ FreedOK'
    <2>1. /\ pc'["network"].at = "edit" /\ pc'["network"].op = "unblock"
          /\ pc'["network"].mac = m /\ pc'["network"].todo = {}
          /\ pc'["network"].elems = {}
          /\ \A u \in Thread \ {"network"} : pc'[u] = pc[u]
        BY <1>0, <1>5, <1>n, BeginType DEF UnblockDevice, Label, Operation
    <2>2. pc["network"].at = "idle"
        BY <1>5 DEF UnblockDevice, NetworkReady, Free
    <2>3. blacklist' = blacklist \ {<<gatewayMac, m>>} /\ gatewayMac' = gatewayMac
        BY <1>5 DEF UnblockDevice, link
    <2> QED BY <1>5, <1>n, <2>1, <2>2, <2>3 DEF UnblockDevice, FInv, UnblockTask,
                RebuildTask, FreedOK, NotUnderway, Unbanning, Editing, dhcp, history
<1>6. CASE RecordBlock
    <2> DEFINE n == pc["network"].mac
    <2>1. /\ pc'["network"].at = "edit" /\ pc'["network"].op = pc["network"].op
          /\ pc'["network"].mac = n /\ pc'["network"].todo = pc["network"].todo
          /\ pc'["network"].elems = pc["network"].elems
          /\ \A u \in Thread \ {"network"} : pc'[u] = pc[u]
        <3>1. n # NoMAC
            BY <1>0, <1>6 DEF RecordBlock, At, TInv, TaskOK
        <3> QED BY <1>0, <1>6, <3>1, GoToType DEF RecordBlock, Label
    <2>2. pc["network"].at = "record" /\ pc["network"].op # "unblock"
        BY <1>6 DEF RecordBlock, At, FInv, UnblockTask, Editing
    <2>3. /\ blacklist' = blacklist \cup {<<gatewayMac, n>>}
          /\ gatewayMac' = gatewayMac /\ freed' = freed \ {n}
        BY <1>6 DEF RecordBlock, link
    <2>4. UnblockTask' /\ RebuildTask'
        BY <2>1, <2>2 DEF FInv, UnblockTask, RebuildTask, Editing, Thread
    <2>5. FreedOK'
        BY <1>6, <2>1, <2>2, <2>3 DEF RecordBlock, FInv, FreedOK, NotUnderway,
           Unbanning, Editing, dhcp
    <2> QED BY <2>4, <2>5
<1>7. CASE UpdateBans
    <2> DEFINE n == pc["network"].mac
    <2>1. pc["network"].at = "dhcp"
        BY <1>7 DEF UpdateBans, At
    <2>2. /\ pc["network"].op = "unblock" => dhcpBanned' = dhcpBanned \ {n}
          /\ pc["network"].op # "unblock" => dhcpBanned' = dhcpBanned \cup {n}
          /\ server'.banned = IF server.up THEN dhcpBanned' ELSE server.banned
        BY <1>0, <1>7 DEF UpdateBans, TInv, TypeOK
    <2>3. \A m \in freed : m \notin dhcpBanned' \cup server'.banned
        BY <2>1, <2>2 DEF FInv, FreedOK, NotUnderway, Unbanning, Editing
    <2>4. CASE GoTo("network", "next") /\ pc["network"].op = "activate"
        <3>1. /\ pc'["network"].at = "next" /\ pc'["network"].op = pc["network"].op
              /\ pc'["network"].mac = n /\ pc'["network"].todo = pc["network"].todo
              /\ pc'["network"].elems = pc["network"].elems
              /\ \A u \in Thread \ {"network"} : pc'[u] = pc[u]
            BY <1>0, <2>4, GoToType DEF Label
        <3> QED BY <1>7, <2>1, <2>3, <2>4, <3>1 DEF UpdateBans, FInv, UnblockTask,
                    RebuildTask, FreedOK, NotUnderway, Editing, disk, link, history
    <2>5. CASE Finish("network")
        <3>1. /\ pc'["network"] = Idle
              /\ \A u \in Thread \ {"network"} : pc'[u] = pc[u]
            BY <1>0, <2>5, FinishType
        <3> QED BY <1>7, <2>1, <2>3, <3>1 DEF UpdateBans, FInv, UnblockTask, Idle,
                    RebuildTask, FreedOK, NotUnderway, Editing, disk, link, history
    <2> QED BY <1>7, <2>4, <2>5 DEF UpdateBans
<1>8. ASSUME NEW g \in Gateway, SetGatewayMac(g)
      PROVE  UnblockTask' /\ RebuildTask' /\ FreedOK'
    <2>1. pc["network"].at = "idle" /\ pc' = pc /\ freed' = {}
        BY <1>8 DEF SetGatewayMac, NetworkReady, Free
    <2> QED BY <2>1 DEF FInv, UnblockTask, RebuildTask, FreedOK, Editing
<1> QED BY <1>1, <1>2, <1>3, <1>4, <1>5, <1>6, <1>7, <1>8 DEF NetworkStep

LEMMA GuiFreed ==
    ASSUME FInv, GuiStep
    PROVE  UnblockTask' /\ RebuildTask' /\ FreedOK'
<1> USE TaskFacts
<1>0. TInv /\ pc["gui"] \in Task
    BY DEF FInv
<1>1. CASE StartServer
    <2>1. /\ pc["gui"].at = "idle" /\ server'.banned \subseteq server.banned
          /\ blacklist' = blacklist /\ gatewayMac' = gatewayMac /\ freed' = freed
          /\ dhcpBanned' = dhcpBanned /\ firewall' = firewall /\ kernel' = kernel
        BY <1>1 DEF StartServer, Free, disk, link, history
    <2>2. CASE Begin("gui", "engage", "start", NoMAC)
        BY <2>1, <2>2, BeginFreed DEF Label, Operation, Editing
    <2>3. CASE pc' = pc
        BY <2>1, <2>3 DEF FInv, UnblockTask, RebuildTask, FreedOK, NotUnderway, Unbanning
    <2> QED BY <1>1, <2>2, <2>3 DEF StartServer
<1>2. CASE StopServer
    <2>1. /\ pc["gui"].at = "idle" /\ server'.banned \subseteq server.banned
          /\ blacklist' = blacklist /\ gatewayMac' = gatewayMac /\ freed' = freed
          /\ dhcpBanned' = dhcpBanned /\ firewall' = firewall /\ kernel' = kernel
        BY <1>2 DEF StopServer, NoServer, Free, disk, link, history
    <2>2. CASE Begin("gui", "disengage", "stop", NoMAC)
        BY <2>1, <2>2, BeginFreed DEF Label, Operation, Editing
    <2>3. CASE pc' = pc
        BY <2>1, <2>3 DEF FInv, UnblockTask, RebuildTask, FreedOK, NotUnderway, Unbanning
    <2> QED BY <1>2, <2>2, <2>3 DEF StopServer
<1>3. ASSUME NEW l \in {"delete", "clear"}, GoTo("gui", l),
             pc["gui"].at \in {"engage", "disengage", "clear"},
             blacklist' = blacklist, gatewayMac' = gatewayMac, freed' = freed,
             dhcpBanned' = dhcpBanned, server' = server, kernel' = kernel,
             firewall'.blocked \subseteq firewall.blocked
      PROVE  UnblockTask' /\ RebuildTask' /\ FreedOK'
    <2>1. /\ pc'["gui"].at = l /\ pc'["gui"].op = pc["gui"].op
          /\ pc'["gui"].mac = pc["gui"].mac /\ pc'["gui"].todo = pc["gui"].todo
          /\ pc'["gui"].elems = pc["gui"].elems /\ pc'["network"] = pc["network"]
        BY <1>0, <1>3, GoToType DEF Label, Thread
    <2>2. UnblockTask' /\ RebuildTask'
        BY <1>3, <2>1 DEF FInv, UnblockTask, RebuildTask, Thread
    <2>3. \A m \in freed : \A u \in Thread : NotUnderway(u, m)'
        BY <1>3, <2>1 DEF FInv, FreedOK, NotUnderway, Editing, Thread
    <2>4. FreedOK'
        BY <1>3, <2>1, <2>3 DEF FInv, FreedOK, Unbanning
    <2> QED BY <2>2, <2>4
<1>4. CASE EngageGateway
    <2>1. firewall'.blocked = firewall.blocked
        BY <1>0, <1>4 DEF EngageGateway, TInv, TypeOK
    <2> QED BY <1>3, <1>4, <2>1 DEF EngageGateway, At, disk, dhcp, history
<1>5. CASE DisengageGateway
    <2>1. firewall'.blocked = firewall.blocked
        BY <1>0, <1>5 DEF DisengageGateway, TInv, TypeOK
    <2> QED BY <1>3, <1>5, <2>1 DEF DisengageGateway, At, disk, dhcp
<1>6. CASE ClearBlocked
    <2>1. firewall'.blocked = {}
        BY <1>0, <1>6 DEF ClearBlocked, TInv, TypeOK
    <2> QED BY <1>3, <1>6, <2>1 DEF ClearBlocked, At, disk, link, dhcp, history
<1> QED BY <1>1, <1>2, <1>4, <1>5, <1>6 DEF GuiStep

LEMMA EndFreed ==
    ASSUME FInv, Crash \/ CloseEvent \/ Boot
    PROVE  UnblockTask' /\ RebuildTask' /\ FreedOK'
<1>1. ASSUME Forget PROVE UnblockTask' /\ RebuildTask' /\ FreedOK'
    <2>1. freed' = {} /\ \A t \in Thread : pc'[t] = Idle
        BY <1>1 DEF Forget
    <2> QED BY <2>1 DEF UnblockTask, RebuildTask, FreedOK, Idle
<1>2. CASE Boot
    <2>1. kernel'.drops = {} /\ pc' = pc /\ blacklist' = blacklist
        BY <1>2 DEF Boot, NoTables, memory
    <2>2. UNCHANGED <<gatewayMac, firewall, dhcpBanned, server, freed>>
        BY <1>2 DEF Boot, memory, link, dhcp, history
    <2> QED BY <2>1, <2>2 DEF FInv, UnblockTask, RebuildTask, FreedOK, NotUnderway,
                Unbanning
<1> QED BY <1>1, <1>2 DEF Crash, CloseEvent

\* A server that is not there bans nobody.
LEMMA ServerStep ==
    ASSUME FInv, Next
    PROVE  ~server'.up => server'.banned = {}
<1>1. ASSUME server' = server PROVE ~server'.up => server'.banned = {}
    BY <1>1 DEF FInv
<1>2. CASE UpdateBans
    <2>1. server.up => server'.up
        BY <1>2 DEF UpdateBans, FInv, TInv, TypeOK
    <2> QED BY <1>2, <2>1 DEF UpdateBans, FInv
<1>3. CASE StartServer \/ StopServer
    BY <1>3 DEF StartServer, StopServer, NoServer
<1>4. ASSUME Forget PROVE ~server'.up => server'.banned = {}
    BY <1>4 DEF Forget, NoServer
<1>5. ASSUME NEW t \in Thread,
             FirewallStep(t) \/ ListBlacklist(t) \/ ReapplyNext(t) \/ ReapplyDone(t)
      PROVE  server' = server
    BY <1>5 DEF FirewallStep, DeleteTables, CreateTables, EditBlocked, FlushDrops,
       ReadBlocked, AddDrops, ListBlacklist, ReapplyNext, ReapplyDone, dhcp
<1>6. ASSUME NetworkStep, ~UpdateBans PROVE server' = server
    BY <1>6 DEF NetworkStep, Activate, BlockDevice, EnforceStrictModeBlock,
       UnblockDevice, PossibleMacRotation, RecordBlock, SetGatewayMac, dhcp
<1>7. ASSUME GuiStep, ~StartServer, ~StopServer PROVE server' = server
    BY <1>7 DEF GuiStep, EngageGateway, DisengageGateway, ClearBlocked, dhcp
<1>8. CASE Boot
    BY <1>1, <1>8 DEF Boot, memory, dhcp
<1> QED BY <1>1, <1>2, <1>3, <1>4, <1>5, <1>6, <1>7, <1>8 DEF Next, Crash, CloseEvent

LEMMA FreedInit == Init => FInv
<1> SUFFICES ASSUME Init PROVE FInv
    OBVIOUS
<1>1. freed = {} /\ server = NoServer /\ \A t \in Thread : pc[t] = Idle
    BY DEF Init
<1> QED BY <1>1, TypeInit DEF FInv, UnblockTask, RebuildTask, FreedOK, Idle, NoServer

LEMMA FreedStep == FInv /\ [Next]_vars => FInv'
<1> SUFFICES ASSUME FInv, [Next]_vars PROVE FInv'
    OBVIOUS
<1>1. TInv'
    BY TypeStep DEF FInv
<1>2. CASE UNCHANGED vars
    <2>1. UNCHANGED <<blacklist, gatewayMac, firewall, kernel, dhcpBanned, server, pc, freed>>
        BY <1>2 DEF vars, memory, disk, link, dhcp, history
    <2> QED BY <1>1, <2>1 DEF FInv, UnblockTask, RebuildTask, FreedOK, NotUnderway,
                Unbanning
<1>3. CASE Next
    <2>1. ASSUME NEW t \in Thread,
                 FirewallStep(t) \/ ListBlacklist(t) \/ ReapplyNext(t) \/ ReapplyDone(t)
          PROVE  UnblockTask' /\ RebuildTask' /\ FreedOK'
        BY <2>1, FirewallFreed, ReapplyFreed
    <2>2. UnblockTask' /\ RebuildTask' /\ FreedOK'
        BY <1>3, <2>1, NetworkFreed, GuiFreed, EndFreed DEF Next
    <2> QED BY <1>1, <1>3, <2>2, ServerStep DEF FInv
<1> QED BY <1>2, <1>3

\* A device unblocked while the GUI thread is at rest is neither dropped by the
\* kernel nor refused a lease until somebody blocks it again: neither a rebuilt
\* firewall nor a list applied anew brings the block back.
THEOREM UnblockIsLasting == Spec => []UnblockHolds
<1>1. Spec => []FInv
    BY FreedInit, FreedStep, PTL DEF Spec
<1>2. FInv => UnblockHolds
    BY DEF FInv, FreedOK, UnblockHolds, Quiet, Unbanning, Editing, Thread
<1> QED BY <1>1, <1>2, PTL
=============================================================================
