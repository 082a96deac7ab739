-------------------------------- MODULE Tools --------------------------------
(***************************************************************************)
(* The parts of the program beside the network's core: look-ups of vendors *)
(* and names, router detection, the audits, traffic accounting and its     *)
(* history, and the calculator.  Each has threads, queues and pages of its *)
(* own, and none reads what another writes.  So that they can be checked   *)
(* together without a product of their states, a behaviour chooses one of  *)
(* them, and the others do not move: what a property of one part sees is   *)
(* the same.                                                               *)
(***************************************************************************)
EXTENDS VendorLookup, NameResolution, RouterDetection, PortAudit, VulnSweep,
        IntelLookup, Traffic, SampleStore, AddressCalc

VARIABLE tool   \* the part that moves

vars == <<vendorVars, nameVars, routerVars, auditVars, sweepVars,
          intelVars, trafficVars, storeVars, calcVars, tool>>

-----------------------------------------------------------------------------

Tool == {"vendors", "names", "router", "audit", "sweep", "intel", "traffic", "store", "calculator"}

TypeOK ==
    /\ tool \in Tool
    /\ VendorTypeOK /\ NamesTypeOK /\ RouterTypeOK /\ AuditTypeOK
    /\ SweepTypeOK /\ IntelTypeOK /\ TrafficTypeOK /\ StoreTypeOK /\ CalcTypeOK

Init ==
    /\ tool \in Tool
    /\ VendorInit /\ NamesInit /\ RouterInit /\ AuditInit
    /\ SweepInit /\ IntelInit /\ TrafficInit /\ StoreInit /\ CalcInit

Vendors ==
    /\ tool = "vendors" /\ VendorStep
    /\ UNCHANGED <<nameVars, routerVars, auditVars, sweepVars, intelVars, trafficVars, storeVars, calcVars, tool>>

Names ==
    /\ tool = "names" /\ NamesStep
    /\ UNCHANGED <<vendorVars, routerVars, auditVars, sweepVars, intelVars, trafficVars, storeVars, calcVars, tool>>

Router ==
    /\ tool = "router" /\ RouterStep
    /\ UNCHANGED <<vendorVars, nameVars, auditVars, sweepVars, intelVars, trafficVars, storeVars, calcVars, tool>>

Audit ==
    /\ tool = "audit" /\ AuditStep
    /\ UNCHANGED <<vendorVars, nameVars, routerVars, sweepVars, intelVars, trafficVars, storeVars, calcVars, tool>>

VulnerabilitySweep ==
    /\ tool = "sweep" /\ SweepStep
    /\ UNCHANGED <<vendorVars, nameVars, routerVars, auditVars, intelVars, trafficVars, storeVars, calcVars, tool>>

Intelligence ==
    /\ tool = "intel" /\ IntelStep
    /\ UNCHANGED <<vendorVars, nameVars, routerVars, auditVars, sweepVars, trafficVars, storeVars, calcVars, tool>>

Accounting ==
    /\ tool = "traffic" /\ TrafficStep
    /\ UNCHANGED <<vendorVars, nameVars, routerVars, auditVars, sweepVars, intelVars, storeVars, calcVars, tool>>

Store ==
    /\ tool = "store" /\ StoreStep
    /\ UNCHANGED <<vendorVars, nameVars, routerVars, auditVars, sweepVars, intelVars, trafficVars, calcVars, tool>>

Calculator ==
    /\ tool = "calculator" /\ CalcStep
    /\ UNCHANGED <<vendorVars, nameVars, routerVars, auditVars, sweepVars, intelVars, trafficVars, storeVars, tool>>

Next ==
    \/ Vendors \/ Names \/ Router \/ Audit \/ VulnerabilitySweep
    \/ Intelligence \/ Accounting \/ Store \/ Calculator

Spec == Init /\ [][Next]_vars
=============================================================================
