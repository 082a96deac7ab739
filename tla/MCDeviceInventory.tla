-------------------------- MODULE MCDeviceInventory --------------------------
(* Constants for model-checking DeviceInventory. *)
EXTENDS DeviceInventory, TLC

CONSTANTS h, g, a, b, own, n, hostIP, gwIP, x, y

\* The gateway and this machine at their addresses, a device that moves, one
\* that takes over its address, and a frame this machine forwarded.
MCSighting ==
    {<<hostIP, h>>, <<gwIP, g>>, <<x, a>>, <<y, a>>, <<x, b>>, <<x, h>>}

MCNameOf == [mac \in MAC |-> n]

\* The vendor of one device is known.
MCLabel == [mac \in MAC \cup {Checking} |-> IF mac = b THEN n ELSE Unknown]

\* The lease file knows the gateway and one device.
MCLeaseName == [ip \in IP |-> IF ip \in {gwIP, x} THEN n ELSE Unknown]
=============================================================================
