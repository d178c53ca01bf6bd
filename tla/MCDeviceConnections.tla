-------------------------- MODULE MCDeviceConnections --------------------------
(***************************************************************************)
(* Small instances of DeviceConnections for TLC.                           *)
(***************************************************************************)
EXTENDS DeviceConnections, TLC

CONSTANTS c1, c2, A, B, n1, n2

TwoConns     == {c1, c2}
TwoInstances == {A, B}
OneName      == {n1}
TwoNames     == {n1, n2}

=============================================================================
