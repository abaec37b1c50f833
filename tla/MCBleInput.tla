------------------------------- MODULE MCBleInput -------------------------------
\* A keyboard that, as the AULA F99 Pro does, declares mouse reports too, and a mouse.
EXTENDS BleInput

CONSTANTS kbd, mouse1, a

MCPeers == {kbd, mouse1}
MCUsage == [p \in MCPeers |-> IF p = kbd THEN {"keyboard", "mouse"} ELSE {"mouse"}]
MCHoldable == {a}
================================================================================
