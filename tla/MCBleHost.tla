------------------------------ MODULE MCBleHost ------------------------------
(* Constants for the model checker: a mouse that also declares keyboard        *)
(* reports and a keyboard, for a chip that serves mice or a board for both.    *)
EXTENDS BleHost

CONSTANTS mouse1, kbd, beacon

MCPeers   == {mouse1, kbd}
MCClasses == {"keyboard", "mouse"}
MCUsage   == [p \in MCPeers |-> IF p = kbd THEN {"keyboard"} ELSE MCClasses]
MCMouseChip == {"mouse"}
MCBoth      == MCClasses
MCBeacons == {beacon}

===============================================================================
