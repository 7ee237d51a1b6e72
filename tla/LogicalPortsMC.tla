--------------------------- MODULE LogicalPortsMC ---------------------------
(* Port 1 is an NNI port of the OLT (the root device), port 2 a UNI port   *)
(* of an ONU.                                                              *)
EXTENDS LogicalPorts

MCDeviceOf == [p \in PortIds |-> IF p = 1 THEN "olt" ELSE "onu"]
=============================================================================
