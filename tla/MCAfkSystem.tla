---------------------------- MODULE MCAfkSystem ----------------------------
(* The DCP's three endpoints 0x23, 0x24 and 0x25, which share one state.   *)
EXTENDS AfkSystem, TLC

MCLogEps == {}
MCDeviceEps == {35, 36, 37}
MCHwirqs == {7}
=============================================================================
