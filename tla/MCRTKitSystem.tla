--------------------------- MODULE MCRTKitSystem ---------------------------
(* RTKitSystem with one log endpoint and one DCP endpoint, so that EPMAP   *)
(* takes two chunks, and one interrupt line.                               *)
EXTENDS RTKitSystem, TLC

MCLogEps == {1}
MCDeviceEps == {36}
MCHwirqs == {7}
=============================================================================
