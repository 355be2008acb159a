---------------------------- MODULE MCAscSystem ----------------------------
(* Both mailboxes of the machine, the DCP's interrupt above the ANS's.     *)
EXTENDS AscSystem, TLC

MCMailboxes == {"dcp", "ans"}
MCAns == {"ans"}
MCHwirqOf == [s \in MCMailboxes |-> IF s = "dcp" THEN 680 ELSE 640]
MCHwirqs == {640, 680}
=============================================================================
