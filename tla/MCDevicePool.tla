----------------------------- MODULE MCDevicePool -----------------------------
(* DevicePool on a small instance: two phones, two Device objects each, three *)
(* jobs.                                                                       *)
EXTENDS DevicePool

CONSTANTS s1, s2

\* Two applications on the one phone, so that it gets a queue, one on the other.
AppsHere == [s \in {s1, s2} |-> IF s = s1 THEN 2 ELSE 1]
=============================================================================
