--------------------------- MODULE MCDeviceEngine ---------------------------
(* TLC instances of DeviceEngine. *)
EXTENDS DeviceEngine

CONSTANTS j1, j2, j3, j4

\* j1 has two monkeys, j2 one; the interval of j3 passes over its end seed; j4
\* has no monkey.  j1 and j2 belong to one profile.
MCSeeds == [j \in Jobs |->
    CASE j = j1 -> [start |-> 1, end |-> 2, interval |-> 1]
      [] j = j2 -> [start |-> 1, end |-> 1, interval |-> 1]
      [] j = j3 -> [start |-> 1, end |-> 2, interval |-> 2]
      [] OTHER  -> [start |-> 2, end |-> 1, interval |-> 1]]
MCProfileOf == [j \in Jobs |-> IF j \in {j1, j2} THEN "p" ELSE "q"]
MCDirectories == {"p", "q"}
=============================================================================
