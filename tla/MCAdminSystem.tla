---------------------------- MODULE MCAdminSystem ----------------------------
(* The instance: a group "old hand" is sent as "old", the other name as it is. *)
EXTENDS AdminSystem, TLC

MCStripped == "oldhand" :> "old" @@ "old" :> "old"

\* A bound on starts of the server and requests of the pages together.
Budget == starts + count <= 4
=============================================================================
