----------------------------- MODULE MCAdminPages -----------------------------
(* The instance: a group "old hand" is sent as "old", the other name as it is. *)
EXTENDS AdminPages, TLC

MCStripped == "oldhand" :> "old" @@ "old" :> "old"
Windows == Permutations(Pages)
=============================================================================
