------------------------------ MODULE JobQueue ------------------------------
(***************************************************************************)
(* What the owner of a device may rely on when jobs are submitted to it: a *)
(* queue that serves one job at a time, in the order of submission, where  *)
(* a job that has ended stays so and only a stop or the end of the server  *)
(* loses one.  DeviceEngine implements it.                                 *)
(*                                                                         *)
(* A stop of all jobs is not what its comments say: it leaves some of the  *)
(* waiting jobs, in the reverse order.                                     *)
(***************************************************************************)
CONSTANTS
    Jobs,  \* what can be submitted
    Nil    \* no job

VARIABLES
    open,     \* jobs can be submitted
    active,   \* the job that is served
    waiting,  \* the jobs that wait
    before,   \* the pairs of waiting jobs the first of which will be served first
    fate      \* fate[j]: "none" until submitted, "alive", and then how j ended

qvars == <<open, active, waiting, before, fate>>

Init ==
    /\ open = TRUE
    /\ active = Nil
    /\ waiting = {}
    /\ before = {}
    /\ fate = [j \in Jobs |-> "none"]

\* The order among the jobs of W.
Among(W) == before \cap (W \X W)

\* j waits, behind none.
IsNext(j) == j \in waiting /\ \A k \in waiting \ {j} : <<j, k>> \in before

Submit(j) ==
    /\ open
    /\ fate[j] = "none"
    /\ fate' = [fate EXCEPT ![j] = "alive"]
    /\ IF active = Nil
       THEN active' = j /\ UNCHANGED <<waiting, before>>
       ELSE /\ waiting' = waiting \cup {j}
            /\ before' = before \cup (waiting \X {j})
            /\ UNCHANGED active
    /\ UNCHANGED open

\* The active job ends and the next one becomes active.
End(how) ==
    /\ active # Nil
    /\ fate[active] = "alive"
    /\ fate' = [fate EXCEPT ![active] = how]
    /\ \/ waiting = {} /\ active' = Nil /\ UNCHANGED <<waiting, before>>
       \/ \E j \in waiting :
             /\ IsNext(j)
             /\ active' = j
             /\ waiting' = waiting \ {j}
             /\ before' = Among(waiting')
    /\ UNCHANGED open

Withdraw(j) ==
    /\ j \in waiting
    /\ waiting' = waiting \ {j}
    /\ before' = Among(waiting')
    /\ UNCHANGED <<open, active, fate>>

\* Of the jobs behind one that is left only one, the newest of all, can go.
WithdrawSome(W) ==
    /\ \A j \in W : \A k, l \in waiting \ W :
          <<j, k>> \in before /\ <<j, l>> \in before => k = l
    /\ waiting' = W
    /\ before' = {<<p[2], p[1]>> : p \in Among(W)}
    /\ UNCHANGED <<open, active, fate>>

Close ==
    /\ open
    /\ open' = FALSE
    /\ active' = Nil
    /\ waiting' = {}
    /\ before' = {}
    /\ fate' = [j \in Jobs |-> IF fate[j] = "alive" THEN "gone" ELSE fate[j]]

Open ==
    /\ ~open
    /\ open' = TRUE
    /\ UNCHANGED <<active, waiting, before, fate>>

Next ==
    \/ \E j \in Jobs : Submit(j) \/ Withdraw(j)
    \/ \E how \in {"done", "aborting"} : End(how)
    \/ \E W \in SUBSET waiting : WithdrawSome(W)
    \/ Close
    \/ Open

Spec == Init /\ [][Next]_qvars
=============================================================================
