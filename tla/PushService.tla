---------------------------- MODULE PushService ----------------------------
(***************************************************************************)
(* What the administration server offers to those who push files to build  *)
(* agents and ask for builds, without sessions, messages and counters.     *)
(* AgentHub implements it.                                                 *)
(*                                                                         *)
(* The one who pushes is told at most once, only while the server runs     *)
(* that began the push, and only when every agent that was named holds     *)
(* every file.  Files go on arriving for a push whose server has ended,    *)
(* and nobody is told of them.                                             *)
(***************************************************************************)
EXTENDS Naturals

CONSTANTS
    Agents,  \* hosts of agents
    Files,   \* files that can be pushed
    Jobs,    \* pushes
    Builds   \* requests for a build

VARIABLES
    up,      \* the server runs
    job,     \* job[j]: "none", "running", or "gone" with the server
    told,    \* told[j]: how often the caller of j was told
    wanted,  \* wanted[j]: which agent is to get which file
    held,    \* which agent has which file
    request  \* request[r]: "none", "refused", "asked", "answered" or "lost"

svars == <<up, job, told, wanted, held, request>>

Init ==
    /\ up = TRUE
    /\ job = [j \in Jobs |-> "none"]
    /\ told = [j \in Jobs |-> 0]
    /\ wanted = [j \in Jobs |-> {}]
    /\ held = {}
    /\ request = [r \in Builds |-> "none"]

Push(j, A, F) ==
    /\ up
    /\ job[j] = "none"
    /\ job' = [job EXCEPT ![j] = "running"]
    /\ wanted' = [wanted EXCEPT ![j] = A \X F]
    /\ UNCHANGED <<up, told, held, request>>

Deliver(a, f) ==
    /\ \E j \in Jobs : <<a, f>> \in wanted[j] /\ told[j] = 0
    /\ held' = held \cup {<<a, f>>}
    /\ UNCHANGED <<up, job, told, wanted, request>>

Tell(j) ==
    /\ up
    /\ job[j] = "running"
    /\ told[j] = 0
    /\ wanted[j] \subseteq held
    /\ told' = [told EXCEPT ![j] = 1]
    /\ UNCHANGED <<up, job, wanted, held, request>>

Ask(r) ==
    /\ up
    /\ request[r] = "none"
    /\ \E to \in {"refused", "asked", "lost"} : request' = [request EXCEPT ![r] = to]
    /\ UNCHANGED <<up, job, told, wanted, held>>

Answer(r) ==
    /\ up
    /\ request[r] = "asked"
    /\ request' = [request EXCEPT ![r] = "answered"]
    /\ UNCHANGED <<up, job, told, wanted, held>>

Lost(R) == [r \in Builds |-> IF r \in R /\ request[r] = "asked" THEN "lost" ELSE request[r]]

\* A connection breaks.
Lose(R) ==
    /\ request' = Lost(R)
    /\ UNCHANGED <<up, job, told, wanted, held>>

Close ==
    /\ up
    /\ up' = FALSE
    /\ job' = [j \in Jobs |-> IF job[j] = "running" THEN "gone" ELSE job[j]]
    /\ request' = Lost(Builds)
    /\ UNCHANGED <<told, wanted, held>>

Open ==
    /\ ~up
    /\ up' = TRUE
    /\ UNCHANGED <<job, told, wanted, held, request>>

Next ==
    \/ \E j \in Jobs : Tell(j) \/ \E A \in SUBSET Agents, F \in SUBSET Files : Push(j, A, F)
    \/ \E a \in Agents, f \in Files : Deliver(a, f)
    \/ \E r \in Builds : Ask(r) \/ Answer(r)
    \/ \E R \in SUBSET Builds : Lose(R)
    \/ Close
    \/ Open

Spec == Init /\ [][Next]_svars
=============================================================================
