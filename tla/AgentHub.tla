------------------------------ MODULE AgentHub ------------------------------
(***************************************************************************)
(* The socket.io hub that build agents connect to (src/src/fu.node.js and  *)
(* its copy in src/agent/agent.js, class Server), the agents (agent.js,    *)
(* class Client), "push to agent" jobs and /request_admin_build.           *)
(*                                                                         *)
(* socket.io 0.9.5 is modelled by what this code relies on: every          *)
(* connection of an agent is a new session with a new id; messages on      *)
(* their way die with it; the hub's 'disconnect' comes some time after the *)
(* connection broke, and until then the hub emits into the void.           *)
(* Acknowledgements carry a number that starts at 1 in every session, the  *)
(* hub finds the callback by that number in the session the                *)
(* acknowledgement comes over and never forgets it, and an agent keeps an  *)
(* acknowledgement made while it is not connected for its next session:    *)
(* such a stray one may meet the callback of another message.              *)
(*                                                                         *)
(* The 'reconnect' handler of the hub has no action: 'reconnect' is an     *)
(* event of the client library and is never sent to the server's socket.   *)
(*                                                                         *)
(* A push job reads every file once for every target, sends it, and counts *)
(* down the acknowledgements; each (session, file) pair goes through the   *)
(* stages below on its own.                                                *)
(***************************************************************************)
EXTENDS Naturals, Sequences, FiniteSets

CONSTANTS
    Agents,        \* agent processes, by host
    Files,         \* files a job can push
    Jobs,          \* "push to agent" calls, each made at most once
    Builds,        \* build requests, each made at most once
    MaxSessions,   \* bound on the connections of one agent
    Failures       \* kinds of failures that may happen

\* Operators whose names hold an underscore (Needed_SocketsOnly, ...) are faulty
\* variants that nothing uses: each is a bug that some property catches.

FailureKinds == {"drop", "agent", "server", "read", "write"}

ASSUME AgentsAssumption == IsFiniteSet(Agents) /\ IsFiniteSet(Files)
ASSUME SessionsAssumption == MaxSessions \in Nat
ASSUME FailuresAssumption == Failures \subseteq FailureKinds

\* The i-th connection of agent a.
Sessions == Agents \X (1 .. MaxSessions)
Pairs == Sessions \X Files

\* "none": not part of the job.  "nodest": the session was not registered when
\* the file had been read.  "stray": the acknowledgement waits for, or is on, a
\* session later than the pair's.  "lost": a message died with its session.
Stages == {"none", "reading", "nodest", "sent", "writing", "acking", "stray", "counted", "lost"}

\* What a callback of an emit belongs to: a file of a job, or a build request.
Callbacks == (Jobs \X Files) \cup Builds

VARIABLES
    serverUp,   \* the hub runs
    agentUp,    \* agentUp[a]: the agent process runs
    session,    \* session[a]: how many connections a has made
    link,       \* link[a]: the latest of them is alive
    checkin,    \* checkin[a]: where the process's only 'checkin' message is
    registry,   \* keys of fu.sockets (and fu.clients) in insertion order
    acks,       \* acks[s]: callbacks of what was emitted to s; the number is the place
    job,        \* job[j]: "none", "running", or "gone" with the server
    stage,      \* stage[j][p]: where the pair p of job j is
    fcount,     \* fcount[j]: the closure variable of job j
    calls,      \* calls[j]: how often fn(true) was called
    written,    \* written[a]: the files on the disk of a's host
    build,      \* build[r]: stage of the build request r
    chosen      \* chosen[r]: the session the request was sent to

connection == <<agentUp, session, link, checkin>>
pushes == <<acks, job, stage, fcount, calls, written>>
builds == <<build, chosen>>
vars == <<serverUp, agentUp, session, link, checkin, registry, acks,
          job, stage, fcount, calls, written, build, chosen>>

NoSession == <<>>

Live(s) == link[s[1]] /\ session[s[1]] = s[2]
Current(a) == <<a, session[a]>>
Registered(s) == \E i \in 1 .. Len(registry) : registry[i] = s

Init ==
    /\ serverUp = TRUE
    /\ agentUp = [a \in Agents |-> FALSE]
    /\ session = [a \in Agents |-> 0]
    /\ link = [a \in Agents |-> FALSE]
    /\ checkin = [a \in Agents |-> "none"]
    /\ registry = <<>>
    /\ acks = [s \in Sessions |-> <<>>]
    /\ job = [j \in Jobs |-> "none"]
    /\ stage = [j \in Jobs |-> [p \in Pairs |-> "none"]]
    /\ fcount = [j \in Jobs |-> 0]
    /\ calls = [j \in Jobs |-> 0]
    /\ written = [a \in Agents |-> {}]
    /\ build = [r \in Builds |-> "none"]
    /\ chosen = [r \in Builds |-> NoSession]
-----------------------------------------------------------------------------
(* Connections *)

\* The message or acknowledgement of pair p travels over a connection of a.
OnTheWay(a, j, p) ==
    \/ p[1] = Current(a) /\ stage[j][p] \in {"sent", "acking"}
    \/ p[1][1] = a /\ stage[j][p] = "stray" /\ link[a]

LoseStages(a) ==
    stage' = [j \in Jobs |-> [p \in Pairs |->
        IF OnTheWay(a, j, p) THEN "lost" ELSE stage[j][p]]]
LoseBuilds(a) ==
    build' = [r \in Builds |->
        IF chosen[r] = Current(a) /\ build[r] \in {"sent", "acking"} THEN "lost" ELSE build[r]]
LoseCheckin(a) ==
    checkin' = IF checkin[a] = "sent" THEN [checkin EXCEPT ![a] = "lost"] ELSE checkin

\* The agent program starts: one 'checkin' is emitted, and buffered.
AgentStart(a) ==
    /\ ~agentUp[a]
    /\ session[a] < MaxSessions
    /\ agentUp' = [agentUp EXCEPT ![a] = TRUE]
    /\ checkin' = [checkin EXCEPT ![a] = "buffered"]
    /\ UNCHANGED <<serverUp, session, link, registry, pushes, builds>>

CheckinAfter_EveryConnect(a) == [checkin EXCEPT ![a] = "sent"]

\* The buffered checkin goes out with the process's first connection; nothing is
\* emitted on later ones.
CheckinAfter(a) == IF checkin[a] = "buffered" THEN [checkin EXCEPT ![a] = "sent"] ELSE checkin

\* The client library connects, or reconnects: a new session.
Connect(a) ==
    /\ serverUp /\ agentUp[a] /\ ~link[a]
    /\ session[a] < MaxSessions
    /\ session' = [session EXCEPT ![a] = @ + 1]
    /\ link' = [link EXCEPT ![a] = TRUE]
    /\ checkin' = CheckinAfter(a)
    /\ UNCHANGED <<serverUp, agentUp, registry, pushes, builds>>

\* on 'checkin': the socket is entered in both tables.
Checkin(a) ==
    /\ checkin[a] = "sent"
    /\ checkin' = [checkin EXCEPT ![a] = "handled"]
    /\ registry' = Append(registry, Current(a))
    /\ UNCHANGED <<serverUp, agentUp, session, link, pushes, builds>>

LinkDrop(a) ==
    /\ "drop" \in Failures
    /\ link[a]
    /\ link' = [link EXCEPT ![a] = FALSE]
    /\ LoseCheckin(a)
    /\ LoseStages(a)
    /\ LoseBuilds(a)
    /\ UNCHANGED <<serverUp, agentUp, session, registry, acks, job, fcount, calls, written, chosen>>

\* The table without its entry of s.
Disconnected(s) ==
    LET i == CHOOSE k \in 1 .. Len(registry) : registry[k] = s
    IN  SubSeq(registry, 1, i - 1) \o SubSeq(registry, i + 1, Len(registry))

\* on 'disconnect': the hub learns that the session is over.
Disconnect(s) ==
    /\ serverUp
    /\ Registered(s) /\ ~Live(s)
    /\ registry' = Disconnected(s)
    /\ UNCHANGED <<serverUp, connection, pushes, builds>>

\* Whatever agent a was doing ends with its process: its connection, the files
\* it had not finished writing, and the acknowledgements it had kept.
AgentGone(a) ==
    /\ agentUp' = [agentUp EXCEPT ![a] = FALSE]
    /\ link' = [link EXCEPT ![a] = FALSE]
    /\ checkin' = [checkin EXCEPT ![a] = "none"]
    /\ stage' = [j \in Jobs |-> [p \in Pairs |->
          IF OnTheWay(a, j, p) \/ (p[1][1] = a /\ stage[j][p] \in {"writing", "stray"})
          THEN "lost" ELSE stage[j][p]]]
    /\ LoseBuilds(a)

AgentDies(a) ==
    /\ "agent" \in Failures
    /\ agentUp[a]
    /\ AgentGone(a)
    /\ UNCHANGED <<serverUp, session, registry, acks, job, fcount, calls, written, chosen>>

\* The hub's process ends with its tables, jobs and open requests.  Agents go
\* on writing what they had received, and keep what they could not send.
ServerGone ==
    /\ serverUp' = FALSE
    /\ link' = [a \in Agents |-> FALSE]
    /\ checkin' = [a \in Agents |-> IF checkin[a] = "sent" THEN "lost" ELSE checkin[a]]
    /\ registry' = <<>>
    /\ job' = [j \in Jobs |-> IF job[j] = "running" THEN "gone" ELSE job[j]]
    /\ stage' = [j \in Jobs |-> [p \in Pairs |->
          IF stage[j][p] = "reading" \/ OnTheWay(p[1][1], j, p) THEN "lost" ELSE stage[j][p]]]
    /\ build' = [r \in Builds |-> IF build[r] \in {"sent", "acking"} THEN "lost" ELSE build[r]]

\* A kill; also an exception in a handler of the hub: 'clients' names an
\* undeclared variable, and 'dir', 'pull file' and 'push file' throw on an I/O error.
ServerDies ==
    /\ "server" \in Failures
    /\ serverUp
    /\ ServerGone
    /\ UNCHANGED <<agentUp, session, acks, fcount, calls, written, chosen>>

ServerStart ==
    /\ ~serverUp
    /\ serverUp' = TRUE
    /\ UNCHANGED <<connection, registry, pushes, builds>>
-----------------------------------------------------------------------------
(* Pushing files to agents *)

Needed_SocketsOnly(T, F) == Cardinality(T)

\* The initial fcount: job.agents.length * job.files.length.
Needed(T, F) == Cardinality(T) * Cardinality(F)

\* 'push to agent' with the sessions T and the files F: the ids may be of
\* sessions that are over.
PushToAgent(j, T, F) ==
    /\ serverUp
    /\ job[j] = "none"
    /\ job' = [job EXCEPT ![j] = "running"]
    /\ fcount' = [fcount EXCEPT ![j] = Needed(T, F)]
    /\ stage' = [stage EXCEPT ![j] =
          [p \in Pairs |-> IF p \in T \X F THEN "reading" ELSE "none"]]
    /\ UNCHANGED <<serverUp, connection, registry, acks, calls, written, builds>>

SetStage(j, p, to) == stage' = [stage EXCEPT ![j][p] = to]

\* readFile called back: look the socket up, and emit.
FileRead(j, p) ==
    /\ stage[j][p] = "reading"
    /\ SetStage(j, p, CASE ~Registered(p[1]) -> "nodest"
                        [] Registered(p[1]) /\ Live(p[1]) -> "sent"
                        [] OTHER -> "lost")
    /\ acks' = IF Registered(p[1]) THEN [acks EXCEPT ![p[1]] = Append(@, <<j, p[2]>>)] ELSE acks
    /\ UNCHANGED <<serverUp, connection, registry, job, fcount, calls, written, builds>>

\* readFile failed: process.exit().
FileReadFails(j, p) ==
    /\ "read" \in Failures
    /\ stage[j][p] = "reading"
    /\ ServerGone
    /\ UNCHANGED <<agentUp, session, acks, fcount, calls, written, chosen>>

\* The agent's 'push file' handler begins writing.
PushFile(j, p) ==
    /\ stage[j][p] = "sent"
    /\ SetStage(j, p, "writing")
    /\ UNCHANGED <<serverUp, connection, registry, acks, job, fcount, calls, written, builds>>

WrittenBy_AckFirst(p) == written

\* The file is on the agent's disk before its acknowledgement is sent.
WrittenBy(p) == [written EXCEPT ![p[1][1]] = @ \cup {p[2]}]

FileWritten(j, p) ==
    /\ stage[j][p] = "writing"
    /\ written' = WrittenBy(p)
    /\ SetStage(j, p, IF Live(p[1]) THEN "acking" ELSE "stray")
    /\ UNCHANGED <<serverUp, connection, registry, acks, job, fcount, calls, builds>>

\* writeFile failed: the exception ends the agent.
FileWriteFails(j, p) ==
    /\ "write" \in Failures
    /\ stage[j][p] = "writing"
    /\ AgentGone(p[1][1])
    /\ UNCHANGED <<serverUp, session, registry, acks, job, fcount, calls, written, chosen>>

Finished_BeforeDecrement(j) == fcount[j] = 0
Finished_OffByOne(j) == fcount[j] - 1 <= 1

\* !fcount, after the decrement.
Finished(j) == fcount[j] - 1 = 0

\* The callback of a pushed file: count down, and call fn when none is left.
CountDown(j) ==
    /\ fcount' = [fcount EXCEPT ![j] = @ - 1]
    /\ calls' = IF Finished(j) THEN [calls EXCEPT ![j] = @ + 1] ELSE calls

\* The acknowledgement of one pair arrives over the pair's session.
Acknowledged(j, p) ==
    /\ stage[j][p] = "acking"
    /\ SetStage(j, p, "counted")
    /\ CountDown(j)
    /\ UNCHANGED <<serverUp, connection, registry, acks, job, written, builds>>
-----------------------------------------------------------------------------
(* Build requests *)

\* /request_admin_build: the last socket of the table, whoever it is.
RequestBuild(r) ==
    /\ serverUp
    /\ build[r] = "none"
    /\ IF registry = <<>>
       THEN /\ build' = [build EXCEPT ![r] = "refused"]
            /\ UNCHANGED <<chosen, acks>>
       ELSE LET s == registry[Len(registry)] IN
            /\ chosen' = [chosen EXCEPT ![r] = s]
            /\ acks' = [acks EXCEPT ![s] = Append(@, r)]
            /\ build' = [build EXCEPT ![r] = IF Live(s) THEN "sent" ELSE "lost"]
    /\ UNCHANGED <<serverUp, connection, registry, job, stage, fcount, calls, written>>

BuildTest_NeverAcks(r) ==
    /\ build[r] = "sent"
    /\ build' = [build EXCEPT ![r] = "handled"]
    /\ UNCHANGED <<serverUp, connection, registry, pushes, chosen>>

\* The agent's 'build test' handler acknowledges at once.
BuildTest(r) ==
    /\ build[r] = "sent"
    /\ build' = [build EXCEPT ![r] = "acking"]
    /\ UNCHANGED <<serverUp, connection, registry, pushes, chosen>>

\* The acknowledgement ends the HTTP request.
BuildAnswered(r) ==
    /\ build[r] = "acking"
    /\ build' = [build EXCEPT ![r] = "answered"]
    /\ UNCHANGED <<serverUp, connection, registry, pushes, chosen>>

\* A stray acknowledgement arrives over the session t: its number is looked up
\* among the callbacks of t.
StrayAck(j, p) ==
    /\ stage[j][p] = "stray"
    /\ link[p[1][1]]
    /\ SetStage(j, p, "lost")
    /\ LET t == Current(p[1][1])
           met == {i \in 1 .. Len(acks[t]) :
                      i <= Len(acks[p[1]]) /\ acks[p[1]][i] = <<j, p[2]>>}
       IN  IF met = {} THEN UNCHANGED <<fcount, calls, build>>
           ELSE \E i \in met :
                  IF acks[t][i] \in Builds
                  THEN /\ build' = [build EXCEPT ![acks[t][i]] = "answered"]
                       /\ UNCHANGED <<fcount, calls>>
                  ELSE CountDown(acks[t][i][1]) /\ UNCHANGED build
    /\ UNCHANGED <<serverUp, connection, registry, acks, job, written, chosen>>

Known == {s \in Sessions : s[2] <= session[s[1]]}

Next ==
    \/ \E a \in Agents : AgentStart(a) \/ Connect(a) \/ Checkin(a) \/ LinkDrop(a) \/ AgentDies(a)
    \/ \E s \in Sessions : Disconnect(s)
    \/ ServerDies
    \/ ServerStart
    \/ \E j \in Jobs, T \in SUBSET Known, F \in SUBSET Files : PushToAgent(j, T, F)
    \/ \E j \in Jobs, p \in Pairs :
          \/ FileRead(j, p) \/ FileReadFails(j, p) \/ PushFile(j, p)
          \/ FileWritten(j, p) \/ FileWriteFails(j, p) \/ Acknowledged(j, p)
          \/ StrayAck(j, p)
    \/ \E r \in Builds : RequestBuild(r) \/ BuildTest(r) \/ BuildAnswered(r)

Spec == Init /\ [][Next]_vars

\* Established connections deliver, reads and writes call back, the client
\* library connects, and the hub hears of every broken connection.
Fairness ==
    /\ \A a \in Agents : WF_vars(Connect(a)) /\ WF_vars(Checkin(a))
    /\ \A s \in Sessions : WF_vars(Disconnect(s))
    /\ \A j \in Jobs, p \in Pairs :
          /\ WF_vars(FileRead(j, p)) /\ WF_vars(PushFile(j, p))
          /\ WF_vars(FileWritten(j, p)) /\ WF_vars(Acknowledged(j, p))
    /\ \A r \in Builds : WF_vars(BuildTest(r)) /\ WF_vars(BuildAnswered(r))

LiveSpec == Spec /\ Fairness
-----------------------------------------------------------------------------
(* Properties *)

\* Every variable keeps its shape; in particular fcount never passes zero.
TypeOK ==
    /\ serverUp \in BOOLEAN
    /\ agentUp \in [Agents -> BOOLEAN]
    /\ session \in [Agents -> 0 .. MaxSessions]
    /\ link \in [Agents -> BOOLEAN]
    /\ checkin \in [Agents -> {"none", "buffered", "sent", "handled", "lost"}]
    /\ registry \in Seq(Sessions)
    /\ acks \in [Sessions -> Seq(Callbacks)]
    /\ job \in [Jobs -> {"none", "running", "gone"}]
    /\ stage \in [Jobs -> [Pairs -> Stages]]
    /\ fcount \in [Jobs -> Nat]
    /\ calls \in [Jobs -> Nat]
    /\ written \in [Agents -> SUBSET Files]
    /\ build \in [Builds -> {"none", "refused", "sent", "acking", "answered", "lost"}]
    /\ chosen \in [Builds -> Sessions \cup {NoSession}]

\* What is still to be counted down for job j.
Outstanding(j) == {p \in Pairs : stage[j][p] \notin {"none", "counted"}}

\* Whatever is lost and whoever dies, the closure's counter of a job is the
\* number of its pairs whose acknowledgement has not arrived: no acknowledgement
\* is counted twice, and a stray one is never counted for another file or
\* another job (fu.node.js 201-227).
CountIsExact == \A j \in Jobs : fcount[j] = Cardinality(Outstanding(j))

\* When the caller of 'push to agent' is told true, every file of the job is on
\* the disk of every target, however the reads, writes and acknowledgements of
\* the pairs were interleaved with broken connections.
PushReportsTruth ==
    \A j \in Jobs : calls[j] > 0 =>
        \A p \in Pairs : stage[j][p] # "none" =>
            stage[j][p] = "counted" /\ p[2] \in written[p[1][1]]

\* The caller is told at most once.
CalledOnce == \A j \in Jobs : calls[j] <= 1

\* Which agent is to get which file by job j, and has it.
Wanted(j) == {<<p[1][1], p[2]>> : p \in {q \in Pairs : stage[j][q] # "none"}}
Held == {x \in Agents \X Files : x[2] \in written[x[1]]}
Asked(r) == IF build[r] \in {"sent", "acking"} THEN "asked" ELSE build[r]

Service == INSTANCE PushService WITH
    up <- serverUp, told <- calls, wanted <- [j \in Jobs |-> Wanted(j)], held <- Held,
    request <- [r \in Builds |-> Asked(r)]

\* Through broken connections, deaths and stray acknowledgements: files arrive
\* only where a job that has not been reported sent them, who pushes is told once,
\* when all agents hold all files and by the server that began, never by one that
\* was started later, and a build request is settled once (fu.node.js 193-237).
HubIsAPushService == Service!Spec

\* A build request is answered by the acknowledgement of its own message, never
\* by one that an agent kept from an earlier session and that carries the number
\* the build request has in the session it went to.
BuildAnsweredByItsAgent ==
    [][\A r \in Builds : build'[r] = "answered" /\ build[r] # "answered" => BuildAnswered(r)]_vars

\* A push job comes to an end: the caller is told, or a pair of it is lost for
\* good (then fn is never called), or the hub dies.  Jobs without pairs are
\* left out: for them fcount starts at zero and fn is never called.
PushSettles ==
    \A j \in Jobs :
        job[j] = "running" /\ Outstanding(j) # {} ~>
            \/ calls[j] = 1
            \/ job[j] = "gone"
            \/ \E p \in Pairs : stage[j][p] \in {"nodest", "stray", "lost"}

\* A build request sent to an agent is answered unless the session is lost.
BuildSettles == \A r \in Builds : build[r] = "sent" ~> build[r] \in {"answered", "lost"}

\* fu.node.js 270 to 275 and agent.js 202 to 207, "reconnect agent": an agent
\* that is connected, also again, is entered in the tables.
ConnectedIsRegistered ==
    \A a \in Agents : link[a] ~> ~link[a] \/ Registered(Current(a))
=============================================================================
