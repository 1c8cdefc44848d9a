---------------------------- MODULE AgentHubProofs ----------------------------
(***************************************************************************)
(* Proofs about AgentHub, for every set of agents, files, jobs and build   *)
(* requests, any number of reconnections and every kind of failure.        *)
(*                                                                         *)
(* The heart is that a stray acknowledgement meets nothing: an agent       *)
(* program checks in over its first connection only, so the hub has        *)
(* emitted nothing on any later one, and no number is taken there.         *)
(***************************************************************************)
EXTENDS AgentHub, FiniteSetTheorems, SequenceTheorems, TLAPS

\* How connections, checkins and the tables of the hub go together.
Wired ==
    /\ \A a \in Agents : link[a] => agentUp[a] /\ session[a] > 0
    /\ \A a \in Agents : checkin[a] = "sent" => link[a]
    /\ \A s \in Sessions : Registered(s) \/ acks[s] # <<>> => s[2] <= session[s[1]]
    /\ \A s \in Sessions : Registered(s) /\ Live(s) => checkin[s[1]] = "handled"

\* The hub knows no later session of the same agent, and has emitted on none.
SilentAfter(s) ==
    \A t \in Sessions : t[1] = s[1] /\ t[2] > s[2] => ~Registered(t) /\ acks[t] = <<>>

\* The agent of pair p has the file, or part of it, or will have it.
Travelling(j, p) == stage[j][p] \in {"sent", "writing", "acking", "stray"}

\* What an agent received came over the one session its process checked in on.
FirstSessionOnly ==
    \A j \in Jobs, p \in Pairs : Travelling(j, p) =>
        /\ agentUp[p[1][1]]
        /\ checkin[p[1][1]] = "handled"
        /\ p[1][2] <= session[p[1][1]]
        /\ SilentAfter(p[1])

\* Messages are on their way only over a session that is alive; an
\* acknowledgement is stray only when its session is over.
Placed ==
    \A j \in Jobs, p \in Pairs :
        /\ stage[j][p] \in {"sent", "acking"} => Live(p[1])
        /\ stage[j][p] = "stray" => ~Live(p[1])

Unstarted ==
    \A j \in Jobs : job[j] = "none" => calls[j] = 0 /\ \A p \in Pairs : stage[j][p] = "none"

\* A file is on the disk before its acknowledgement is made.
OnDisk ==
    \A j \in Jobs, p \in Pairs :
        stage[j][p] \in {"acking", "stray", "counted"} => p[2] \in written[p[1][1]]

\* Whoever called is told when nothing is left to count.
ToldAtTheEnd == \A j \in Jobs : calls[j] > 0 => Outstanding(j) = {}

IInv ==
    /\ TypeOK
    /\ Wired
    /\ FirstSessionOnly
    /\ Placed
    /\ Unstarted
    /\ OnDisk
    /\ CountIsExact
    /\ ToldAtTheEnd
    /\ CalledOnce
-----------------------------------------------------------------------------
(* Lemmas about counting *)

\* Sessions, pairs and what is outstanding of a job are finite.
LEMMA FiniteSessions == IsFiniteSet(Sessions)
<1>1. IsFiniteSet(1 .. MaxSessions)
  BY FS_Interval, SessionsAssumption
<1> QED
  BY <1>1, FS_Product, AgentsAssumption DEF Sessions

LEMMA FinitePairs == IsFiniteSet(Pairs)
BY FiniteSessions, FS_Product, AgentsAssumption DEF Pairs

LEMMA FiniteOutstanding ==
  ASSUME NEW j \in Jobs
  PROVE  IsFiniteSet(Outstanding(j)) /\ Cardinality(Outstanding(j)) \in Nat
<1>1. Outstanding(j) \in SUBSET Pairs
  BY DEF Outstanding
<1> QED
  BY <1>1, FinitePairs, FS_Subset, FS_CardinalityType

\* A step that loses pairs, and gives up jobs, leaves every count as it is.
LEMMA LosingCounts ==
  ASSUME Unstarted, OnDisk, CountIsExact, ToldAtTheEnd, CalledOnce,
         UNCHANGED <<fcount, calls, written>>,
         \A j \in Jobs : job'[j] = "none" => job[j] = "none",
         \A j \in Jobs, p \in Pairs :
            \/ stage'[j][p] = stage[j][p]
            \/ stage[j][p] \notin {"none", "counted"} /\ stage'[j][p] = "lost"
  PROVE  Unstarted' /\ OnDisk' /\ CountIsExact' /\ ToldAtTheEnd' /\ CalledOnce'
<1>1. \A j \in Jobs : Outstanding(j)' = Outstanding(j)
  BY DEF Outstanding
<1>2. Unstarted'
  BY DEF Unstarted
<1>3. OnDisk'
  BY DEF OnDisk
<1>4. CountIsExact' /\ ToldAtTheEnd' /\ CalledOnce'
  BY <1>1 DEF CountIsExact, ToldAtTheEnd, CalledOnce
<1> QED
  BY <1>2, <1>3, <1>4

\* So does one that moves a single pair between stages that are counted alike.
LEMMA MovingCounts ==
  ASSUME Unstarted, CountIsExact, ToldAtTheEnd, CalledOnce,
         stage \in [Jobs -> [Pairs -> Stages]],
         NEW j \in Jobs, NEW p \in Pairs, NEW to \in Stages \ {"none", "counted"},
         stage[j][p] \notin {"none", "counted"},
         SetStage(j, p, to),
         UNCHANGED <<fcount, calls, job>>
  PROVE  Unstarted' /\ CountIsExact' /\ ToldAtTheEnd' /\ CalledOnce'
<1>1. \A i \in Jobs, q \in Pairs :
         stage'[i][q] = IF i = j /\ q = p THEN to ELSE stage[i][q]
  BY DEF SetStage
<1>2. \A i \in Jobs : Outstanding(i)' = Outstanding(i)
  BY <1>1 DEF Outstanding
<1>3. Unstarted'
  BY <1>1 DEF Unstarted
<1> QED
  BY <1>2, <1>3 DEF CountIsExact, ToldAtTheEnd, CalledOnce

\* One acknowledgement counts its pair down once, and the last one tells.
LEMMA AcknowledgedCounts ==
  ASSUME Unstarted, CountIsExact, ToldAtTheEnd, CalledOnce,
         stage \in [Jobs -> [Pairs -> Stages]],
         fcount \in [Jobs -> Nat], calls \in [Jobs -> Nat],
         NEW j \in Jobs, NEW p \in Pairs, Acknowledged(j, p)
  PROVE  /\ fcount' \in [Jobs -> Nat] /\ calls' \in [Jobs -> Nat]
         /\ Unstarted' /\ CountIsExact' /\ ToldAtTheEnd' /\ CalledOnce'
<1>1. \A i \in Jobs, q \in Pairs :
         stage'[i][q] = IF i = j /\ q = p THEN "counted" ELSE stage[i][q]
  BY DEF Acknowledged, SetStage
<1>2. \A i \in Jobs : Outstanding(i)' = IF i = j THEN Outstanding(j) \ {p} ELSE Outstanding(i)
  BY <1>1 DEF Outstanding
<1>3. p \in Outstanding(j)
  BY DEF Acknowledged, Outstanding
<1>4. /\ Cardinality(Outstanding(j) \ {p}) = Cardinality(Outstanding(j)) - 1
      /\ IsFiniteSet(Outstanding(j) \ {p})
  BY <1>3, FiniteOutstanding, FS_RemoveElement
<1>5. Cardinality(Outstanding(j) \ {p}) \in Nat
  BY <1>4, FS_CardinalityType
<1>6. fcount[j] = Cardinality(Outstanding(j)) /\ fcount[j] - 1 \in Nat
  BY <1>4, <1>5 DEF CountIsExact
<1>7. calls[j] = 0
  BY <1>3 DEF ToldAtTheEnd
<1>8. fcount' = [fcount EXCEPT ![j] = @ - 1]
  BY DEF Acknowledged, CountDown
<1>9. CountIsExact' /\ fcount' \in [Jobs -> Nat]
  BY <1>2, <1>4, <1>6, <1>8 DEF CountIsExact
<1>10. CASE Finished(j)
  <2>1. Outstanding(j) \ {p} = {}
    BY <1>4, <1>6, <1>10, FS_EmptySet DEF Finished
  <2>2. calls' = [calls EXCEPT ![j] = @ + 1]
    BY <1>10 DEF Acknowledged, CountDown
  <2>3. calls' \in [Jobs -> Nat] /\ ToldAtTheEnd'
    BY <1>2, <2>1, <2>2 DEF ToldAtTheEnd
  <2>4. CalledOnce'
    BY <1>7, <2>2 DEF CalledOnce
  <2>5. Unstarted'
    <3>1. job[j] # "none"
      BY DEF Unstarted, Acknowledged
    <3> QED
      BY <1>1, <2>2, <3>1 DEF Unstarted, Acknowledged
  <2> QED
    BY <1>9, <2>3, <2>4, <2>5
<1>11. CASE ~Finished(j)
  <2>1. calls' = calls
    BY <1>11 DEF Acknowledged, CountDown
  <2>2. ToldAtTheEnd' /\ CalledOnce'
    BY <1>2, <2>1 DEF ToldAtTheEnd, CalledOnce
  <2>3. Unstarted'
    BY <1>1, <2>1 DEF Unstarted, Acknowledged
  <2> QED
    BY <1>9, <2>1, <2>2, <2>3
<1> QED
  BY <1>10, <1>11
-----------------------------------------------------------------------------
(* Lemmas about the table of sockets *)

LEMMA AppendRegisters ==
  ASSUME registry \in Seq(Sessions), NEW s \in Sessions, registry' = Append(registry, s)
  PROVE  /\ registry' \in Seq(Sessions)
         /\ \A t \in Sessions : Registered(t)' => Registered(t) \/ t = s
BY DEF Registered

\* 'disconnect' adds no entry.
LEMMA DisconnectRegisters ==
  ASSUME registry \in Seq(Sessions), NEW s \in Sessions, Registered(s),
         registry' = Disconnected(s)
  PROVE  /\ registry' \in Seq(Sessions)
         /\ \A t \in Sessions : Registered(t)' => Registered(t)
<1> DEFINE i == CHOOSE k \in 1 .. Len(registry) : registry[k] = s
<1>1. i \in 1 .. Len(registry)
  BY DEF Registered
<1>2. registry' = SubSeq(registry, 1, i - 1) \o SubSeq(registry, i + 1, Len(registry))
  BY DEF Disconnected
<1> HIDE DEF i
<1> DEFINE front == SubSeq(registry, 1, i - 1)
           back == SubSeq(registry, i + 1, Len(registry))
<1>3. /\ front \in Seq(Sessions) /\ Len(front) = i - 1
      /\ \A k \in 1 .. Len(front) : front[k] = registry[k]
  BY <1>1
<1>4. /\ back \in Seq(Sessions) /\ Len(back) = Len(registry) - i
      /\ \A k \in 1 .. Len(back) : back[k] = registry[i + k]
  BY <1>1
<1>5. registry' = front \o back
  BY <1>2
<1> HIDE DEF front, back
<1>6. registry' \in Seq(Sessions) /\ Len(registry') = Len(front) + Len(back)
  <2>1. front \in Seq(Sessions) /\ back \in Seq(Sessions)
    BY <1>3, <1>4
  <2>2. front \o back \in Seq(Sessions) /\ Len(front \o back) = Len(front) + Len(back)
    BY <2>1, ConcatProperties
  <2> QED
    BY <1>5, <2>2
<1>7. ASSUME NEW t \in Sessions, NEW k \in 1 .. Len(registry'), registry'[k] = t
      PROVE  Registered(t)
  <2>1. CASE k <= Len(front)
    <3>1. registry'[k] = front[k] /\ k \in 1 .. Len(registry) /\ k \in 1 .. Len(front)
      BY <1>1, <1>3, <1>4, <1>5, <1>6, <2>1
    <3> QED
      BY <1>3, <1>7, <3>1 DEF Registered
  <2>2. CASE k > Len(front)
    <3>1. registry'[k] = back[k - Len(front)] /\ k - Len(front) \in 1 .. Len(back)
      BY <1>3, <1>4, <1>5, <1>6, <2>2
    <3>2. registry[i + (k - Len(front))] = t
      BY <1>4, <1>7, <3>1
    <3>3. i + (k - Len(front)) \in 1 .. Len(registry)
      BY <1>1, <1>4, <3>1
    <3> QED
      BY <3>2, <3>3 DEF Registered
  <2> QED
    BY <1>3, <1>6, <2>1, <2>2
<1> QED
  BY <1>6, <1>7 DEF Registered
-----------------------------------------------------------------------------
(* The initial state and the steps keep IInv *)

LEMMA InitKeeps == Init => IInv
<1> SUFFICES ASSUME Init PROVE IInv
  OBVIOUS
<1>1. TypeOK
  BY SessionsAssumption DEF Init, TypeOK, Stages
<1>2. Wired
  BY DEF Init, Wired, Registered, Live
<1>3. FirstSessionOnly /\ Placed /\ Unstarted /\ OnDisk
  BY DEF Init, FirstSessionOnly, Travelling, Placed, Unstarted, OnDisk
<1>4. \A j \in Jobs : Outstanding(j) = {}
  BY DEF Init, Outstanding
<1>5. CountIsExact
  BY <1>4, FS_EmptySet DEF Init, CountIsExact
<1>6. ToldAtTheEnd /\ CalledOnce
  BY DEF Init, ToldAtTheEnd, CalledOnce
<1> QED
  BY <1>1, <1>2, <1>3, <1>5, <1>6 DEF IInv

\* What an agent and its connection do before anything is sent to it.
LEMMA AgentStartKeeps ==
  ASSUME IInv, NEW a \in Agents, AgentStart(a)
  PROVE  IInv'
<1>1. TypeOK'
  BY DEF IInv, TypeOK, AgentStart, pushes, builds
<1>2. Wired'
  <2>1. \A s \in Sessions : Registered(s)' = Registered(s) /\ Live(s)' = Live(s)
    BY DEF AgentStart, Registered, Live
  <2>2. ~link[a] /\ \A s \in Sessions : Live(s) => s[1] # a
    BY DEF IInv, TypeOK, Wired, AgentStart, Live
  <2>3. \A s \in Sessions : Registered(s)' /\ Live(s)' => checkin'[s[1]] = "handled"
    BY <2>1, <2>2 DEF IInv, TypeOK, Wired, AgentStart, Sessions
  <2>4. \A b \in Agents : link'[b] => agentUp'[b] /\ session'[b] > 0
    BY DEF IInv, TypeOK, Wired, AgentStart
  <2>5. \A b \in Agents : checkin'[b] = "sent" => link'[b]
    BY DEF IInv, TypeOK, Wired, AgentStart
  <2> QED
    BY <2>1, <2>3, <2>4, <2>5 DEF IInv, Wired, AgentStart, pushes
<1>3. FirstSessionOnly'
  BY DEF IInv, TypeOK, FirstSessionOnly, Travelling, SilentAfter, Registered, AgentStart, pushes, Sessions, Pairs
<1>4. Placed'
  BY DEF IInv, Placed, AgentStart, pushes, Live
<1>5. /\ Unstarted' /\ OnDisk' /\ CountIsExact' /\ ToldAtTheEnd' /\ CalledOnce'
  BY LosingCounts DEF IInv, AgentStart, pushes
<1> QED
  BY <1>1, <1>2, <1>3, <1>4, <1>5 DEF IInv

LEMMA ConnectKeeps ==
  ASSUME IInv, NEW a \in Agents, Connect(a)
  PROVE  IInv'
<1>1. TypeOK'
  BY SessionsAssumption DEF IInv, TypeOK, Connect, CheckinAfter, pushes, builds
<1>2. Wired'
  <2>1. \A s \in Sessions : Registered(s)' = Registered(s)
    BY DEF Connect, Registered
  <2>2. \A s \in Sessions : Live(s)' => Live(s) \/ (s[1] = a /\ s[2] = session[a] + 1)
    BY DEF IInv, TypeOK, Connect, Live, Sessions
  <2>3. \A s \in Sessions : Registered(s) \/ acks[s] # <<>> => s[2] <= session[s[1]]
    BY DEF IInv, Wired
  <2>4. \A s \in Sessions : Registered(s)' \/ acks'[s] # <<>> => s[2] <= session'[s[1]]
    BY <2>1, <2>3 DEF IInv, TypeOK, Connect, pushes, Sessions
  <2>5. \A s \in Sessions : Registered(s)' /\ Live(s)' => checkin'[s[1]] = "handled"
    BY <2>1, <2>2, <2>3 DEF IInv, TypeOK, Wired, Connect, CheckinAfter, Sessions
  <2>6. \A b \in Agents : link'[b] => agentUp'[b] /\ session'[b] > 0
    BY DEF IInv, TypeOK, Wired, Connect
  <2>7. \A b \in Agents : checkin'[b] = "sent" => link'[b]
    BY DEF IInv, TypeOK, Wired, Connect, CheckinAfter
  <2> QED
    BY <2>4, <2>5, <2>6, <2>7 DEF Wired
<1>3. FirstSessionOnly'
  BY DEF IInv, TypeOK, FirstSessionOnly, Travelling, SilentAfter, Registered, Connect, CheckinAfter, pushes, Sessions, Pairs
<1>4. Placed'
  <2> SUFFICES ASSUME NEW j \in Jobs, NEW p \in Pairs
               PROVE  /\ stage'[j][p] \in {"sent", "acking"} => Live(p[1])'
                      /\ stage'[j][p] = "stray" => ~Live(p[1])'
    BY DEF Placed
  <2>1. stage' = stage
    BY DEF Connect, pushes
  <2>2. CASE p[1][1] # a
    BY <2>1, <2>2 DEF IInv, TypeOK, Placed, Connect, Live, Sessions, Pairs
  <2>3. CASE p[1][1] = a
    BY <2>1, <2>3 DEF IInv, TypeOK, Placed, FirstSessionOnly, Travelling, Connect, Live, Sessions, Pairs
  <2> QED
    BY <2>2, <2>3
<1>5. /\ Unstarted' /\ OnDisk' /\ CountIsExact' /\ ToldAtTheEnd' /\ CalledOnce'
  BY LosingCounts DEF IInv, Connect, pushes
<1> QED
  BY <1>1, <1>2, <1>3, <1>4, <1>5 DEF IInv

LEMMA CheckinKeeps ==
  ASSUME IInv, NEW a \in Agents, Checkin(a)
  PROVE  IInv'
<1>0. Current(a) \in Sessions /\ Live(Current(a))
  BY DEF IInv, TypeOK, Wired, Checkin, Current, Sessions, Live
<1>1. /\ registry' \in Seq(Sessions)
      /\ \A t \in Sessions : Registered(t)' => Registered(t) \/ t = Current(a)
  BY <1>0, AppendRegisters DEF IInv, TypeOK, Checkin
<1>2. TypeOK'
  BY <1>1 DEF IInv, TypeOK, Checkin, pushes, builds
<1>3. Wired'
  BY <1>0, <1>1 DEF IInv, TypeOK, Wired, Checkin, pushes, Current, Live, Sessions
<1>4. FirstSessionOnly'
  BY <1>1 DEF IInv, TypeOK, FirstSessionOnly, Travelling, SilentAfter, Checkin, Current, pushes, Sessions, Pairs
<1>5. Placed'
  BY DEF IInv, Placed, Checkin, pushes, Live
<1>6. /\ Unstarted' /\ OnDisk' /\ CountIsExact' /\ ToldAtTheEnd' /\ CalledOnce'
  BY LosingCounts DEF IInv, Checkin, pushes
<1> QED
  BY <1>2, <1>3, <1>4, <1>5, <1>6 DEF IInv

LEMMA DisconnectKeeps ==
  ASSUME IInv, NEW s \in Sessions, Disconnect(s)
  PROVE  IInv'
<1>1. /\ registry' \in Seq(Sessions)
      /\ \A t \in Sessions : Registered(t)' => Registered(t)
  BY DisconnectRegisters DEF IInv, TypeOK, Disconnect
<1>2. TypeOK'
  BY <1>1 DEF IInv, TypeOK, Disconnect, connection, pushes, builds
<1>3. Wired'
  BY <1>1 DEF IInv, Wired, Disconnect, connection, pushes, Live
<1>4. FirstSessionOnly'
  BY <1>1 DEF IInv, FirstSessionOnly, Travelling, SilentAfter, Disconnect, connection, pushes
<1>5. Placed'
  BY DEF IInv, Placed, Disconnect, connection, pushes, Live
<1>6. /\ Unstarted' /\ OnDisk' /\ CountIsExact' /\ ToldAtTheEnd' /\ CalledOnce'
  BY LosingCounts DEF IInv, Disconnect, pushes
<1> QED
  BY <1>2, <1>3, <1>4, <1>5, <1>6 DEF IInv
-----------------------------------------------------------------------------
(* Failures *)

\* A pair on its way over a live session travels over the current one.
LEMMA OnTheCurrent ==
  ASSUME Placed, NEW j \in Jobs, NEW p \in Pairs, NEW a \in Agents,
         stage[j][p] \in {"sent", "acking"}, p[1][1] = a
  PROVE  OnTheWay(a, j, p)
<1>1. Live(p[1])
  BY DEF Placed
<1>2. p[1] = Current(a)
  BY <1>1 DEF Live, Current, Pairs, Sessions
<1> QED
  BY <1>2 DEF OnTheWay

LEMMA LinkDropKeeps ==
  ASSUME IInv, NEW a \in Agents, LinkDrop(a)
  PROVE  IInv'
<1>1. \A j \in Jobs, p \in Pairs :
         stage'[j][p] = IF OnTheWay(a, j, p) THEN "lost" ELSE stage[j][p]
  BY DEF LinkDrop, LoseStages
<1>2. \A j \in Jobs, p \in Pairs : OnTheWay(a, j, p) => stage[j][p] \in {"sent", "acking", "stray"}
  BY DEF OnTheWay
<1>3. checkin' \in [Agents -> {"none", "buffered", "sent", "handled", "lost"}]
      /\ \A b \in Agents : IF b = a THEN checkin'[b] = (IF checkin[b] = "sent" THEN "lost" ELSE checkin[b])
                                    ELSE checkin'[b] = checkin[b]
  BY DEF IInv, TypeOK, LinkDrop, LoseCheckin
<1>4. TypeOK'
  <2>1. stage' \in [Jobs -> [Pairs -> Stages]]
    BY DEF IInv, TypeOK, LinkDrop, LoseStages, Stages
  <2>2. build' \in [Builds -> {"none", "refused", "sent", "acking", "answered", "lost"}]
    BY DEF IInv, TypeOK, LinkDrop, LoseBuilds
  <2> QED
    BY <1>3, <2>1, <2>2 DEF IInv, TypeOK, LinkDrop
<1>5. Wired'
  <2>1. \A s \in Sessions : Registered(s)' = Registered(s) /\ (Live(s)' => Live(s))
    BY DEF IInv, TypeOK, LinkDrop, Registered, Live, Sessions
  <2> QED
    BY <1>3, <2>1 DEF IInv, TypeOK, Wired, LinkDrop, Sessions
<1>6. FirstSessionOnly'
  <2>1. \A j \in Jobs, p \in Pairs : Travelling(j, p)' => Travelling(j, p)
    BY <1>1 DEF Travelling
  <2>2. \A s \in Sessions : SilentAfter(s) => SilentAfter(s)'
    BY DEF LinkDrop, SilentAfter, Registered
  <2> QED
    BY <1>3, <2>1, <2>2 DEF IInv, FirstSessionOnly, LinkDrop, Pairs, Sessions
<1>7. Placed'
  <2>1. \A s \in Sessions : Live(s)' <=> Live(s) /\ s[1] # a
    BY DEF IInv, TypeOK, LinkDrop, Live, Sessions
  <2>2. \A p \in Pairs : p[1] \in Sessions /\ p[1][1] \in Agents
    BY DEF Pairs, Sessions
  <2>3. \A j \in Jobs, p \in Pairs : stage'[j][p] \in {"sent", "acking"} => p[1][1] # a
    BY <1>1, OnTheCurrent DEF IInv
  <2> QED
    BY <1>1, <2>1, <2>2, <2>3 DEF IInv, Placed
<1>8. /\ Unstarted' /\ OnDisk' /\ CountIsExact' /\ ToldAtTheEnd' /\ CalledOnce'
  BY <1>1, <1>2, LosingCounts DEF IInv, LinkDrop
<1> QED
  BY <1>4, <1>5, <1>6, <1>7, <1>8 DEF IInv

\* Both ways for an agent's process to end.
LEMMA AgentGoneKeeps ==
  ASSUME IInv, NEW a \in Agents, AgentGone(a),
         UNCHANGED <<serverUp, session, registry, acks, job, fcount, calls, written, chosen>>
  PROVE  IInv'
<1> DEFINE Gone(j, p) == OnTheWay(a, j, p) \/ (p[1][1] = a /\ stage[j][p] \in {"writing", "stray"})
<1>1. \A j \in Jobs, p \in Pairs : stage'[j][p] = IF Gone(j, p) THEN "lost" ELSE stage[j][p]
  BY DEF AgentGone
<1>2. \A j \in Jobs, p \in Pairs : Gone(j, p) => stage[j][p] \in {"sent", "writing", "acking", "stray"}
  BY DEF OnTheWay
<1>3. \A j \in Jobs, p \in Pairs : Travelling(j, p)' => Travelling(j, p) /\ p[1][1] # a
  BY <1>1, OnTheCurrent DEF IInv, Travelling
<1> HIDE DEF Gone
<1>4. TypeOK'
  <2>1. stage' \in [Jobs -> [Pairs -> Stages]]
    BY DEF IInv, TypeOK, AgentGone, Stages
  <2>2. build' \in [Builds -> {"none", "refused", "sent", "acking", "answered", "lost"}]
    BY DEF IInv, TypeOK, AgentGone, LoseBuilds
  <2> QED
    BY <2>1, <2>2 DEF IInv, TypeOK, AgentGone
<1>5. \A s \in Sessions : Registered(s)' = Registered(s) /\ (Live(s)' <=> Live(s) /\ s[1] # a)
  BY DEF IInv, TypeOK, AgentGone, Registered, Live, Sessions
<1>6. Wired'
  BY <1>5 DEF IInv, TypeOK, Wired, AgentGone, Sessions
<1>7. FirstSessionOnly'
  <2>1. \A s \in Sessions : SilentAfter(s) => SilentAfter(s)'
    BY <1>5 DEF SilentAfter
  <2> QED
    BY <1>3, <2>1 DEF IInv, TypeOK, FirstSessionOnly, AgentGone, Pairs, Sessions
<1>8. Placed'
  <2>1. \A p \in Pairs : p[1] \in Sessions
    BY DEF Pairs
  <2> QED
    BY <1>1, <1>3, <1>5, <2>1 DEF IInv, Placed, Travelling
<1>9. /\ Unstarted' /\ OnDisk' /\ CountIsExact' /\ ToldAtTheEnd' /\ CalledOnce'
  BY <1>1, <1>2, LosingCounts DEF IInv
<1> QED
  BY <1>4, <1>6, <1>7, <1>8, <1>9 DEF IInv

\* Both ways for the hub's process to end.
LEMMA ServerGoneKeeps ==
  ASSUME IInv, ServerGone, UNCHANGED <<agentUp, session, acks, fcount, calls, written, chosen>>
  PROVE  IInv'
<1> DEFINE Gone(j, p) == stage[j][p] = "reading" \/ OnTheWay(p[1][1], j, p)
<1>1. \A j \in Jobs, p \in Pairs : stage'[j][p] = IF Gone(j, p) THEN "lost" ELSE stage[j][p]
  BY DEF ServerGone
<1>2. \A j \in Jobs, p \in Pairs : Gone(j, p) => stage[j][p] \in {"reading", "sent", "acking", "stray"}
  BY DEF OnTheWay
<1>3. \A j \in Jobs, p \in Pairs : stage'[j][p] \notin {"sent", "acking"}
  BY <1>1, OnTheCurrent DEF IInv, Pairs, Sessions
<1> HIDE DEF Gone
<1>4. TypeOK'
  <2>1. stage' \in [Jobs -> [Pairs -> Stages]]
    BY DEF IInv, TypeOK, ServerGone, Stages
  <2>2. /\ build' \in [Builds -> {"none", "refused", "sent", "acking", "answered", "lost"}]
        /\ checkin' \in [Agents -> {"none", "buffered", "sent", "handled", "lost"}]
        /\ job' \in [Jobs -> {"none", "running", "gone"}]
    BY DEF IInv, TypeOK, ServerGone
  <2>3. registry' \in Seq(Sessions)
    BY DEF ServerGone
  <2> QED
    BY <2>1, <2>2, <2>3 DEF IInv, TypeOK, ServerGone
<1>5. \A s \in Sessions : ~Registered(s)' /\ ~Live(s)'
  BY DEF ServerGone, Registered, Live, Sessions
<1>6. Wired'
  BY <1>5 DEF IInv, TypeOK, Wired, ServerGone
<1>7. FirstSessionOnly'
  <2>1. \A j \in Jobs, p \in Pairs : Travelling(j, p)' => Travelling(j, p)
    BY <1>1 DEF Travelling
  <2>2. \A s \in Sessions : SilentAfter(s) => SilentAfter(s)'
    BY <1>5 DEF SilentAfter
  <2>3. \A a \in Agents : checkin[a] = "handled" => checkin'[a] = "handled"
    BY DEF ServerGone
  <2> QED
    BY <2>1, <2>2, <2>3 DEF IInv, FirstSessionOnly, Pairs, Sessions
<1>8. Placed'
  BY <1>3, <1>5 DEF Placed, Pairs
<1>9. /\ Unstarted' /\ OnDisk' /\ CountIsExact' /\ ToldAtTheEnd' /\ CalledOnce'
  <2>1. \A j \in Jobs : job'[j] = "none" => job[j] = "none"
    BY DEF ServerGone
  <2> QED
    BY <1>1, <1>2, <2>1, LosingCounts DEF IInv
<1> QED
  BY <1>4, <1>6, <1>7, <1>8, <1>9 DEF IInv

LEMMA ServerStartKeeps ==
  ASSUME IInv, ServerStart
  PROVE  IInv'
<1>1. TypeOK' /\ Wired' /\ FirstSessionOnly' /\ Placed'
  BY DEF IInv, TypeOK, Wired, FirstSessionOnly, Travelling, SilentAfter, Placed, Registered, Live,
         ServerStart, connection, pushes, builds
<1>2. /\ Unstarted' /\ OnDisk' /\ CountIsExact' /\ ToldAtTheEnd' /\ CalledOnce'
  BY LosingCounts DEF IInv, ServerStart, pushes
<1> QED
  BY <1>1, <1>2 DEF IInv
-----------------------------------------------------------------------------
(* Pushing files *)

\* A whole job is read before anything of it is counted.
LEMMA PushToAgentKeeps ==
  ASSUME IInv, NEW j \in Jobs, NEW T \in SUBSET Known, NEW F \in SUBSET Files,
         PushToAgent(j, T, F)
  PROVE  IInv'
<1>1. T \X F \in SUBSET Pairs /\ T \in SUBSET Sessions
  BY DEF Pairs, Known
<1>2. IsFiniteSet(T) /\ IsFiniteSet(F)
  <2>1. IsFiniteSet(Sessions)
    BY FiniteSessions
  <2> QED
    BY <1>1, <2>1, FS_Subset, AgentsAssumption
<1>3. Cardinality(T \X F) = Needed(T, F)
  BY <1>2, FS_Product DEF Needed
<1>4. Needed(T, F) \in Nat
  BY <1>2, <1>3, FS_Product, FS_CardinalityType
<1>5. /\ \A p \in Pairs : stage'[j][p] = IF p \in T \X F THEN "reading" ELSE "none"
      /\ \A i \in Jobs \ {j} : stage'[i] = stage[i]
      /\ stage' \in [Jobs -> [Pairs -> Stages]]
  BY DEF IInv, TypeOK, PushToAgent, Stages
<1>6. TypeOK'
  BY <1>4, <1>5 DEF IInv, TypeOK, PushToAgent, connection, builds
<1>7. Wired'
  BY DEF IInv, Wired, PushToAgent, connection, Registered, Live
<1>8. FirstSessionOnly' /\ Placed' /\ OnDisk'
  <2>1. \A i \in Jobs, p \in Pairs :
           stage'[i][p] \in {"sent", "writing", "acking", "stray", "counted"} => i # j /\ stage'[i][p] = stage[i][p]
    BY <1>5
  <2>2. FirstSessionOnly'
    BY <2>1 DEF IInv, FirstSessionOnly, Travelling, SilentAfter, Registered, PushToAgent, connection
  <2>3. Placed' /\ OnDisk'
    BY <2>1 DEF IInv, Placed, OnDisk, Live, PushToAgent, connection
  <2> QED
    BY <2>2, <2>3
<1>9. calls[j] = 0 /\ job'[j] # "none"
  BY DEF IInv, TypeOK, Unstarted, PushToAgent
<1>10. Unstarted'
  BY <1>5, <1>9 DEF IInv, TypeOK, Unstarted, PushToAgent
<1>11. CountIsExact'
  <2>1. Outstanding(j)' = T \X F
    BY <1>1, <1>5 DEF Outstanding
  <2>2. \A i \in Jobs \ {j} : Outstanding(i)' = Outstanding(i)
    BY <1>5 DEF Outstanding
  <2> QED
    BY <1>3, <2>1, <2>2 DEF IInv, TypeOK, CountIsExact, PushToAgent
<1>12. ToldAtTheEnd' /\ CalledOnce'
  <2>1. \A i \in Jobs \ {j} : Outstanding(i)' = Outstanding(i)
    BY <1>5 DEF Outstanding
  <2> QED
    BY <1>9, <2>1 DEF IInv, ToldAtTheEnd, CalledOnce, PushToAgent
<1> QED
  BY <1>6, <1>7, <1>8, <1>10, <1>11, <1>12 DEF IInv

LEMMA FileReadKeeps ==
  ASSUME IInv, NEW j \in Jobs, NEW p \in Pairs, FileRead(j, p)
  PROVE  IInv'
<1> DEFINE s == p[1]
           to == CASE ~Registered(s) -> "nodest"
                   [] Registered(s) /\ Live(s) -> "sent"
                   [] OTHER -> "lost"
<1>0. s \in Sessions /\ s[1] \in Agents /\ s[2] \in Nat /\ p[2] \in Files
  BY DEF Pairs, Sessions
<1>1. to \in {"nodest", "sent", "lost"} /\ (to = "sent" => Registered(s) /\ Live(s))
  OBVIOUS
<1>2. SetStage(j, p, to)
  BY DEF FileRead
<1> HIDE DEF to
<1>3. \A i \in Jobs, q \in Pairs : stage'[i][q] = IF i = j /\ q = p THEN to ELSE stage[i][q]
  BY <1>2 DEF IInv, TypeOK, SetStage
<1>4. /\ acks' \in [Sessions -> Seq(Callbacks)]
      /\ \A t \in Sessions : acks'[t] # acks[t] => Registered(t)
  BY <1>0 DEF IInv, TypeOK, FileRead, Callbacks
<1>5. TypeOK'
  BY <1>1, <1>2, <1>4 DEF IInv, TypeOK, FileRead, SetStage, Stages, connection, builds
<1>6. Wired'
  BY <1>4 DEF IInv, Wired, FileRead, Registered, Live, connection
<1>7. \A t \in Sessions : SilentAfter(t) => SilentAfter(t)'
  BY <1>4 DEF SilentAfter, FileRead, Registered
<1>8. FirstSessionOnly'
  <2> SUFFICES ASSUME NEW i \in Jobs, NEW q \in Pairs, Travelling(i, q)'
               PROVE  /\ agentUp[q[1][1]] /\ checkin[q[1][1]] = "handled"
                      /\ q[1][2] <= session[q[1][1]] /\ SilentAfter(q[1])
    BY <1>7 DEF FirstSessionOnly, FileRead, connection, Pairs
  <2>1. CASE i = j /\ q = p
    <3>1. Registered(s) /\ Live(s)
      BY <1>1, <1>3, <2>1 DEF Travelling
    <3>2. agentUp[s[1]] /\ checkin[s[1]] = "handled" /\ s[2] = session[s[1]]
      BY <1>0, <3>1 DEF IInv, Wired, Live
    <3>3. SilentAfter(s)
      BY <1>0, <3>2 DEF IInv, TypeOK, Wired, SilentAfter, Sessions
    <3> QED
      BY <1>0, <2>1, <3>2, <3>3
  <2>2. CASE ~(i = j /\ q = p)
    BY <1>3, <2>2 DEF IInv, FirstSessionOnly, Travelling
  <2> QED
    BY <2>1, <2>2
<1>9. Placed' /\ OnDisk'
  <2>1. \A t \in Sessions : Live(t)' = Live(t)
    BY DEF FileRead, connection, Live
  <2>2. Placed'
    BY <1>1, <1>3, <2>1 DEF IInv, Placed, Pairs
  <2>3. OnDisk'
    BY <1>1, <1>3 DEF IInv, OnDisk, FileRead
  <2> QED
    BY <2>2, <2>3
<1>10. /\ Unstarted' /\ CountIsExact' /\ ToldAtTheEnd' /\ CalledOnce'
  <2>1. to \in Stages \ {"none", "counted"}
    BY <1>1 DEF Stages
  <2> QED
    BY <1>2, <2>1, MovingCounts DEF IInv, TypeOK, FileRead
<1> QED
  BY <1>5, <1>6, <1>8, <1>9, <1>10 DEF IInv

LEMMA PushFileKeeps ==
  ASSUME IInv, NEW j \in Jobs, NEW p \in Pairs, PushFile(j, p)
  PROVE  IInv'
<1>1. SetStage(j, p, "writing") /\ stage[j][p] = "sent"
  BY DEF PushFile
<1>2. \A i \in Jobs, q \in Pairs : stage'[i][q] = IF i = j /\ q = p THEN "writing" ELSE stage[i][q]
  BY <1>1 DEF IInv, TypeOK, SetStage
<1>3. TypeOK'
  BY <1>1 DEF IInv, TypeOK, PushFile, SetStage, Stages, connection, builds
<1>4. Wired'
  BY DEF IInv, Wired, PushFile, Registered, Live, connection
<1>5. FirstSessionOnly'
  <2>1. \A i \in Jobs, q \in Pairs : Travelling(i, q)' => Travelling(i, q)
    BY <1>1, <1>2 DEF Travelling
  <2> QED
    BY <2>1 DEF IInv, FirstSessionOnly, SilentAfter, PushFile, Registered, connection
<1>6. Placed' /\ OnDisk'
  BY <1>2 DEF IInv, Placed, OnDisk, PushFile, Live, connection
<1>7. /\ Unstarted' /\ CountIsExact' /\ ToldAtTheEnd' /\ CalledOnce'
  BY <1>1, MovingCounts DEF IInv, TypeOK, PushFile, Stages
<1> QED
  BY <1>3, <1>4, <1>5, <1>6, <1>7 DEF IInv

LEMMA FileWrittenKeeps ==
  ASSUME IInv, NEW j \in Jobs, NEW p \in Pairs, FileWritten(j, p)
  PROVE  IInv'
<1> DEFINE to == IF Live(p[1]) THEN "acking" ELSE "stray"
<1>0. p[1] \in Sessions /\ p[1][1] \in Agents /\ p[2] \in Files
  BY DEF Pairs, Sessions
<1>1. SetStage(j, p, to) /\ stage[j][p] = "writing"
  BY DEF FileWritten
<1>2. to \in {"acking", "stray"} /\ (to = "acking" <=> Live(p[1]))
  OBVIOUS
<1> HIDE DEF to
<1>3. \A i \in Jobs, q \in Pairs : stage'[i][q] = IF i = j /\ q = p THEN to ELSE stage[i][q]
  BY <1>1 DEF IInv, TypeOK, SetStage
<1>4. /\ written' \in [Agents -> SUBSET Files]
      /\ \A a \in Agents : written[a] \subseteq written'[a]
      /\ p[2] \in written'[p[1][1]]
  BY <1>0 DEF IInv, TypeOK, FileWritten, WrittenBy
<1>5. TypeOK'
  BY <1>1, <1>2, <1>4 DEF IInv, TypeOK, FileWritten, SetStage, Stages, connection, builds
<1>6. Wired'
  BY DEF IInv, Wired, FileWritten, Registered, Live, connection
<1>7. FirstSessionOnly'
  <2>1. \A i \in Jobs, q \in Pairs : Travelling(i, q)' => Travelling(i, q)
    BY <1>1, <1>3 DEF Travelling
  <2> QED
    BY <2>1 DEF IInv, FirstSessionOnly, SilentAfter, FileWritten, Registered, connection
<1>8. Placed'
  <2>1. \A t \in Sessions : Live(t)' = Live(t)
    BY DEF FileWritten, connection, Live
  <2> QED
    BY <1>0, <1>2, <1>3, <2>1 DEF IInv, Placed, Pairs
<1>9. OnDisk'
  BY <1>3, <1>4 DEF IInv, OnDisk, Pairs, Sessions
<1>10. /\ Unstarted' /\ CountIsExact' /\ ToldAtTheEnd' /\ CalledOnce'
  <2>1. to \in Stages \ {"none", "counted"}
    BY <1>2 DEF Stages
  <2> QED
    BY <1>1, <2>1, MovingCounts DEF IInv, TypeOK, FileWritten
<1> QED
  BY <1>5, <1>6, <1>7, <1>8, <1>9, <1>10 DEF IInv

LEMMA AcknowledgedKeeps ==
  ASSUME IInv, NEW j \in Jobs, NEW p \in Pairs, Acknowledged(j, p)
  PROVE  IInv'
<1>1. SetStage(j, p, "counted") /\ stage[j][p] = "acking"
  BY DEF Acknowledged
<1>2. \A i \in Jobs, q \in Pairs : stage'[i][q] = IF i = j /\ q = p THEN "counted" ELSE stage[i][q]
  BY <1>1 DEF IInv, TypeOK, SetStage
<1>3. /\ fcount' \in [Jobs -> Nat] /\ calls' \in [Jobs -> Nat]
      /\ Unstarted' /\ CountIsExact' /\ ToldAtTheEnd' /\ CalledOnce'
  BY AcknowledgedCounts DEF IInv, TypeOK
<1>4. TypeOK'
  <2>1. stage' \in [Jobs -> [Pairs -> Stages]]
    BY <1>1 DEF IInv, TypeOK, SetStage, Stages
  <2> QED
    BY <1>3, <2>1 DEF IInv, TypeOK, Acknowledged, connection, builds
<1>5. Wired'
  BY DEF IInv, Wired, Acknowledged, Registered, Live, connection
<1>6. FirstSessionOnly'
  <2>1. \A i \in Jobs, q \in Pairs : Travelling(i, q)' => Travelling(i, q)
    BY <1>2 DEF Travelling
  <2> QED
    BY <2>1 DEF IInv, FirstSessionOnly, SilentAfter, Acknowledged, Registered, connection
<1>7. Placed' /\ OnDisk'
  BY <1>1, <1>2 DEF IInv, Placed, OnDisk, Acknowledged, Live, connection
<1> QED
  BY <1>3, <1>4, <1>5, <1>6, <1>7 DEF IInv

\* A stray acknowledgement finds no callback under its number.
LEMMA StrayMeetsNothing ==
  ASSUME IInv, NEW j \in Jobs, NEW p \in Pairs, StrayAck(j, p)
  PROVE  UNCHANGED <<fcount, calls, build>>
<1> DEFINE a == p[1][1]
           t == Current(a)
<1>1. p[1] \in Sessions /\ a \in Agents /\ p[1][2] \in Nat
  BY DEF Pairs, Sessions
<1>2. p[1][2] <= session[a] /\ SilentAfter(p[1]) /\ ~Live(p[1])
  BY <1>1 DEF IInv, FirstSessionOnly, Placed, Travelling, StrayAck
<1>3. session[a] \in 0 .. MaxSessions /\ p[1][2] < session[a]
  <2>1. session[a] \in 0 .. MaxSessions
    BY <1>1 DEF IInv, TypeOK
  <2>2. session[a] # p[1][2]
    BY <1>2 DEF Live, StrayAck
  <2> QED
    BY <1>1, <1>2, <2>1, <2>2
<1>4. t \in Sessions /\ t[1] = p[1][1] /\ t[2] > p[1][2]
  BY <1>1, <1>3, SessionsAssumption DEF Current, Sessions
<1>5. acks[t] = <<>>
  BY <1>2, <1>4 DEF SilentAfter
<1>6. {i \in 1 .. Len(acks[t]) : i <= Len(acks[p[1]]) /\ acks[p[1]][i] = <<j, p[2]>>} = {}
  BY <1>5
<1> QED
  BY <1>6 DEF StrayAck

LEMMA StrayAckKeeps ==
  ASSUME IInv, NEW j \in Jobs, NEW p \in Pairs, StrayAck(j, p)
  PROVE  IInv'
<1>1. SetStage(j, p, "lost") /\ stage[j][p] = "stray" /\ UNCHANGED <<fcount, calls, build>>
  BY StrayMeetsNothing DEF StrayAck
<1>2. UNCHANGED <<serverUp, agentUp, session, link, checkin, registry, acks, job, written, chosen>>
  BY DEF StrayAck, connection
<1>3. \A i \in Jobs, q \in Pairs : stage'[i][q] = IF i = j /\ q = p THEN "lost" ELSE stage[i][q]
  BY <1>1 DEF IInv, TypeOK, SetStage
<1>4. TypeOK'
  BY <1>1, <1>2 DEF IInv, TypeOK, SetStage, Stages
<1>5. Wired'
  BY <1>2 DEF IInv, Wired, Registered, Live
<1>6. FirstSessionOnly'
  <2>1. \A i \in Jobs, q \in Pairs : Travelling(i, q)' => Travelling(i, q)
    BY <1>3 DEF Travelling
  <2> QED
    BY <1>2, <2>1 DEF IInv, FirstSessionOnly, SilentAfter, Registered
<1>7. Placed' /\ OnDisk'
  BY <1>2, <1>3 DEF IInv, Placed, OnDisk, Live
<1>8. /\ Unstarted' /\ CountIsExact' /\ ToldAtTheEnd' /\ CalledOnce'
  BY <1>1, <1>2, MovingCounts DEF IInv, TypeOK, Stages
<1> QED
  BY <1>4, <1>5, <1>6, <1>7, <1>8 DEF IInv
-----------------------------------------------------------------------------
(* Build requests *)

LEMMA RequestBuildKeeps ==
  ASSUME IInv, NEW r \in Builds, RequestBuild(r)
  PROVE  IInv'
<1>1. /\ acks' \in [Sessions -> Seq(Callbacks)]
      /\ \A t \in Sessions : acks'[t] # acks[t] => Registered(t)
      /\ build' \in [Builds -> {"none", "refused", "sent", "acking", "answered", "lost"}]
      /\ chosen' \in [Builds -> Sessions \cup {NoSession}]
  <2>1. CASE registry = <<>>
    BY <2>1 DEF IInv, TypeOK, RequestBuild
  <2>2. CASE registry # <<>>
    <3> DEFINE s == registry[Len(registry)]
    <3>1. s \in Sessions /\ Registered(s)
      BY <2>2 DEF IInv, TypeOK, Registered
    <3>2. acks' = [acks EXCEPT ![s] = Append(@, r)] /\ r \in Callbacks
      BY <2>2 DEF RequestBuild, Callbacks
    <3>3. chosen' = [chosen EXCEPT ![r] = s]
      BY <2>2 DEF RequestBuild
    <3>4. build' \in [Builds -> {"none", "refused", "sent", "acking", "answered", "lost"}]
      <4>1. build' = [build EXCEPT ![r] = "sent"] \/ build' = [build EXCEPT ![r] = "lost"]
        BY <2>2 DEF RequestBuild
      <4> QED
        BY <4>1 DEF IInv, TypeOK
    <3> HIDE DEF s
    <3>5. Append(acks[s], r) \in Seq(Callbacks)
      BY <3>1, <3>2 DEF IInv, TypeOK
    <3>6. acks' \in [Sessions -> Seq(Callbacks)]
      BY <3>1, <3>2, <3>5 DEF IInv, TypeOK
    <3>7. \A t \in Sessions : acks'[t] # acks[t] => t = s
      BY <3>2 DEF IInv, TypeOK
    <3>8. chosen' \in [Builds -> Sessions \cup {NoSession}]
      BY <3>1, <3>3 DEF IInv, TypeOK
    <3> QED
      BY <3>1, <3>4, <3>6, <3>7, <3>8
  <2> QED
    BY <2>1, <2>2
<1>2. UNCHANGED <<serverUp, agentUp, session, link, checkin, registry, job, stage, fcount, calls, written>>
  BY DEF RequestBuild, connection
<1>3. TypeOK'
  BY <1>1, <1>2 DEF IInv, TypeOK
<1>4. Wired'
  BY <1>1, <1>2 DEF IInv, Wired, Registered, Live
<1>5. FirstSessionOnly'
  <2>1. \A t \in Sessions : SilentAfter(t) => SilentAfter(t)'
    BY <1>1, <1>2 DEF SilentAfter, Registered
  <2> QED
    BY <1>2, <2>1 DEF IInv, FirstSessionOnly, Travelling, Pairs
<1>6. Placed'
  BY <1>2 DEF IInv, Placed, Live
<1>7. /\ Unstarted' /\ OnDisk' /\ CountIsExact' /\ ToldAtTheEnd' /\ CalledOnce'
  BY <1>2, LosingCounts DEF IInv
<1> QED
  BY <1>3, <1>4, <1>5, <1>6, <1>7 DEF IInv

\* What only changes the stage of a build request changes nothing of IInv.
LEMMA BuildStageKeeps ==
  ASSUME IInv,
         build' \in [Builds -> {"none", "refused", "sent", "acking", "answered", "lost"}],
         UNCHANGED <<serverUp, connection, registry, pushes, chosen>>
  PROVE  IInv'
<1>1. TypeOK' /\ Wired' /\ FirstSessionOnly' /\ Placed'
  BY DEF IInv, TypeOK, Wired, FirstSessionOnly, Travelling, SilentAfter, Placed, Registered, Live,
         connection, pushes
<1>2. /\ Unstarted' /\ OnDisk' /\ CountIsExact' /\ ToldAtTheEnd' /\ CalledOnce'
  BY LosingCounts DEF IInv, pushes
<1> QED
  BY <1>1, <1>2 DEF IInv

LEMMA StepKeeps == IInv /\ [Next]_vars => IInv'
<1> SUFFICES ASSUME IInv, [Next]_vars PROVE IInv'
  OBVIOUS
<1>1. ASSUME NEW a \in Agents, AgentStart(a) \/ Connect(a) \/ Checkin(a) \/ LinkDrop(a) \/ AgentDies(a)
      PROVE  IInv'
  <2>1. CASE AgentDies(a)
    BY <2>1, AgentGoneKeeps DEF AgentDies
  <2> QED
    BY <1>1, <2>1, AgentStartKeeps, ConnectKeeps, CheckinKeeps, LinkDropKeeps
<1>2. ASSUME NEW s \in Sessions, Disconnect(s) PROVE IInv'
  BY <1>2, DisconnectKeeps
<1>3. CASE ServerDies
  BY <1>3, ServerGoneKeeps DEF ServerDies
<1>4. CASE ServerStart
  BY <1>4, ServerStartKeeps
<1>5. ASSUME NEW j \in Jobs, NEW T \in SUBSET Known, NEW F \in SUBSET Files, PushToAgent(j, T, F)
      PROVE  IInv'
  BY <1>5, PushToAgentKeeps
<1>6. ASSUME NEW j \in Jobs, NEW p \in Pairs,
             \/ FileRead(j, p) \/ FileReadFails(j, p) \/ PushFile(j, p)
             \/ FileWritten(j, p) \/ FileWriteFails(j, p) \/ Acknowledged(j, p)
             \/ StrayAck(j, p)
      PROVE  IInv'
  <2>1. CASE FileReadFails(j, p)
    BY <2>1, ServerGoneKeeps DEF FileReadFails
  <2>2. CASE FileWriteFails(j, p)
    BY <2>2, AgentGoneKeeps DEF FileWriteFails, Pairs, Sessions
  <2> QED
    BY <1>6, <2>1, <2>2, FileReadKeeps, PushFileKeeps, FileWrittenKeeps, AcknowledgedKeeps, StrayAckKeeps
<1>7. ASSUME NEW r \in Builds, RequestBuild(r) \/ BuildTest(r) \/ BuildAnswered(r)
      PROVE  IInv'
  <2>1. CASE BuildTest(r) \/ BuildAnswered(r)
    <3>1. build' = [build EXCEPT ![r] = "acking"] \/ build' = [build EXCEPT ![r] = "answered"]
      BY <2>1 DEF BuildTest, BuildAnswered
    <3>2. build' \in [Builds -> {"none", "refused", "sent", "acking", "answered", "lost"}]
      BY <3>1 DEF IInv, TypeOK
    <3> QED
      BY <2>1, <3>2, BuildStageKeeps DEF BuildTest, BuildAnswered
  <2> QED
    BY <1>7, <2>1, RequestBuildKeeps
<1>8. CASE UNCHANGED vars
  <2>1. UNCHANGED <<serverUp, connection, registry, pushes, chosen>> /\ build' = build
    BY <1>8 DEF vars, connection, pushes
  <2> QED
    BY <2>1, BuildStageKeeps DEF IInv, TypeOK
<1> QED
  BY <1>1, <1>2, <1>3, <1>4, <1>5, <1>6, <1>7, <1>8 DEF Next
-----------------------------------------------------------------------------
(* The theorems *)

\* The hub and its agents keep IInv through every failure the module has.
THEOREM HubInvariant == Spec => []IInv
<1>1. Init => IInv
  BY InitKeeps
<1>2. IInv /\ [Next]_vars => IInv'
  BY StepKeeps
<1> QED
  BY <1>1, <1>2, PTL DEF Spec

\* Every variable of the hub and its agents keeps its shape.
THEOREM HubTypes == Spec => []TypeOK
BY HubInvariant, PTL DEF IInv

\* The closure counter of a push job (fu.node.js 199) is exact, whatever is lost.
THEOREM CounterIsExact == Spec => []CountIsExact
BY HubInvariant, PTL DEF IInv

\* The caller of 'push to agent' is told once at most.
THEOREM ToldOnce == Spec => []CalledOnce
BY HubInvariant, PTL DEF IInv

\* It is told true only when every file is on every disk.
THEOREM ToldTheTruth == Spec => []PushReportsTruth
<1>1. IInv => PushReportsTruth
  BY DEF IInv, TypeOK, ToldAtTheEnd, Outstanding, OnDisk, PushReportsTruth
<1> QED
  BY <1>1, HubInvariant, PTL

\* A build request is answered by its own acknowledgement, never by one that an
\* agent has kept from a session before.
THEOREM AnsweredByItsAgent == Spec => BuildAnsweredByItsAgent
<1> DEFINE Step ==
      \A r \in Builds : build'[r] = "answered" /\ build[r] # "answered" => BuildAnswered(r)
<1>1. IInv /\ [Next]_vars => [Step]_vars
  <2> SUFFICES ASSUME IInv, Next, NEW r \in Builds, build'[r] = "answered", build[r] # "answered"
               PROVE  BuildAnswered(r)
    OBVIOUS
  <2>1. ASSUME NEW q \in Builds, RequestBuild(q) \/ BuildTest(q) \/ BuildAnswered(q)
        PROVE  BuildAnswered(r)
    BY <2>1 DEF IInv, TypeOK, RequestBuild, BuildTest, BuildAnswered
  <2>2. ASSUME NEW j \in Jobs, NEW p \in Pairs, StrayAck(j, p) PROVE FALSE
    BY <2>2, StrayMeetsNothing
  <2>3. ASSUME NEW a \in Agents, AgentStart(a) \/ Connect(a) \/ Checkin(a) \/ LinkDrop(a) \/ AgentDies(a)
        PROVE  FALSE
    BY <2>3 DEF IInv, TypeOK, AgentStart, Connect, Checkin, LinkDrop, AgentDies, AgentGone, LoseBuilds, builds
  <2>4. ASSUME NEW s \in Sessions, Disconnect(s) PROVE FALSE
    BY <2>4 DEF Disconnect, builds
  <2>5. ASSUME ServerDies \/ ServerStart PROVE FALSE
    BY <2>5 DEF ServerDies, ServerGone, ServerStart, builds
  <2>6. ASSUME NEW j \in Jobs, NEW T \in SUBSET Known, NEW F \in SUBSET Files, PushToAgent(j, T, F)
        PROVE  FALSE
    BY <2>6 DEF PushToAgent, builds
  <2>7. ASSUME NEW j \in Jobs, NEW p \in Pairs,
               FileRead(j, p) \/ PushFile(j, p) \/ FileWritten(j, p) \/ Acknowledged(j, p)
        PROVE  FALSE
    BY <2>7 DEF FileRead, PushFile, FileWritten, Acknowledged, builds
  <2>8. ASSUME NEW j \in Jobs, NEW p \in Pairs, FileReadFails(j, p) \/ FileWriteFails(j, p)
        PROVE  FALSE
    BY <2>8 DEF FileReadFails, FileWriteFails, ServerGone, AgentGone, LoseBuilds
  <2> QED
    BY <2>1, <2>2, <2>3, <2>4, <2>5, <2>6, <2>7, <2>8 DEF Next
<1> QED
  BY <1>1, HubInvariant, PTL DEF Spec, BuildAnsweredByItsAgent
-----------------------------------------------------------------------------
(* The hub implements PushService *)


\* The server is up for whatever ends with it: connections, running jobs and
\* build requests, and what is read, or on its way, belongs to a running job.  An
\* agent that writes on a session that is over may write for a job that is gone.
HubSide ==
    /\ \A a \in Agents : link[a] => serverUp
    /\ \A j \in Jobs : job[j] = "running" => serverUp
    /\ \A r \in Builds : build[r] \in {"sent", "acking"} => serverUp
    /\ \A j \in Jobs, p \in Pairs :
          stage[j][p] \in {"reading", "sent", "acking"} \/ (stage[j][p] = "writing" /\ Live(p[1])) =>
              job[j] = "running"

Pushed == [j \in Jobs |-> Wanted(j)]
Requested == [r \in Builds |-> Asked(r)]

\* A step that moves pairs between stages of a job leaves what it is to push.
LEMMA SameWanted ==
  ASSUME \A j \in Jobs, p \in Pairs : stage'[j][p] = "none" <=> stage[j][p] = "none"
  PROVE  UNCHANGED Pushed
<1>1. ASSUME NEW j \in Jobs PROVE Wanted(j)' = Wanted(j)
  BY DEF Wanted
<1> QED
  BY <1>1 DEF Pushed

LEMMA SameService ==
  ASSUME UNCHANGED <<serverUp, job, calls, written, build>>, UNCHANGED Pushed
  PROVE  UNCHANGED Service!svars
<1>1. UNCHANGED Held /\ UNCHANGED Requested
  BY DEF Held, Requested, Asked
<1> QED
  BY <1>1 DEF Service!svars, Requested, Pushed

\* What changes nothing but the state of connections and of files on their way.
LEMMA QuietStep ==
  ASSUME HubSide, UNCHANGED <<serverUp, job, calls, written, build>>,
         \A a \in Agents : link'[a] => link[a] \/ serverUp,
         \A j \in Jobs, p \in Pairs :
            /\ stage'[j][p] = "none" <=> stage[j][p] = "none"
            /\ stage'[j][p] \in {"reading", "sent", "acking"} \/ (stage'[j][p] = "writing" /\ Live(p[1])') =>
                  \/ stage[j][p] \in {"reading", "sent", "acking"}
                  \/ stage[j][p] = "writing" /\ Live(p[1])
  PROVE  HubSide' /\ UNCHANGED Service!svars
<1>1. HubSide'
  BY DEF HubSide
<1>2. UNCHANGED Service!svars
  BY SameWanted, SameService
<1> QED
  BY <1>1, <1>2

LEMMA ConnectIsQuiet ==
  ASSUME IInv, HubSide, NEW a \in Agents, Connect(a)
  PROVE  HubSide' /\ UNCHANGED Service!svars
<1>1. UNCHANGED <<serverUp, job, calls, written, build, stage>> /\ serverUp
  BY DEF Connect, pushes, builds
<1>2. ASSUME NEW j \in Jobs, NEW p \in Pairs, stage[j][p] = "writing", Live(p[1])'
      PROVE  Live(p[1])
  <2>1. p[1][1] \in Agents /\ p[1][2] \in Nat /\ p[1][2] <= session[p[1][1]]
    BY <1>2 DEF IInv, FirstSessionOnly, Travelling, Pairs, Sessions
  <2>2. p[1][1] # a
    BY <1>2, <2>1 DEF IInv, TypeOK, Connect, Live
  <2> QED
    BY <1>2, <2>1, <2>2 DEF IInv, TypeOK, Connect, Live
<1> QED
  BY <1>1, <1>2, QuietStep

\* One pair moves.
LEMMA MoveIsQuiet ==
  ASSUME IInv, HubSide, NEW j \in Jobs, NEW p \in Pairs, NEW to \in Stages \ {"none", "counted"},
         SetStage(j, p, to), UNCHANGED <<serverUp, link, session, job, calls, written, build>>,
         \/ to \in {"lost", "nodest", "stray"} /\ stage[j][p] # "none"
         \/ stage[j][p] \in {"reading", "sent"}
  PROVE  HubSide' /\ UNCHANGED Service!svars
<1>1. \A i \in Jobs, q \in Pairs : stage'[i][q] = IF i = j /\ q = p THEN to ELSE stage[i][q]
  BY DEF SetStage, IInv, TypeOK
<1>2. \A q \in Pairs : Live(q[1])' = Live(q[1])
  BY DEF Live
<1> QED
  BY <1>1, <1>2, QuietStep

\* What a broken connection, or the end of an agent, loses.
LEMMA BreakLoses ==
  ASSUME IInv, HubSide, NEW a \in Agents,
         UNCHANGED <<serverUp, session, job, calls, written, chosen>>, LoseBuilds(a),
         link' = [link EXCEPT ![a] = FALSE],
         \A j \in Jobs, p \in Pairs :
            stage'[j][p] = stage[j][p] \/ (stage[j][p] # "none" /\ stage'[j][p] = "lost")
  PROVE  HubSide' /\ \E R \in SUBSET Builds : Service!Lose(R)
<1>1. \A s : Live(s)' => Live(s)
  BY DEF IInv, TypeOK, Live
<1>2. \A r \in Builds : build'[r] = build[r] \/ build'[r] = "lost"
  BY DEF LoseBuilds
<1>3. HubSide'
  BY <1>1, <1>2 DEF HubSide, IInv, TypeOK
<1>4. UNCHANGED Pushed
  <2>1. \A j \in Jobs, p \in Pairs : stage'[j][p] = "none" <=> stage[j][p] = "none"
    OBVIOUS
  <2> QED
    BY <2>1, SameWanted
<1> DEFINE R == {r \in Builds : chosen[r] = Current(a)}
<1>5. Requested' = [r \in Builds |-> IF r \in R /\ Requested[r] = "asked" THEN "lost" ELSE Requested[r]]
  BY DEF Requested, Asked, LoseBuilds, IInv, TypeOK
<1>6. UNCHANGED Held
  BY DEF Held
<1>7. Service!Lose(R)
  BY <1>4, <1>5, <1>6 DEF Service!Lose, Service!Lost, Requested, Pushed
<1> QED
  BY <1>3, <1>7

LEMMA ServerGoneCloses ==
  ASSUME IInv, HubSide, ServerGone, serverUp, UNCHANGED <<agentUp, session, acks, fcount, calls, written, chosen>>
  PROVE  HubSide' /\ Service!Close
<1>1. \A j \in Jobs, p \in Pairs :
         stage'[j][p] = IF stage[j][p] = "reading" \/ OnTheWay(p[1][1], j, p) THEN "lost" ELSE stage[j][p]
  BY DEF ServerGone
<1>2. \A j \in Jobs, p \in Pairs : OnTheWay(p[1][1], j, p) => stage[j][p] \in {"sent", "acking", "stray"}
  BY DEF OnTheWay
<1>3. \A j \in Jobs, p \in Pairs : stage'[j][p] \notin {"reading", "sent", "acking"} /\ ~Live(p[1])'
  <2>1. \A p \in Pairs : p[1][1] \in Agents
    BY DEF Pairs, Sessions
  <2>2. \A j \in Jobs, p \in Pairs : stage[j][p] \in {"sent", "acking"} => OnTheWay(p[1][1], j, p)
    BY <2>1, OnTheCurrent DEF IInv
  <2>3. \A p \in Pairs : ~Live(p[1])'
    BY <2>1 DEF ServerGone, Live
  <2> QED
    BY <1>1, <2>2, <2>3
<1>4. HubSide'
  BY <1>3 DEF HubSide, ServerGone
<1>5. UNCHANGED Pushed
  BY <1>1, <1>2, SameWanted
<1>6. Requested' = [r \in Builds |-> IF r \in Builds /\ Requested[r] = "asked" THEN "lost" ELSE Requested[r]]
  BY DEF Requested, Asked, ServerGone, IInv, TypeOK
<1>7. UNCHANGED Held
  BY DEF Held
<1>8. Service!Close
  BY <1>5, <1>6, <1>7 DEF Service!Close, Service!Lost, ServerGone, Requested, Pushed
<1> QED
  BY <1>4, <1>8

LEMMA PushPushes ==
  ASSUME IInv, HubSide, NEW j \in Jobs, NEW T \in SUBSET Known, NEW F \in SUBSET Files,
         PushToAgent(j, T, F)
  PROVE  HubSide' /\ \E A \in SUBSET Agents : Service!Push(j, A, F)
<1>1. /\ serverUp /\ job[j] = "none" /\ job' = [job EXCEPT ![j] = "running"]
      /\ UNCHANGED <<serverUp, link, session, calls, written, build>>
  BY DEF PushToAgent, connection, builds
<1>2. \A i \in Jobs, p \in Pairs :
         stage'[i][p] = IF i = j THEN (IF p \in T \X F THEN "reading" ELSE "none") ELSE stage[i][p]
  BY DEF PushToAgent, IInv, TypeOK
<1>3. HubSide'
  <2>1. \A p \in Pairs : Live(p[1])' = Live(p[1])
    BY <1>1 DEF Live
  <2>2. \A i \in Jobs : job'[i] = IF i = j THEN "running" ELSE job[i]
    BY <1>1 DEF IInv, TypeOK
  <2> QED
    BY <1>1, <1>2, <2>1, <2>2 DEF HubSide
<1> DEFINE A == {s[1] : s \in T}
<1>4. A \in SUBSET Agents /\ T \X F \in SUBSET Pairs
  BY DEF Known, Sessions, Pairs
<1>5. Wanted(j)' = A \X F
  <2>1. Wanted(j)' = {<<p[1][1], p[2]>> : p \in T \X F}
    <3>1. {q \in Pairs : stage'[j][q] # "none"} = T \X F
      BY <1>2, <1>4
    <3> QED
      BY <3>1 DEF Wanted
  <2>2. \A x \in {<<p[1][1], p[2]>> : p \in T \X F} : x \in A \X F
    OBVIOUS
  <2>3. \A x \in A \X F : x \in {<<p[1][1], p[2]>> : p \in T \X F}
    <3> SUFFICES ASSUME NEW s \in T, NEW f \in F
                 PROVE  <<s[1], f>> \in {<<p[1][1], p[2]>> : p \in T \X F}
      OBVIOUS
    <3>1. <<s, f>> \in T \X F /\ <<s, f>>[1][1] = s[1] /\ <<s, f>>[2] = f
      OBVIOUS
    <3> QED
      BY <3>1
  <2> QED
    BY <2>1, <2>2, <2>3
<1>6. \A i \in Jobs \ {j} : Wanted(i)' = Wanted(i)
  BY <1>2 DEF Wanted
<1>7. Pushed' = [Pushed EXCEPT ![j] = A \X F]
  BY <1>5, <1>6 DEF Pushed
<1>8. UNCHANGED Held /\ UNCHANGED Requested
  BY <1>1 DEF Held, Requested, Asked
<1>9. Service!Push(j, A, F)
  BY <1>1, <1>7, <1>8 DEF Service!Push, Pushed, Requested
<1> QED
  BY <1>3, <1>4, <1>9

\* A file is written for a job nobody has been told of.
LEMMA WrittenDelivers ==
  ASSUME IInv, HubSide, NEW j \in Jobs, NEW p \in Pairs, FileWritten(j, p)
  PROVE  HubSide' /\ Service!Deliver(p[1][1], p[2])
<1> DEFINE a == p[1][1]
<1>1. a \in Agents /\ p[2] \in Files
  BY DEF Pairs, Sessions
<1>2. /\ stage[j][p] = "writing" /\ written' = [written EXCEPT ![a] = @ \cup {p[2]}]
      /\ UNCHANGED <<serverUp, link, session, job, calls, build>>
      /\ \A i \in Jobs, q \in Pairs :
            stage'[i][q] = IF i = j /\ q = p THEN (IF Live(p[1]) THEN "acking" ELSE "stray") ELSE stage[i][q]
  BY DEF FileWritten, WrittenBy, SetStage, connection, builds, IInv, TypeOK
<1>3. HubSide'
  <2>1. \A q \in Pairs : Live(q[1])' = Live(q[1])
    BY <1>2 DEF Live
  <2> QED
    BY <1>2, <2>1 DEF HubSide
<1>4. UNCHANGED Pushed
  BY <1>2, SameWanted
<1>5. Held' = Held \cup {<<a, p[2]>>}
  BY <1>1, <1>2 DEF Held, IInv, TypeOK
<1>6. <<a, p[2]>> \in Pushed[j]
  BY <1>2 DEF Pushed, Wanted
<1>7. calls[j] = 0
  <2>1. p \in Outstanding(j)
    BY <1>2 DEF Outstanding
  <2>2. calls[j] > 0 => Outstanding(j) = {}
    BY DEF IInv, ToldAtTheEnd
  <2>3. calls[j] \in Nat
    BY DEF IInv, TypeOK
  <2> QED
    BY <2>1, <2>2, <2>3
<1>8. UNCHANGED Requested
  BY <1>2 DEF Requested, Asked
<1>9. Service!Deliver(a, p[2])
  BY <1>2, <1>4, <1>5, <1>6, <1>7, <1>8 DEF Service!Deliver, Pushed, Requested
<1> QED
  BY <1>3, <1>9

\* The last acknowledgement tells; the others change nothing that is promised.
LEMMA AcknowledgedTells ==
  ASSUME IInv, IInv', HubSide, NEW j \in Jobs, NEW p \in Pairs, Acknowledged(j, p)
  PROVE  HubSide' /\ (Service!Tell(j) \/ UNCHANGED Service!svars)
<1>1. /\ stage[j][p] = "acking"
      /\ UNCHANGED <<serverUp, link, session, job, written, build>>
      /\ \A i \in Jobs, q \in Pairs :
            stage'[i][q] = IF i = j /\ q = p THEN "counted" ELSE stage[i][q]
  BY DEF Acknowledged, SetStage, connection, builds, IInv, TypeOK
<1>2. HubSide'
  <2>1. \A q \in Pairs : Live(q[1])' = Live(q[1])
    BY <1>1 DEF Live
  <2> QED
    BY <1>1, <2>1 DEF HubSide
<1>3. UNCHANGED Pushed
  BY <1>1, SameWanted
<1>4. CASE UNCHANGED calls
  BY <1>1, <1>2, <1>3, <1>4, SameService
<1>5. CASE calls' = [calls EXCEPT ![j] = @ + 1]
  <2>1. calls[j] = 0
    <3>1. p \in Outstanding(j)
      BY <1>1 DEF Outstanding
    <3>2. calls[j] > 0 => Outstanding(j) = {}
      BY DEF IInv, ToldAtTheEnd
    <3>3. calls[j] \in Nat
      BY DEF IInv, TypeOK
    <3> QED
      BY <3>1, <3>2, <3>3
  <2>2. calls' = [calls EXCEPT ![j] = 1] /\ calls'[j] > 0
    BY <1>5, <2>1 DEF IInv, TypeOK
  <2>3. job[j] = "running" /\ serverUp
    BY <1>1 DEF HubSide
  <2>4. \A q \in Pairs : stage[j][q] # "none" => q[2] \in written[q[1][1]]
    BY <1>1, <2>2 DEF IInv, ToldAtTheEnd, Outstanding, OnDisk
  <2>5. Wanted(j) \subseteq Held
    BY <2>4 DEF Wanted, Held, Pairs, Sessions
  <2>6. UNCHANGED Held /\ UNCHANGED Requested
    BY <1>1 DEF Held, Requested, Asked
  <2>7. Service!Tell(j)
    BY <1>1, <1>3, <2>1, <2>2, <2>3, <2>5, <2>6 DEF Service!Tell, Pushed, Requested
  <2> QED
    BY <1>2, <2>7
<1> QED
  BY <1>4, <1>5 DEF Acknowledged, CountDown

LEMMA RequestBuildAsks ==
  ASSUME IInv, HubSide, NEW r \in Builds, RequestBuild(r)
  PROVE  HubSide' /\ Service!Ask(r)
<1>1. serverUp /\ build[r] = "none" /\ UNCHANGED <<serverUp, link, session, job, stage, calls, written>>
  BY DEF RequestBuild, connection
<1>2. PICK to \in {"refused", "sent", "lost"} : build' = [build EXCEPT ![r] = to]
  BY DEF RequestBuild
<1>3. HubSide'
  <2>1. \A q \in Pairs : Live(q[1])' = Live(q[1])
    BY <1>1 DEF Live
  <2> QED
    BY <1>1, <1>2, <2>1 DEF HubSide, IInv, TypeOK
<1>4. UNCHANGED Pushed /\ UNCHANGED Held
  BY <1>1 DEF Pushed, Wanted, Held
<1>5. Requested' = [Requested EXCEPT ![r] = IF to = "sent" THEN "asked" ELSE to] /\ Requested[r] = "none"
  BY <1>1, <1>2 DEF Requested, Asked, IInv, TypeOK
<1>6. Service!Ask(r)
  <2>1. (IF to = "sent" THEN "asked" ELSE to) \in {"refused", "asked", "lost"}
    OBVIOUS
  <2> QED
    BY <1>1, <1>4, <1>5, <2>1 DEF Service!Ask, Pushed, Requested
<1> QED
  BY <1>3, <1>6

LEMMA BuildAnswers ==
  ASSUME IInv, HubSide, NEW r \in Builds, BuildTest(r) \/ BuildAnswered(r)
  PROVE  HubSide' /\ (Service!Answer(r) \/ UNCHANGED Service!svars)
<1>1. /\ UNCHANGED <<serverUp, link, session, job, stage, calls, written>>
      /\ build[r] \in {"sent", "acking"} /\ serverUp
  BY DEF BuildTest, BuildAnswered, connection, pushes, HubSide
<1>2. \/ build' = [build EXCEPT ![r] = "acking"]
      \/ build' = [build EXCEPT ![r] = "answered"]
  BY DEF BuildTest, BuildAnswered
<1>3. HubSide'
  <2>1. \A q \in Pairs : Live(q[1])' = Live(q[1])
    BY <1>1 DEF Live
  <2> QED
    BY <1>1, <1>2, <2>1 DEF HubSide, IInv, TypeOK
<1>4. UNCHANGED Pushed /\ UNCHANGED Held
  BY <1>1 DEF Pushed, Wanted, Held
<1>5. CASE build' = [build EXCEPT ![r] = "acking"]
  <2>1. UNCHANGED Requested
    BY <1>1, <1>5 DEF Requested, Asked, IInv, TypeOK
  <2> QED
    BY <1>1, <1>3, <1>4, <2>1 DEF Service!svars, Pushed, Requested
<1>6. CASE build' = [build EXCEPT ![r] = "answered"]
  <2>1. Requested' = [Requested EXCEPT ![r] = "answered"] /\ Requested[r] = "asked"
    BY <1>1, <1>6 DEF Requested, Asked, IInv, TypeOK
  <2>2. Service!Answer(r)
    BY <1>1, <1>4, <2>1 DEF Service!Answer, Pushed, Requested
  <2> QED
    BY <1>3, <2>2
<1> QED
  BY <1>2, <1>5, <1>6

LEMMA StepServes ==
  ASSUME IInv, IInv', HubSide, [Next]_vars
  PROVE  HubSide' /\ [Service!Next]_(Service!svars)
<1> USE DEF Service!Next
<1>1. ASSUME NEW a \in Agents, AgentStart(a) \/ Checkin(a) PROVE HubSide' /\ UNCHANGED Service!svars
  <2>1. UNCHANGED <<serverUp, link, session, job, calls, written, build, stage>>
    BY <1>1 DEF AgentStart, Checkin, pushes, builds
  <2>2. \A p \in Pairs : Live(p[1])' = Live(p[1])
    BY <2>1 DEF Live
  <2> QED
    BY <2>1, <2>2, QuietStep
<1>2. ASSUME NEW a \in Agents, LinkDrop(a) PROVE HubSide' /\ \E R \in SUBSET Builds : Service!Lose(R)
  <2>1. \A j \in Jobs, p \in Pairs :
           stage'[j][p] = stage[j][p] \/ (stage[j][p] # "none" /\ stage'[j][p] = "lost")
    BY <1>2 DEF LinkDrop, LoseStages, OnTheWay, IInv, TypeOK
  <2> QED
    BY <1>2, <2>1, BreakLoses DEF LinkDrop
<1>3. ASSUME NEW a \in Agents, AgentGone(a), UNCHANGED <<serverUp, session, job, calls, written, chosen>>
      PROVE  HubSide' /\ \E R \in SUBSET Builds : Service!Lose(R)
  <2>1. \A j \in Jobs, p \in Pairs :
           stage'[j][p] = stage[j][p] \/ (stage[j][p] # "none" /\ stage'[j][p] = "lost")
    BY <1>3 DEF AgentGone, OnTheWay, IInv, TypeOK
  <2> QED
    BY <1>3, <2>1, BreakLoses DEF AgentGone
<1>4. ASSUME NEW s \in Sessions, Disconnect(s) PROVE HubSide' /\ UNCHANGED Service!svars
  <2>1. UNCHANGED <<serverUp, link, session, job, calls, written, build, stage>>
    BY <1>4 DEF Disconnect, connection, pushes, builds
  <2>2. \A p \in Pairs : Live(p[1])' = Live(p[1])
    BY <2>1 DEF Live
  <2> QED
    BY <2>1, <2>2, QuietStep
<1>5. CASE ServerDies
  BY <1>5, ServerGoneCloses DEF ServerDies
<1>6. CASE ServerStart
  <2>1. /\ ~serverUp /\ serverUp' = TRUE
        /\ UNCHANGED <<link, session, job, calls, written, build, stage>>
    BY <1>6 DEF ServerStart, connection, pushes, builds
  <2>2. HubSide'
    BY <2>1 DEF HubSide, Live
  <2>3. Service!Open
    BY <2>1 DEF Service!Open, Wanted, Held, Asked
  <2> QED
    BY <2>2, <2>3
<1>7. ASSUME NEW j \in Jobs, NEW T \in SUBSET Known, NEW F \in SUBSET Files, PushToAgent(j, T, F)
      PROVE  HubSide' /\ [Service!Next]_(Service!svars)
  BY <1>7, PushPushes
<1>8. ASSUME NEW j \in Jobs, NEW p \in Pairs, FileRead(j, p) \/ PushFile(j, p) \/ StrayAck(j, p)
      PROVE  HubSide' /\ UNCHANGED Service!svars
  <2>1. UNCHANGED <<serverUp, link, session, job, calls, written, build>>
    BY <1>8, StrayMeetsNothing DEF FileRead, PushFile, StrayAck, connection, builds
  <2>2. PICK to \in {"nodest", "sent", "writing", "lost"} :
           /\ SetStage(j, p, to)
           /\ \/ stage[j][p] \in {"reading", "sent"}
              \/ to = "lost" /\ stage[j][p] = "stray"
    BY <1>8 DEF FileRead, PushFile, StrayAck
  <2> QED
    BY <2>1, <2>2, MoveIsQuiet DEF Stages
<1>9. ASSUME NEW j \in Jobs, NEW p \in Pairs, FileReadFails(j, p)
      PROVE  HubSide' /\ Service!Close
  <2>1. serverUp
    BY <1>9 DEF FileReadFails, HubSide
  <2> QED
    BY <1>9, <2>1, ServerGoneCloses DEF FileReadFails
<1>10. ASSUME NEW j \in Jobs, NEW p \in Pairs, FileWritten(j, p)
       PROVE  HubSide' /\ [Service!Next]_(Service!svars)
  <2>1. p[1][1] \in Agents /\ p[2] \in Files
    BY DEF Pairs, Sessions
  <2> QED
    BY <1>10, <2>1, WrittenDelivers
<1>11. ASSUME NEW j \in Jobs, NEW p \in Pairs, FileWriteFails(j, p)
       PROVE  HubSide' /\ \E R \in SUBSET Builds : Service!Lose(R)
  <2>1. p[1][1] \in Agents
    BY DEF Pairs, Sessions
  <2> QED
    BY <1>3, <1>11, <2>1 DEF FileWriteFails
<1>12. ASSUME NEW j \in Jobs, NEW p \in Pairs, Acknowledged(j, p)
       PROVE  HubSide' /\ [Service!Next]_(Service!svars)
  BY <1>12, AcknowledgedTells
<1>13. ASSUME NEW r \in Builds, RequestBuild(r) \/ BuildTest(r) \/ BuildAnswered(r)
       PROVE  HubSide' /\ [Service!Next]_(Service!svars)
  BY <1>13, RequestBuildAsks, BuildAnswers
<1>14. CASE UNCHANGED vars
  <2>1. HubSide'
    BY <1>14 DEF HubSide, Live, vars
  <2>2. UNCHANGED Service!svars
    BY <1>14 DEF Service!svars, Wanted, Held, Asked, vars
  <2> QED
    BY <2>1, <2>2
<1>15. ASSUME NEW a \in Agents, AgentDies(a) PROVE HubSide' /\ \E R \in SUBSET Builds : Service!Lose(R)
  BY <1>3, <1>15 DEF AgentDies
<1>16. ASSUME NEW a \in Agents, Connect(a) PROVE HubSide' /\ UNCHANGED Service!svars
  BY <1>16, ConnectIsQuiet
<1> QED
  BY <1>1, <1>2, <1>4, <1>5, <1>6, <1>7, <1>8, <1>9, <1>10, <1>11, <1>12, <1>13, <1>14, <1>15, <1>16 DEF Next

\* With any number of agents, files, jobs and build requests, and through every
\* failure: who pushes is told at most once, by the server that began the push,
\* when all agents hold all files; a build request is settled at most once, and
\* by the server that was asked (fu.node.js 193-237, agent.js 16-50).
THEOREM HubImplementsPushService == Spec => HubIsAPushService
<1>1. Init => HubSide /\ Service!Init
  <2> SUFFICES ASSUME Init PROVE HubSide /\ Service!Init
    OBVIOUS
  <2>1. HubSide
    BY DEF Init, HubSide
  <2>2. \A j \in Jobs : Wanted(j) = {}
    BY DEF Init, Wanted
  <2>3. Held = {}
    BY DEF Init, Held
  <2>4. [r \in Builds |-> Asked(r)] = [r \in Builds |-> "none"]
    BY DEF Init, Asked
  <2> QED
    BY <2>1, <2>2, <2>3, <2>4 DEF Init, Service!Init
<1>2. IInv /\ IInv' /\ HubSide /\ [Next]_vars => HubSide' /\ [Service!Next]_(Service!svars)
  BY StepServes
<1> QED
  BY <1>1, <1>2, HubInvariant, PTL DEF Spec, HubIsAPushService, Service!Spec
=============================================================================
