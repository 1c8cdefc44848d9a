-------------------------- MODULE DeviceEngineProofs --------------------------
(***************************************************************************)
(* Proofs about DeviceEngine, for every set of jobs, seeds, profiles and   *)
(* requests: stops and exits that come late act on no job but their own,   *)
(* and a job that is done has run all its monkeys.                         *)
(***************************************************************************)
EXTENDS DeviceEngine, TLAPS

\* The job that runs has begun and not ended.
CurrentUnderWay ==
    /\ current # Nil => current \in Jobs /\ status[current] \in {"pending", "running"}
    /\ ~running => listening = {}
    /\ ~up => listening = {}

\* A job is once in the queue; behind the head there are only jobs that have not
\* begun, and at the head one of these or the running one. The stop of all jobs
\* takes the running one out of the queue, or leaves it alone there.
QueueInOrder ==
    /\ \A i, k \in 1 .. Len(pool) : pool[i] = pool[k] /\ pool[i] # Hole => i = k
    /\ \A i \in 1 .. Len(pool) :
          \/ pool[i] = Hole
          \/ pool[i] # current /\ status[pool[i]] = "pending" /\ index[pool[i]] = 0
          \/ i = 1 /\ pool[i] = current

\* No monkey of a job has ended before the job is made.
UnmadeUnrun == \A j \in Jobs : status[j] = "none" => index[j] = 0

IInv ==
    /\ TypeOK
    /\ UnmadeUnrun
    /\ NoIdleQueue
    /\ CurrentUnderWay
    /\ QueueInOrder
    /\ OneMonkeyListens
    /\ DoneMeansAllRan
-----------------------------------------------------------------------------
(* Lemmas about monkeys and queues *)

LEMMA MonkeyCountType ==
  ASSUME NEW j \in Jobs
  PROVE  MonkeyCount(j) \in Nat
<1> DEFINE s == Seeds[j]
<1>1. s.start \in Nat /\ s.end \in Nat /\ s.interval \in Nat /\ s.interval > 0
  BY SeedAssumption
<1>2. CASE s.start > s.end
  BY <1>1, <1>2 DEF MonkeyCount
<1>3. CASE ~(s.start > s.end)
  <2>1. s.end - s.start \in Nat
    BY <1>1, <1>3
  <2>2. (s.end - s.start) \div s.interval \in Nat
    BY <1>1, <2>1
  <2> QED
    BY <1>1, <1>3, <2>2 DEF MonkeyCount
<1> QED
  BY <1>2, <1>3

\* The monkeys of a job are numbered from 1 to their count.
LEMMA MonkeyNumbers ==
  /\ \A m \in Monkeys : m[1] \in Jobs /\ m[2] \in 1 .. MonkeyCount(m[1]) /\ m = <<m[1], m[2]>>
  /\ \A j \in Jobs : \A n : MonkeyAt(j, n) \in SUBSET Monkeys
  /\ \A j \in Jobs : \A n : \A m \in MonkeyAt(j, n) : m[1] = j /\ m[2] = n
  /\ \A j \in Jobs : \A n \in 1 .. MonkeyCount(j) : MonkeyAt(j, n) = {<<j, n>>}
BY DEF Monkeys, MonkeyAt

\* The queue without its head.
LEMMA RestOfQueue ==
  ASSUME TypeOK, QueueInOrder, NEW rest, rest = SubSeq(pool, 2, Len(pool))
  PROVE  /\ rest \in Seq(Jobs \cup {Hole})
         /\ \A i, k \in 1 .. Len(rest) : rest[i] = rest[k] /\ rest[i] # Hole => i = k
         /\ \A i \in 1 .. Len(rest) :
               rest[i] = Hole \/ (rest[i] # current /\ status[rest[i]] = "pending" /\ index[rest[i]] = 0)
<1>1. pool \in Seq(Jobs \cup {Hole}) /\ Len(pool) \in Nat
  BY DEF TypeOK
<1>2. CASE Len(pool) < 2
  BY <1>1, <1>2
<1>3. CASE Len(pool) >= 2
  <2>1. /\ rest \in Seq(Jobs \cup {Hole})
        /\ Len(rest) = Len(pool) - 1
        /\ \A i \in 1 .. Len(rest) : rest[i] = pool[i + 1]
    BY <1>1, <1>3
  <2> QED
    BY <1>1, <2>1 DEF QueueInOrder
<1> QED
  BY <1>1, <1>2, <1>3

\* Starting the first job of an orderly queue.
LEMMA StartKeeps ==
  ASSUME NEW p \in Seq(Jobs \cup {Hole}), NEW st, NEW alive \in SUBSET Monkeys,
         StartJob(p, st, alive), up' = TRUE,
         Len(p) > 0, p[1] # Hole,
         \A i, k \in 1 .. Len(p) : p[i] = p[k] /\ p[i] # Hole => i = k,
         st \in [Jobs -> {"none", "pending", "running", "done", "aborting", "gone"}],
         taken \in SUBSET {ProfileOf[j] : j \in Jobs},
         index' \in [Jobs -> Nat],
         \A i \in 1 .. Len(p) : p[i] # Hole => st[p[i]] = "pending" /\ index'[p[i]] = 0,
         \A j \in Jobs : st[j] = "done" => index'[j] = MonkeyCount(j)
  PROVE  /\ pool' \in Seq(Jobs \cup {Hole}) /\ current' \in Jobs \cup {Nil} /\ running' \in BOOLEAN
         /\ status' \in [Jobs -> {"none", "pending", "running", "done", "aborting", "gone"}]
         /\ listening' \in SUBSET Monkeys /\ process' \in SUBSET Monkeys
         /\ taken' \in SUBSET {ProfileOf[j] : j \in Jobs}
         /\ NoIdleQueue' /\ CurrentUnderWay' /\ QueueInOrder' /\ OneMonkeyListens' /\ DoneMeansAllRan'
<1> DEFINE j == p[1]
<1>1. j \in Jobs /\ Len(p) \in Nat /\ 1 \in 1 .. Len(p)
  OBVIOUS
<1>2. j # Nil /\ j # Hole
  BY <1>1, MarkerAssumption
<1>3. /\ pool' = p /\ current' = j /\ running' = TRUE
      /\ listening' = MonkeyAt(j, 1) /\ process' = alive \cup MonkeyAt(j, 1)
      /\ taken' \in SUBSET {ProfileOf[i] : i \in Jobs}
  BY <1>1 DEF StartJob, Listeners
<1>4. /\ status' = (IF MonkeyAt(j, 1) = {} THEN st ELSE [st EXCEPT ![j] = "running"])
      /\ st[j] = "pending" /\ index'[j] = 0
  BY <1>1, <1>2 DEF StartJob
<1> HIDE DEF j
<1>5. /\ status' \in [Jobs -> {"none", "pending", "running", "done", "aborting", "gone"}]
      /\ status'[j] \in {"pending", "running"}
      /\ MonkeyAt(j, 1) # {} => status'[j] = "running"
      /\ \A i \in Jobs \ {j} : status'[i] = st[i]
  BY <1>1, <1>4
<1>6. listening' \in SUBSET Monkeys /\ process' \in SUBSET Monkeys
  BY <1>1, <1>3, MonkeyNumbers
<1>7. NoIdleQueue' /\ CurrentUnderWay'
  BY <1>1, <1>2, <1>3, <1>5 DEF NoIdleQueue, CurrentUnderWay
<1>8. QueueInOrder'
  <2> SUFFICES ASSUME NEW i \in 1 .. Len(p), p[i] # Hole, i # 1
               PROVE  p[i] # j /\ status'[p[i]] = "pending" /\ index'[p[i]] = 0
    BY <1>3 DEF QueueInOrder, j
  <2>1. p[i] # j /\ p[i] \in Jobs
    BY <1>1, <1>2 DEF j
  <2> QED
    BY <1>5, <2>1
<1>9. OneMonkeyListens'
  BY <1>1, <1>3, <1>4, <1>5, MonkeyNumbers DEF OneMonkeyListens
<1>10. DoneMeansAllRan'
  BY <1>5 DEF DoneMeansAllRan
<1> QED
  BY <1>1, <1>3, <1>5, <1>6, <1>7, <1>8, <1>9, <1>10
-----------------------------------------------------------------------------
(* The initial state and the steps keep IInv *)

LEMMA InitKeeps == Init => IInv
<1> SUFFICES ASSUME Init PROVE IInv
  OBVIOUS
<1>1. TypeOK
  <2>1. status \in [Jobs -> {"none", "pending", "running", "done", "aborting", "gone"}]
    BY DEF Init
  <2>2. request \in [Requests -> {"new", "waiting", "answered", "lost"}]
    BY DEF Init
  <2>3. index \in [Jobs -> Nat]
    BY DEF Init
  <2>4. pool \in Seq(Jobs \cup {Hole})
    BY DEF Init
  <2>5. up \in BOOLEAN /\ current \in Jobs \cup {Nil} /\ running \in BOOLEAN
    BY DEF Init
  <2>6. listening = {} /\ process = {} /\ kills = {} /\ taken = {}
    BY DEF Init
  <2>7. taken \in SUBSET {ProfileOf[j] : j \in Jobs}
    BY DEF Init
  <2> QED
    BY <2>1, <2>2, <2>3, <2>4, <2>5, <2>6, <2>7 DEF TypeOK
<1>2. UnmadeUnrun /\ DoneMeansAllRan
  BY DEF Init, UnmadeUnrun, DoneMeansAllRan
<1>3. NoIdleQueue /\ CurrentUnderWay /\ OneMonkeyListens
  BY DEF Init, NoIdleQueue, CurrentUnderWay, OneMonkeyListens
<1>4. QueueInOrder
  BY DEF Init, QueueInOrder
<1> QED
  BY <1>1, <1>2, <1>3, <1>4 DEF IInv

LEMMA DieKeeps ==
  ASSUME IInv, Die
  PROVE  IInv'
<1>1. status' \in [Jobs -> {"none", "pending", "running", "done", "aborting", "gone"}]
  BY DEF IInv, TypeOK, Die
<1>2. request' \in [Requests -> {"new", "waiting", "answered", "lost"}]
  BY DEF IInv, TypeOK, Die
<1>3. TypeOK'
  <2>1. pool' \in Seq(Jobs \cup {Hole})
    BY DEF Die
  <2>2. up' \in BOOLEAN /\ current' \in Jobs \cup {Nil} /\ running' \in BOOLEAN
    BY DEF Die
  <2>3. listening' = {} /\ process' = {} /\ kills' = {}
    BY DEF Die
  <2>4. index' \in [Jobs -> Nat] /\ taken' \in SUBSET {ProfileOf[j] : j \in Jobs}
    BY DEF IInv, TypeOK, Die
  <2> QED
    BY <1>1, <1>2, <2>1, <2>2, <2>3, <2>4 DEF TypeOK
<1>4. NoIdleQueue' /\ CurrentUnderWay' /\ QueueInOrder' /\ OneMonkeyListens'
  BY DEF Die, NoIdleQueue, CurrentUnderWay, QueueInOrder, OneMonkeyListens
<1>5. DoneMeansAllRan'
  BY DEF IInv, Die, DoneMeansAllRan
<1>6. UnmadeUnrun'
  BY DEF IInv, Die, UnmadeUnrun
<1> QED
  BY <1>3, <1>4, <1>5, <1>6 DEF IInv

LEMMA AnsweredType ==
  ASSUME TypeOK
  PROVE  Answered \in [Requests -> {"new", "waiting", "answered", "lost"}]
BY DEF TypeOK, Answered

\* addJob on an idle device finds an empty queue.
LEMMA AddJobKeeps ==
  ASSUME IInv, NEW j \in Jobs, AddJob(j)
  PROVE  IInv'
<1> DEFINE p == Append(pool, j)
           st == [status EXCEPT ![j] = "pending"]
<1>1. j # Nil /\ j # Hole /\ status[j] = "none"
  BY MarkerAssumption DEF AddJob
<1>2. st \in [Jobs -> {"none", "pending", "running", "done", "aborting", "gone"}]
  BY DEF IInv, TypeOK
<1>3. j # current /\ \A i \in 1 .. Len(pool) : pool[i] # j
  BY <1>1 DEF IInv, CurrentUnderWay, QueueInOrder
<1>4. /\ p \in Seq(Jobs \cup {Hole}) /\ Len(p) = Len(pool) + 1 /\ p[Len(p)] = j
      /\ \A i \in 1 .. Len(pool) : p[i] = pool[i]
      /\ Len(pool) \in Nat
  BY DEF IInv, TypeOK
<1>5. index[j] = 0
  BY <1>1 DEF IInv, UnmadeUnrun
<1> HIDE DEF p, st
<1>6. CASE running /\ pool' = p /\ status' = st /\ UNCHANGED <<up, current, running, index, listening, process, kills, taken, request>>
  <2>1. TypeOK'
    BY <1>2, <1>4, <1>6 DEF IInv, TypeOK
  <2>2. NoIdleQueue' /\ DoneMeansAllRan' /\ UnmadeUnrun'
    BY <1>6 DEF IInv, TypeOK, NoIdleQueue, DoneMeansAllRan, UnmadeUnrun, st
  <2>3. CurrentUnderWay' /\ OneMonkeyListens'
    BY <1>3, <1>6 DEF IInv, TypeOK, CurrentUnderWay, OneMonkeyListens, NoIdleQueue, st
  <2>4. QueueInOrder'
    <3>1. \A i \in 1 .. Len(p) : i \in 1 .. Len(pool) \/ i = Len(p)
      BY <1>4
    <3>2. \A i, k \in 1 .. Len(p) : p[i] = p[k] /\ p[i] # Hole => i = k
      BY <1>3, <1>4, <3>1 DEF IInv, QueueInOrder
    <3>3. st[j] = "pending" /\ \A i \in Jobs \ {j} : st[i] = status[i]
      BY DEF IInv, TypeOK, st
    <3>4. \A i \in 1 .. Len(pool) : pool[i] = Hole \/ pool[i] \in Jobs \ {j}
      BY <1>3 DEF IInv, TypeOK
    <3>5. \A i \in 1 .. Len(p) :
            \/ p[i] = Hole
            \/ p[i] # current /\ st[p[i]] = "pending" /\ index[p[i]] = 0
            \/ i = 1 /\ p[i] = current
      <4>1. \A i \in 1 .. Len(pool) :
              \/ pool[i] = Hole
              \/ pool[i] # current /\ st[pool[i]] = "pending" /\ index[pool[i]] = 0
              \/ i = 1 /\ pool[i] = current
        BY <3>3, <3>4 DEF IInv, QueueInOrder
      <4>2. p[Len(p)] # current /\ st[p[Len(p)]] = "pending" /\ index[p[Len(p)]] = 0
        BY <1>3, <1>4, <1>5, <3>3
      <4>3. \A i \in 1 .. Len(pool) :
              \/ p[i] = Hole
              \/ p[i] # current /\ st[p[i]] = "pending" /\ index[p[i]] = 0
              \/ i = 1 /\ p[i] = current
        BY <1>4, <4>1
      <4> QED
        BY <3>1, <4>2, <4>3
    <3> QED
      BY <1>6, <3>2, <3>5 DEF QueueInOrder
  <2> QED
    BY <2>1, <2>2, <2>3, <2>4 DEF IInv
<1>7. CASE Die
  BY <1>7, DieKeeps
<1>8. CASE /\ ~running /\ StartJob(p, st, process)
           /\ request' = (IF MonkeyAt(j, 1) = {} THEN request ELSE Answered)
           /\ UNCHANGED <<up, index, kills>>
  <2>1. Len(p) = 1 /\ p[1] = j
    BY <1>4, <1>8 DEF IInv, TypeOK, NoIdleQueue
  <2>2. st[j] = "pending" /\ \A i \in Jobs \ {j} : st[i] = status[i]
    BY DEF IInv, TypeOK, st
  <2>3. /\ pool' \in Seq(Jobs \cup {Hole}) /\ current' \in Jobs \cup {Nil} /\ running' \in BOOLEAN
        /\ status' \in [Jobs -> {"none", "pending", "running", "done", "aborting", "gone"}]
        /\ listening' \in SUBSET Monkeys /\ process' \in SUBSET Monkeys
        /\ taken' \in SUBSET {ProfileOf[i] : i \in Jobs}
        /\ NoIdleQueue' /\ CurrentUnderWay' /\ QueueInOrder' /\ OneMonkeyListens' /\ DoneMeansAllRan'
    <3>1. process \in SUBSET Monkeys /\ taken \in SUBSET {ProfileOf[i] : i \in Jobs} /\ index' \in [Jobs -> Nat]
      BY <1>8 DEF IInv, TypeOK
    <3>2. \A i \in Jobs : st[i] = "done" => index'[i] = MonkeyCount(i)
      BY <1>8, <2>2 DEF IInv, DoneMeansAllRan
    <3>3. StartJob(p, st, process) /\ up' = TRUE
      BY <1>8 DEF IInv, TypeOK, AddJob
    <3>4. \A i \in 1 .. Len(p) : p[i] # Hole => st[p[i]] = "pending" /\ index'[p[i]] = 0
      BY <1>5, <1>8, <2>1, <2>2
    <3>5. \A i, k \in 1 .. Len(p) : p[i] = p[k] /\ p[i] # Hole => i = k
      BY <2>1
    <3> QED
      BY <1>1, <1>2, <1>4, <2>1, <3>1, <3>2, <3>3, <3>4, <3>5, StartKeeps
  <2>4. request' \in [Requests -> {"new", "waiting", "answered", "lost"}]
    BY <1>8, AnsweredType DEF IInv, TypeOK
  <2>5. UnmadeUnrun'
    BY <1>8, <2>1, <2>2 DEF IInv, UnmadeUnrun, StartJob
  <2> QED
    BY <1>8, <2>3, <2>4, <2>5 DEF IInv, TypeOK
<1> QED
  BY <1>6, <1>7, <1>8 DEF AddJob, p, st

\* The end of the running job, by its last monkey or by a kill.
LEMMA EndJobKeeps ==
  ASSUME IInv, NEW m \in listening, NEW as \in {"done", "aborting"},
         NEW alive \in SUBSET Monkeys,
         as = "done" => index[m[1]] + 1 = MonkeyCount(m[1]),
         EndJob(m[1], as, alive),
         up' => kills' \in SUBSET Monkeys
  PROVE  IInv'
<1> DEFINE j == m[1]
           rest == SubSeq(pool, 2, Len(pool))
           st == [status EXCEPT ![j] = as]
<1>1. j \in Jobs /\ j = current /\ status[j] = "running"
  BY MonkeyNumbers DEF IInv, TypeOK, OneMonkeyListens
<1>2. CASE Die
  BY <1>2, DieKeeps
<1>3. CASE /\ GoOn(rest, st, alive)
           /\ rest = <<>> \/ ~StartThrows(rest)
           /\ index' = [index EXCEPT ![j] = @ + 1]
           /\ request' = Answered
           /\ UNCHANGED up
  <2>1. /\ rest \in Seq(Jobs \cup {Hole}) /\ Len(rest) \in Nat
        /\ \A i, k \in 1 .. Len(rest) : rest[i] = rest[k] /\ rest[i] # Hole => i = k
        /\ \A i \in 1 .. Len(rest) :
              rest[i] = Hole \/ (rest[i] # current /\ status[rest[i]] = "pending" /\ index[rest[i]] = 0)
    <3>1. TypeOK /\ QueueInOrder
      BY DEF IInv
    <3> HIDE DEF rest
    <3>2. rest \in Seq(Jobs \cup {Hole}) => Len(rest) \in Nat
      OBVIOUS
    <3> QED
      BY <3>1, <3>2, RestOfQueue DEF rest
  <2>2. /\ st \in [Jobs -> {"none", "pending", "running", "done", "aborting", "gone"}]
        /\ st[j] = as /\ \A i \in Jobs \ {j} : st[i] = status[i]
    BY <1>1 DEF IInv, TypeOK
  <2>3. /\ index' \in [Jobs -> Nat] /\ index'[j] = index[j] + 1
        /\ \A i \in Jobs \ {j} : index'[i] = index[i]
    BY <1>1, <1>3 DEF IInv, TypeOK
  <2>4. \A i \in Jobs : st[i] = "done" => index'[i] = MonkeyCount(i)
    BY <2>2, <2>3 DEF IInv, DoneMeansAllRan
  <2>5. taken \in SUBSET {ProfileOf[i] : i \in Jobs} /\ up' \in BOOLEAN
    BY <1>3 DEF IInv, TypeOK
  <2>6. request' \in [Requests -> {"new", "waiting", "answered", "lost"}]
    BY <1>3, AnsweredType DEF IInv
  <2>7. up' = TRUE /\ kills' \in SUBSET Monkeys
    BY <1>3 DEF IInv, TypeOK, CurrentUnderWay
  <2> HIDE DEF rest, st, j
  <2>8. CASE rest = <<>>
    <3>1. /\ pool' = <<>> /\ current' = Nil /\ running' = FALSE
          /\ listening' = {} /\ process' = alive /\ status' = st /\ taken' = taken
      BY <1>3, <2>8 DEF GoOn, IsHaveJobs, Listeners
    <3>2. TypeOK'
      <4>1. pool' \in Seq(Jobs \cup {Hole})
        BY <3>1
      <4>2. current' \in Jobs \cup {Nil} /\ running' \in BOOLEAN /\ listening' \in SUBSET Monkeys
        BY <3>1
      <4> QED
        BY <2>2, <2>3, <2>5, <2>6, <2>7, <3>1, <4>1, <4>2 DEF TypeOK
    <3>3. NoIdleQueue' /\ CurrentUnderWay' /\ QueueInOrder' /\ OneMonkeyListens' /\ DoneMeansAllRan'
      BY <2>4, <2>7, <3>1 DEF NoIdleQueue, CurrentUnderWay, QueueInOrder, OneMonkeyListens, DoneMeansAllRan
    <3>4. UnmadeUnrun'
      BY <2>2, <2>3, <3>1 DEF IInv, UnmadeUnrun
    <3> QED
      BY <3>2, <3>3, <3>4 DEF IInv
  <2>9. CASE rest # <<>>
    <3>1. Len(rest) > 0 /\ StartJob(rest, st, alive) /\ rest[1] # Hole
      BY <1>3, <2>1, <2>9 DEF GoOn, IsHaveJobs, StartThrows
    <3>2. \A i \in 1 .. Len(rest) : rest[i] # Hole => st[rest[i]] = "pending" /\ index'[rest[i]] = 0
      BY <1>1, <2>1, <2>2, <2>3
    <3>3. /\ pool' \in Seq(Jobs \cup {Hole}) /\ current' \in Jobs \cup {Nil} /\ running' \in BOOLEAN
          /\ status' \in [Jobs -> {"none", "pending", "running", "done", "aborting", "gone"}]
          /\ listening' \in SUBSET Monkeys /\ process' \in SUBSET Monkeys
          /\ taken' \in SUBSET {ProfileOf[i] : i \in Jobs}
          /\ NoIdleQueue' /\ CurrentUnderWay' /\ QueueInOrder' /\ OneMonkeyListens' /\ DoneMeansAllRan'
      BY <2>1, <2>2, <2>3, <2>4, <2>5, <2>7, <3>1, <3>2, StartKeeps
    <3>4. UnmadeUnrun'
      <4>1. rest[1] \in Jobs /\ (status' = st \/ status' = [st EXCEPT ![rest[1]] = "running"])
        BY <2>1, <3>1 DEF StartJob
      <4> QED
        BY <2>2, <2>3, <4>1 DEF IInv, UnmadeUnrun
    <3> QED
      BY <2>3, <2>5, <2>6, <2>7, <3>3, <3>4 DEF IInv, TypeOK
  <2> QED
    BY <2>8, <2>9
<1> QED
  BY <1>2, <1>3 DEF EndJob, IsHaveJobs

\* The monkey whose seed is the end seed is the last one made.
LEMMA LastMonkey ==
  ASSUME NEW m \in Monkeys, ~IsBalanceMonkey(m)
  PROVE  m[2] = MonkeyCount(m[1])
<1> DEFINE s == Seeds[m[1]]
<1>1. m[1] \in Jobs /\ m[2] \in 1 .. MonkeyCount(m[1]) /\ MonkeyCount(m[1]) \in Nat
  BY MonkeyNumbers, MonkeyCountType
<1>2. s.start \in Nat /\ s.end \in Nat /\ s.interval \in Nat \ {0}
  BY <1>1, SeedAssumption
<1>3. MonkeyCount(m[1]) = (s.end - s.start) \div s.interval + 1
  BY <1>1 DEF MonkeyCount
<1>4. s.start + (m[2] - 1) * s.interval = s.end
  BY DEF IsBalanceMonkey, SeedOf
<1> HIDE DEF s
<1>5. ASSUME NEW k \in Nat, NEW i \in Nat \ {0}
      PROVE  (k * i) \div i = k
  OBVIOUS
<1>6. m[2] - 1 \in Nat /\ (m[2] - 1) * s.interval \in Nat
  BY <1>1, <1>2
<1>7. s.end - s.start = (m[2] - 1) * s.interval
  BY <1>2, <1>4, <1>6
<1>8. (s.end - s.start) \div s.interval = m[2] - 1
  BY <1>2, <1>5, <1>6, <1>7
<1> QED
  BY <1>1, <1>3, <1>8

\* What is known of a monkey that is heard.
LEMMA HeardMonkey ==
  ASSUME IInv, NEW m \in listening
  PROVE  /\ m \in Monkeys /\ m[1] \in Jobs /\ m[1] = current
         /\ status[m[1]] = "running" /\ m[2] = index[m[1]] + 1 /\ m \in process
         /\ up = TRUE /\ running
         /\ listening = {m}
<1>1. m \in Monkeys /\ m[1] \in Jobs
  BY MonkeyNumbers DEF IInv, TypeOK
<1>2. m[1] = current /\ status[m[1]] = "running" /\ m[2] = index[m[1]] + 1 /\ m \in process
  BY DEF IInv, OneMonkeyListens
<1>3. up = TRUE /\ running
  BY DEF IInv, TypeOK, CurrentUnderWay
<1>4. ASSUME NEW n \in listening PROVE n = m
  <2>1. n \in Monkeys /\ n[1] = m[1] /\ n[2] = m[2]
    BY <1>2 DEF IInv, TypeOK, OneMonkeyListens
  <2> QED
    BY <1>1, <2>1, MonkeyNumbers
<1> QED
  BY <1>1, <1>2, <1>3, <1>4

LEMMA NextMonkeyKeeps ==
  ASSUME IInv, NEW m \in listening, NextMonkey(m), up' => UNCHANGED kills
  PROVE  IInv'
<1> DEFINE j == m[1]
           next == MonkeyAt(j, index[j] + 2)
<1>1. /\ m \in Monkeys /\ j \in Jobs /\ j = current /\ status[j] = "running"
      /\ m[2] = index[j] + 1 /\ up = TRUE
  BY HeardMonkey
<1>2. CASE Die
  BY <1>2, DieKeeps
<1>3. CASE /\ index' = [index EXCEPT ![j] = @ + 1]
           /\ listening' = next
           /\ process' = (process \ {m}) \cup next
           /\ request' = Answered
           /\ UNCHANGED <<up, device, status, taken>>
  <2>1. /\ index' \in [Jobs -> Nat] /\ index'[j] = index[j] + 1 /\ index[j] \in Nat
        /\ \A i \in Jobs \ {j} : index'[i] = index[i]
    BY <1>1, <1>3 DEF IInv, TypeOK
  <2>2. next \in SUBSET Monkeys /\ \A n \in next : n[1] = j /\ n[2] = index[j] + 2
    BY <1>1, MonkeyNumbers
  <2> HIDE DEF next
  <2>3. TypeOK'
    <3>1. listening' \in SUBSET Monkeys /\ process' \in SUBSET Monkeys
      BY <1>3, <2>2 DEF IInv, TypeOK
    <3>2. kills' \in SUBSET Monkeys
      BY <1>1, <1>3 DEF IInv, TypeOK
    <3>3. request' \in [Requests -> {"new", "waiting", "answered", "lost"}]
      BY <1>3, AnsweredType DEF IInv
    <3> QED
      BY <1>3, <2>1, <3>1, <3>2, <3>3 DEF IInv, TypeOK, device
  <2>4. NoIdleQueue' /\ CurrentUnderWay'
    BY <1>1, <1>3, HeardMonkey DEF IInv, NoIdleQueue, CurrentUnderWay, device
  <2>5. QueueInOrder'
    <3>1. \A i \in 1 .. Len(pool) : pool[i] = Hole \/ pool[i] \in Jobs
      BY DEF IInv, TypeOK
    <3> QED
      BY <1>1, <1>3, <2>1, <3>1 DEF IInv, QueueInOrder, device
  <2>6. OneMonkeyListens'
    BY <1>1, <1>3, <2>1, <2>2 DEF OneMonkeyListens, device
  <2>7. DoneMeansAllRan' /\ UnmadeUnrun'
    BY <1>1, <1>3, <2>1 DEF IInv, DoneMeansAllRan, UnmadeUnrun
  <2> QED
    BY <2>3, <2>4, <2>5, <2>6, <2>7 DEF IInv
<1> QED
  BY <1>2, <1>3 DEF NextMonkey, Listeners

LEMMA MonkeyExitKeeps ==
  ASSUME IInv, NEW m \in Monkeys, MonkeyExit(m)
  PROVE  IInv'
<1>1. CASE /\ m \notin listening
           /\ process' = process \ {m}
           /\ UNCHANGED <<up, device, status, index, listening, kills, taken, request>>
  <2>1. TypeOK'
    BY <1>1 DEF IInv, TypeOK, device
  <2>2. OneMonkeyListens'
    BY <1>1 DEF IInv, OneMonkeyListens, device
  <2>3. NoIdleQueue' /\ CurrentUnderWay' /\ QueueInOrder'
    BY <1>1 DEF IInv, NoIdleQueue, CurrentUnderWay, QueueInOrder, device
  <2>4. DoneMeansAllRan' /\ UnmadeUnrun'
    BY <1>1 DEF IInv, DoneMeansAllRan, UnmadeUnrun
  <2> QED
    BY <2>1, <2>2, <2>3, <2>4 DEF IInv
<1>2. CASE m \in listening /\ NextMonkey(m) /\ (up' => UNCHANGED kills)
  BY <1>2, NextMonkeyKeeps
<1>3. CASE /\ m \in listening /\ ~IsBalanceMonkey(m)
           /\ EndJob(m[1], "done", process \ {m})
           /\ up' => UNCHANGED kills
  <2>1. index[m[1]] + 1 = MonkeyCount(m[1])
    BY <1>3, LastMonkey, HeardMonkey
  <2>2. process \ {m} \in SUBSET Monkeys /\ (up' => kills' \in SUBSET Monkeys)
    BY <1>3 DEF IInv, TypeOK
  <2> QED
    BY <1>3, <2>1, <2>2, EndJobKeeps
<1> QED
  BY <1>1, <1>2, <1>3 DEF MonkeyExit

LEMMA KilledKeeps ==
  ASSUME IInv, NEW m \in Monkeys, Killed(m)
  PROVE  IInv'
<1>1. kills \ {m} \in SUBSET Monkeys /\ process \in SUBSET Monkeys
  BY DEF IInv, TypeOK
<1>2. CASE kills' = kills \ {m} /\ UNCHANGED <<up, device, tests, taken, request>>
  <2>1. TypeOK'
    BY <1>1, <1>2 DEF IInv, TypeOK, device, tests
  <2>2. OneMonkeyListens'
    BY <1>2 DEF IInv, OneMonkeyListens, device, tests
  <2>3. NoIdleQueue' /\ CurrentUnderWay' /\ QueueInOrder'
    BY <1>2 DEF IInv, NoIdleQueue, CurrentUnderWay, QueueInOrder, device, tests
  <2>4. DoneMeansAllRan' /\ UnmadeUnrun'
    BY <1>2 DEF IInv, DoneMeansAllRan, UnmadeUnrun, tests
  <2> QED
    BY <2>1, <2>2, <2>3, <2>4 DEF IInv
<1>3. ASSUME NEW t \in Target(m), EndJob(t[1], "aborting", process), up' => kills' = kills \ {m}
      PROVE  IInv'
  <2>1. t \in listening
    BY DEF Target
  <2> QED
    BY <1>1, <1>3, <2>1, EndJobKeeps
<1> QED
  BY <1>2, <1>3 DEF Killed

LEMMA KillFailsKeeps ==
  ASSUME IInv, NEW m \in Monkeys, KillFails(m)
  PROVE  IInv'
<1> DEFINE j == m[1]
<1>1. listening' \in SUBSET listening /\ kills' \in SUBSET kills /\ UNCHANGED <<up, device, status, process, taken, request>>
  BY DEF KillFails
<1>2. CASE m \notin listening
  <2>1. listening' = listening /\ index' = index
    BY <1>2 DEF KillFails
  <2>2. TypeOK'
    BY <1>1, <2>1 DEF IInv, TypeOK, device
  <2>3. OneMonkeyListens' /\ NoIdleQueue' /\ CurrentUnderWay' /\ QueueInOrder'
    BY <1>1, <2>1 DEF IInv, OneMonkeyListens, NoIdleQueue, CurrentUnderWay, QueueInOrder, device
  <2>4. DoneMeansAllRan' /\ UnmadeUnrun'
    BY <1>1, <2>1 DEF IInv, DoneMeansAllRan, UnmadeUnrun
  <2> QED
    BY <2>2, <2>3, <2>4 DEF IInv
<1>3. CASE m \in listening
  <2>1. j \in Jobs /\ j = current /\ status[j] = "running" /\ listening' = {}
    BY <1>3, HeardMonkey DEF KillFails
  <2>2. /\ index' \in [Jobs -> Nat]
        /\ \A i \in Jobs \ {j} : index'[i] = index[i]
    BY <1>3, <2>1 DEF IInv, TypeOK, KillFails
  <2> HIDE DEF j
  <2>3. TypeOK'
    BY <1>1, <2>1, <2>2 DEF IInv, TypeOK, device
  <2>4. OneMonkeyListens' /\ NoIdleQueue' /\ CurrentUnderWay'
    BY <1>1, <2>1 DEF IInv, OneMonkeyListens, NoIdleQueue, CurrentUnderWay, device
  <2>5. QueueInOrder'
    <3>1. \A i \in 1 .. Len(pool) : pool[i] = Hole \/ pool[i] \in Jobs
      BY DEF IInv, TypeOK
    <3> QED
      BY <1>1, <2>1, <2>2, <3>1 DEF IInv, QueueInOrder, device
  <2>6. DoneMeansAllRan' /\ UnmadeUnrun'
    BY <1>1, <2>1, <2>2 DEF IInv, DoneMeansAllRan, UnmadeUnrun
  <2> QED
    BY <2>3, <2>4, <2>5, <2>6 DEF IInv
<1> QED
  BY <1>2, <1>3

LEMMA DeleteJobKeeps ==
  ASSUME IInv, NEW n \in 0 .. Len(pool), DeleteJob(n), request' \in [Requests -> {"new", "waiting", "answered", "lost"}]
  PROVE  IInv'
<1>1. pool \in Seq(Jobs \cup {Hole}) /\ Len(pool) \in Nat
  BY DEF IInv, TypeOK
<1>2. /\ UNCHANGED <<up, current, running, status, index, listening, process, kills, taken>>
      /\ pool' = (IF n < Len(pool) THEN [pool EXCEPT ![n + 1] = Hole] ELSE pool)
  BY DEF DeleteJob, tests
<1>3. /\ pool' \in Seq(Jobs \cup {Hole}) /\ Len(pool') = Len(pool)
      /\ \A i \in 1 .. Len(pool) : pool'[i] = pool[i] \/ pool'[i] = Hole
  BY <1>1, <1>2
<1>4. TypeOK'
  BY <1>2, <1>3 DEF IInv, TypeOK
<1>5. NoIdleQueue'
  <2>1. pool' # <<>> => pool # <<>>
    BY <1>1, <1>3
  <2> QED
    BY <1>2, <2>1 DEF IInv, NoIdleQueue
<1>6. QueueInOrder'
  BY <1>2, <1>3 DEF IInv, QueueInOrder
<1>7. OneMonkeyListens' /\ CurrentUnderWay' /\ DoneMeansAllRan' /\ UnmadeUnrun'
  BY <1>2 DEF IInv, OneMonkeyListens, CurrentUnderWay, DoneMeansAllRan, UnmadeUnrun
<1> QED
  BY <1>4, <1>5, <1>6, <1>7 DEF IInv

LEMMA RequestStopKeeps ==
  ASSUME IInv, NEW r \in Requests, NEW n \in 0 .. Len(pool), RequestStop(r, n)
  PROVE  IInv'
<1>1. up = TRUE /\ (up' => request' = [request EXCEPT ![r] = "waiting"])
  BY DEF RequestStop, IInv, TypeOK
<1>2. [request EXCEPT ![r] = "waiting"] \in [Requests -> {"new", "waiting", "answered", "lost"}]
  BY DEF IInv, TypeOK
<1>3. CASE Die
  BY <1>3, DieKeeps
<1>4. CASE kills' = kills \cup listening /\ UNCHANGED <<up, device, tests, taken>>
  <2>1. TypeOK'
    BY <1>1, <1>2, <1>4 DEF IInv, TypeOK, device, tests
  <2>2. OneMonkeyListens' /\ NoIdleQueue' /\ CurrentUnderWay' /\ QueueInOrder'
    BY <1>4 DEF IInv, OneMonkeyListens, NoIdleQueue, CurrentUnderWay, QueueInOrder, device, tests
  <2>3. DoneMeansAllRan' /\ UnmadeUnrun'
    BY <1>4 DEF IInv, DoneMeansAllRan, UnmadeUnrun, tests
  <2> QED
    BY <2>1, <2>2, <2>3 DEF IInv
<1>5. CASE DeleteJob(n)
  <2>1. request' \in [Requests -> {"new", "waiting", "answered", "lost"}]
    BY <1>1, <1>2, <1>5 DEF DeleteJob
  <2> QED
    BY <1>5, <2>1, DeleteJobKeeps
<1> QED
  BY <1>3, <1>4, <1>5 DEF RequestStop, StopCurrent

LEMMA HalfBound ==
  ASSUME NEW n \in Nat
  PROVE  /\ Half(n) \in Nat /\ Half(n) <= n
         /\ n >= 2 => Half(n) < n
         /\ n > 0 => Half(n) > 0
BY DEF Half

\* What is left of a queue that is turned round was in it, each job once, and
\* its head is behind the others, unless it was alone.
LEMMA TurnedPool ==
  ASSUME TypeOK
  PROVE  /\ Turned(pool) \in Seq(Jobs \cup {Hole})
         /\ Turned(pool) # <<>> => pool # <<>>
         /\ Len(Turned(pool)) = Half(Len(pool))
         /\ \A i \in 1 .. Len(Turned(pool)) :
               /\ Turned(pool)[i] = pool[Len(pool) + 1 - i]
               /\ Len(pool) + 1 - i \in 1 .. Len(pool)
               /\ Len(pool) + 1 - i = 1 => i = 1
<1>1. pool \in Seq(Jobs \cup {Hole}) /\ Len(pool) \in Nat
  BY DEF TypeOK
<1> DEFINE L == Len(pool)
           h == Half(L)
<1>2. h \in Nat /\ h <= L /\ (L >= 2 => h < L) /\ (L > 0 => h > 0)
  BY <1>1, HalfBound
<1> HIDE DEF h
<1>3. \A i \in 1 .. h : L + 1 - i \in 1 .. L /\ (L + 1 - i = 1 => i = 1)
  BY <1>1, <1>2
<1>4. \A i \in 1 .. h : pool[L + 1 - i] \in Jobs \cup {Hole}
  BY <1>1, <1>3
<1>5. Turned(pool) = [i \in 1 .. h |-> pool[L + 1 - i]]
  BY DEF Turned, h
<1>6. Turned(pool) \in Seq(Jobs \cup {Hole}) /\ Len(Turned(pool)) = h
  BY <1>2, <1>4, <1>5
<1>7. \A i \in 1 .. h : Turned(pool)[i] = pool[L + 1 - i]
  BY <1>5
<1>8. Turned(pool) # <<>> => pool # <<>>
  BY <1>1, <1>2, <1>6
<1> QED
  BY <1>3, <1>6, <1>7, <1>8 DEF h

LEMMA RequestStopAllKeeps ==
  ASSUME IInv, RequestStopAll
  PROVE  IInv'
<1>1. CASE Die
  BY <1>1, DieKeeps
<1>2. CASE /\ pool' = Turned(pool)
           /\ kills' \in SUBSET (kills \cup listening)
           /\ UNCHANGED <<up, current, running, tests, taken, request>>
  <2> DEFINE q == Turned(pool)
             at(i) == Len(pool) + 1 - i
  <2>1. /\ q \in Seq(Jobs \cup {Hole}) /\ Len(q) \in Nat
        /\ q # <<>> => pool # <<>>
        /\ \A i \in 1 .. Len(q) : q[i] = pool[at(i)] /\ at(i) \in 1 .. Len(pool) /\ (at(i) = 1 => i = 1)
    <3>1. TypeOK
      BY DEF IInv
    <3>2. Half(Len(pool)) \in Nat
      BY <3>1, HalfBound DEF TypeOK
    <3> QED
      BY <3>1, <3>2, TurnedPool
  <2> HIDE DEF q
  <2>2. \A i, k \in 1 .. Len(q) : at(i) = at(k) => i = k
    BY <2>1 DEF IInv, TypeOK
  <2> HIDE DEF at
  <2>3. UNCHANGED <<up, current, running, status, index, listening, process, taken, request>> /\ pool' = q
    BY <1>2 DEF tests, q
  <2>4. TypeOK'
    BY <1>2, <2>1, <2>3 DEF IInv, TypeOK
  <2>5. NoIdleQueue'
    BY <2>1, <2>3 DEF IInv, NoIdleQueue
  <2>6. QueueInOrder'
    <3>1. \A i, k \in 1 .. Len(q) : q[i] = q[k] /\ q[i] # Hole => i = k
      BY <2>1, <2>2 DEF IInv, QueueInOrder
    <3>2. \A i \in 1 .. Len(q) :
            \/ q[i] = Hole
            \/ q[i] # current /\ status[q[i]] = "pending" /\ index[q[i]] = 0
            \/ i = 1 /\ q[i] = current
      BY <2>1 DEF IInv, QueueInOrder
    <3> QED
      BY <2>3, <3>1, <3>2 DEF QueueInOrder
  <2>7. OneMonkeyListens' /\ CurrentUnderWay' /\ DoneMeansAllRan' /\ UnmadeUnrun'
    BY <2>3 DEF IInv, OneMonkeyListens, CurrentUnderWay, DoneMeansAllRan, UnmadeUnrun
  <2> QED
    BY <2>4, <2>5, <2>6, <2>7 DEF IInv
<1> QED
  BY <1>1, <1>2 DEF RequestStopAll

\* A restart, the clock and a request that waits change nothing of the tests.
LEMMA OtherKeeps ==
  ASSUME IInv, UNCHANGED <<pool, current, running, status, index, listening, process, kills>>,
         Restart \/ NextSecond \/ (\E r \in Requests : RequestProcess(r)) \/ UNCHANGED vars
  PROVE  IInv'
<1>1. /\ up' \in BOOLEAN /\ taken' \in SUBSET {ProfileOf[j] : j \in Jobs}
      /\ up' = up \/ up' = TRUE
  BY DEF IInv, TypeOK, Restart, NextSecond, RequestProcess, vars
<1>2. request' \in [Requests -> {"new", "waiting", "answered", "lost"}]
  <2>1. CASE UNCHANGED request
    BY <2>1 DEF IInv, TypeOK
  <2>2. ASSUME NEW r \in Requests, RequestProcess(r)
        PROVE  request' \in [Requests -> {"new", "waiting", "answered", "lost"}]
    BY <2>2 DEF IInv, TypeOK, RequestProcess
  <2> QED
    BY <2>1, <2>2 DEF Restart, NextSecond, vars
<1>3. TypeOK'
  BY <1>1, <1>2 DEF IInv, TypeOK
<1>4. OneMonkeyListens' /\ NoIdleQueue' /\ CurrentUnderWay' /\ QueueInOrder'
  BY <1>1 DEF IInv, OneMonkeyListens, NoIdleQueue, CurrentUnderWay, QueueInOrder
<1>5. DoneMeansAllRan' /\ UnmadeUnrun'
  BY DEF IInv, DoneMeansAllRan, UnmadeUnrun
<1> QED
  BY <1>3, <1>4, <1>5 DEF IInv

LEMMA StepKeeps == IInv /\ [Next]_vars => IInv'
<1> SUFFICES ASSUME IInv, [Next]_vars PROVE IInv'
  OBVIOUS
<1>1. CASE Crash
  BY <1>1, DieKeeps DEF Crash
<1>2. CASE Restart \/ NextSecond
  BY <1>2, OtherKeeps DEF Restart, NextSecond, device, tests
<1>3. ASSUME NEW j \in Jobs, AddJob(j) PROVE IInv'
  BY <1>3, AddJobKeeps
<1>4. ASSUME NEW m \in Monkeys, MonkeyExit(m) \/ Killed(m) \/ KillFails(m) PROVE IInv'
  BY <1>4, MonkeyExitKeeps, KilledKeeps, KillFailsKeeps
<1>5. CASE RequestStopAll
  BY <1>5, RequestStopAllKeeps
<1>6. ASSUME NEW r \in Requests, RequestProcess(r) PROVE IInv'
  <2>1. UNCHANGED <<pool, current, running, status, index, listening, process, kills>>
    BY <1>6 DEF RequestProcess, device, tests
  <2> QED
    BY <1>6, <2>1, OtherKeeps
<1>7. ASSUME NEW r \in Requests, NEW n \in 0 .. Len(pool), RequestStop(r, n) PROVE IInv'
  BY <1>7, RequestStopKeeps
<1>8. CASE UNCHANGED vars
  BY <1>8, OtherKeeps DEF vars
<1> QED
  BY <1>1, <1>2, <1>3, <1>4, <1>5, <1>6, <1>7, <1>8 DEF Next
-----------------------------------------------------------------------------
(* The invariants *)

\* In every behaviour the queue is in order and what is heard and what has run
\* fit the jobs' states.
THEOREM EngineInvariant == Spec => []IInv
BY InitKeeps, StepKeeps, PTL DEF Spec

\* The variables keep their shapes.
THEOREM EngineTypes == Spec => []TypeOK
<1>1. IInv => TypeOK
  BY DEF IInv
<1> QED
  BY <1>1, EngineInvariant, PTL

\* No queue waits for a device that does not run (device.node.js, addJob and
\* doneJob).
THEOREM QueueIsServed == Spec => []NoIdleQueue
<1>1. IInv => NoIdleQueue
  BY DEF IInv
<1> QED
  BY <1>1, EngineInvariant, PTL

\* Only the running job's next monkey is heard, while its process is there
\* (job.node.js, the listeners of nextMonkey).
THEOREM OnlyTheNextIsHeard == Spec => []OneMonkeyListens
<1>1. IInv => OneMonkeyListens
  BY DEF IInv
<1> QED
  BY <1>1, EngineInvariant, PTL

\* A job that is done has run all its monkeys (job.node.js, isBalanceMonkey).
THEOREM DoneJobsRanAll == Spec => []DoneMeansAllRan
<1>1. IInv => DoneMeansAllRan
  BY DEF IInv
<1> QED
  BY <1>1, EngineInvariant, PTL
-----------------------------------------------------------------------------
(* What a step does to the state of a job *)

\* Without an end: it stays, begins, or goes with the server.
Goes(a, b) ==
    \/ b = a
    \/ a \in {"pending", "running"} /\ b = "gone"
    \/ a = "none" /\ b \in {"pending", "running"}
    \/ a = "pending" /\ b = "running"

LEMMA DieGoes ==
  ASSUME IInv, Die
  PROVE  \A j \in Jobs : Goes(status[j], status'[j])
BY DEF IInv, TypeOK, Die, Goes

LEMMA AddJobGoes ==
  ASSUME IInv, NEW k \in Jobs, AddJob(k)
  PROVE  \A j \in Jobs : Goes(status[j], status'[j])
<1> DEFINE p == Append(pool, k)
           st == [status EXCEPT ![k] = "pending"]
<1>1. /\ st \in [Jobs -> {"none", "pending", "running", "done", "aborting", "gone"}]
      /\ status[k] = "none" /\ st[k] = "pending" /\ \A j \in Jobs \ {k} : st[j] = status[j]
  BY DEF AddJob, IInv, TypeOK
<1> HIDE DEF st
<1>2. CASE status' = st
  BY <1>1, <1>2 DEF Goes
<1>3. CASE Die
  BY <1>3, DieGoes
<1>4. CASE ~running /\ StartJob(p, st, process)
  <2>1. p[1] = k
    BY <1>4 DEF IInv, TypeOK, NoIdleQueue
  <2>2. status' = st \/ status' = [st EXCEPT ![k] = "running"]
    BY <1>4, <2>1 DEF StartJob
  <2> QED
    BY <1>1, <2>2 DEF Goes
<1> QED
  BY <1>2, <1>3, <1>4 DEF AddJob, st

\* Only the job that is ended ends.
LEMMA EndJobGoes ==
  ASSUME IInv, NEW m \in listening, NEW as \in {"done", "aborting"}, NEW alive,
         EndJob(m[1], as, alive)
  PROVE  /\ \A j \in Jobs \ {m[1]} : Goes(status[j], status'[j])
         /\ Goes(status[m[1]], status'[m[1]]) \/ status'[m[1]] = as
<1> DEFINE k == m[1]
           rest == SubSeq(pool, 2, Len(pool))
           st == [status EXCEPT ![k] = as]
<1>1. k \in Jobs /\ status[k] = "running" /\ k = current
  BY HeardMonkey
<1>2. /\ st \in [Jobs -> {"none", "pending", "running", "done", "aborting", "gone"}]
      /\ st[k] = as /\ \A j \in Jobs \ {k} : st[j] = status[j]
  BY <1>1 DEF IInv, TypeOK
<1>3. CASE Die
  BY <1>1, <1>3, DieGoes
<1>4. CASE status' = st
  BY <1>1, <1>2, <1>4 DEF Goes
<1>5. CASE StartJob(rest, st, alive) /\ Len(rest) > 0 /\ ~StartThrows(rest)
  <2>1. TypeOK /\ QueueInOrder
    BY DEF IInv
  <2>2. /\ rest \in Seq(Jobs \cup {Hole})
        /\ \A i \in 1 .. Len(rest) : rest[i] = Hole \/ (rest[i] # current /\ status[rest[i]] = "pending")
    BY <2>1, RestOfQueue
  <2> HIDE DEF rest
  <2>3. rest[1] \in Jobs /\ rest[1] # k /\ status[rest[1]] = "pending"
    <3>1. 1 \in 1 .. Len(rest) /\ rest[1] # Hole /\ rest[1] \in Jobs \cup {Hole}
      BY <1>5, <2>2 DEF StartThrows
    <3> QED
      BY <1>1, <2>2, <3>1
  <2>4. status' = st \/ status' = [st EXCEPT ![rest[1]] = "running"]
    BY <1>5 DEF StartJob
  <2> HIDE DEF st, k
  <2>5. status'[k] = as /\ \A j \in Jobs \ {k} : Goes(status[j], status'[j])
    BY <1>1, <1>2, <2>3, <2>4 DEF Goes
  <2> QED
    BY <2>5 DEF k
<1> QED
  BY <1>3, <1>4, <1>5 DEF EndJob, GoOn, IsHaveJobs

LEMMA StepGoes ==
  ASSUME IInv, [Next]_vars, NEW j \in Jobs
  PROVE  \/ Goes(status[j], status'[j])
         \/ status[j] = "running" /\ status'[j] = "done"
         \/ /\ status[j] = "running" /\ status'[j] = "aborting"
            /\ \E m \in kills : m[1] = j /\ Killed(m)
<1>1. CASE UNCHANGED status
  BY <1>1 DEF Goes
<1>2. CASE Die
  BY <1>2, DieGoes
<1>3. ASSUME NEW k \in Jobs, AddJob(k) PROVE Goes(status[j], status'[j])
  BY <1>3, AddJobGoes
<1>4. ASSUME NEW m \in listening, EndJob(m[1], "done", process \ {m})
      PROVE  Goes(status[j], status'[j]) \/ (status[j] = "running" /\ status'[j] = "done")
  BY <1>4, EndJobGoes, HeardMonkey
<1>5. ASSUME NEW m \in kills, m \in listening, Killed(m), EndJob(m[1], "aborting", process)
      PROVE  \/ Goes(status[j], status'[j])
             \/ /\ status[j] = "running" /\ status'[j] = "aborting"
                /\ \E n \in kills : n[1] = j /\ Killed(n)
  BY <1>5, EndJobGoes, HeardMonkey
<1>6. ASSUME NEW m \in Monkeys, MonkeyExit(m)
      PROVE  \/ UNCHANGED status \/ Die
             \/ m \in listening /\ EndJob(m[1], "done", process \ {m})
  BY <1>6 DEF MonkeyExit, NextMonkey
<1>7. ASSUME NEW m \in Monkeys, Killed(m)
      PROVE  UNCHANGED status \/ (m \in kills /\ m \in listening /\ EndJob(m[1], "aborting", process))
  BY <1>7 DEF Killed, Target, tests
<1>8. ASSUME NEW m \in Monkeys, KillFails(m) PROVE UNCHANGED status
  BY <1>8 DEF KillFails
<1>9. RequestStopAll => UNCHANGED status \/ Die
  BY DEF RequestStopAll, tests
<1>10. \A r \in Requests : \A n : RequestStop(r, n) => UNCHANGED status \/ Die
  BY DEF RequestStop, StopCurrent, DeleteJob, tests
<1>11. \A r \in Requests : RequestProcess(r) => UNCHANGED status
  BY DEF RequestProcess, tests
<1>12. Restart \/ NextSecond \/ UNCHANGED vars => UNCHANGED status
  BY DEF Restart, NextSecond, vars, tests
<1>13. Crash => Die
  BY DEF Crash
<1>14. CASE \E m \in Monkeys : MonkeyExit(m)
  BY <1>1, <1>2, <1>4, <1>6, <1>14
<1>15. CASE \E m \in Monkeys : Killed(m)
  BY <1>1, <1>5, <1>7, <1>15
<1> QED
  BY <1>1, <1>2, <1>3, <1>8, <1>9, <1>10, <1>11, <1>12, <1>13, <1>14, <1>15 DEF Next

\* Late exits and late answers of adb do not change a job that has ended
\* (job.node.js 124 to 128, device.node.js, doneJob).
THEOREM EndsStay == Spec => EndedStaysEnded
<1>1. IInv /\ [Next]_vars => [\A j \in Jobs : Ended(j) => status'[j] = status[j]]_vars
  <2> SUFFICES ASSUME IInv, [Next]_vars, NEW j \in Jobs, Ended(j) PROVE status'[j] = status[j]
    OBVIOUS
  <2>1. Goes(status[j], status'[j]) \/ status[j] = "running"
    BY StepGoes
  <2> QED
    BY <2>1 DEF Ended, Goes
<1> QED
  BY <1>1, EngineInvariant, PTL DEF Spec, EndedStaysEnded

\* A job is aborted only by the answer to a kill of its own monkey
\* (monkey.node.js, killOut; job.node.js, abort).
THEOREM StopsHitTheirJobs == Spec => StopHitsItsJob
<1>1. IInv /\ [Next]_vars =>
        [\A j \in Jobs : status'[j] = "aborting" /\ status[j] # "aborting" =>
            \E m \in kills : m[1] = j /\ Killed(m)]_vars
  <2> SUFFICES ASSUME IInv, [Next]_vars, NEW j \in Jobs, status'[j] = "aborting", status[j] # "aborting"
               PROVE  \E m \in kills : m[1] = j /\ Killed(m)
    OBVIOUS
  <2>1. ~Goes(status[j], status'[j])
    BY DEF Goes
  <2> QED
    BY <2>1, StepGoes
<1> QED
  BY <1>1, EngineInvariant, PTL DEF Spec, StopHitsItsJob
-----------------------------------------------------------------------------
(* A job whose interval is right always has a monkey to wait for *)

LEMMA BalancedCount ==
  ASSUME NEW j \in Jobs, Balanced(j)
  PROVE  \E q \in Nat : /\ MonkeyCount(j) = q + 1
                        /\ Seeds[j].end = Seeds[j].start + q * Seeds[j].interval
<1> DEFINE s == Seeds[j]
           d == s.end - s.start
           q == d \div s.interval
<1>1. s.start \in Nat /\ s.end \in Nat /\ s.interval \in Nat \ {0}
  BY SeedAssumption
<1>2. s.start <= s.end /\ d % s.interval = 0 /\ d \in Nat
  BY <1>1 DEF Balanced
<1>3. MonkeyCount(j) = q + 1
  BY <1>1, <1>2 DEF MonkeyCount
<1> HIDE DEF s
<1>4. ASSUME NEW n \in Nat, NEW i \in Nat \ {0}, n % i = 0
      PROVE  n \div i \in Nat /\ n = (n \div i) * i
  BY <1>4
<1> HIDE DEF d
<1>5. q \in Nat /\ d = q * s.interval
  BY <1>1, <1>2, <1>4
<1>6. s.end = s.start + q * s.interval
  BY <1>1, <1>5 DEF d
<1> QED
  BY <1>3, <1>5, <1>6 DEF s

LEMMA BalancedStart ==
  ASSUME NEW j \in Jobs, Balanced(j)
  PROVE  MonkeyAt(j, 1) # {}
<1>1. 1 \in 1 .. MonkeyCount(j)
  BY BalancedCount
<1>2. MonkeyAt(j, 1) = {<<j, 1>>}
  BY <1>1, MonkeyNumbers
<1> QED
  BY <1>2

LEMMA BalancedGoesOn ==
  ASSUME NEW m \in Monkeys, Balanced(m[1]), IsBalanceMonkey(m)
  PROVE  MonkeyAt(m[1], m[2] + 1) # {}
<1> DEFINE s == Seeds[m[1]]
<1>1. m[1] \in Jobs /\ m[2] \in 1 .. MonkeyCount(m[1]) /\ MonkeyCount(m[1]) \in Nat
  BY MonkeyNumbers, MonkeyCountType
<1>2. PICK q \in Nat : MonkeyCount(m[1]) = q + 1 /\ s.end = s.start + q * s.interval
  BY <1>1, BalancedCount
<1>3. m[2] # q + 1
  <2> SUFFICES ASSUME m[2] = q + 1 PROVE FALSE
    OBVIOUS
  <2>1. m[2] - 1 = q
    OBVIOUS
  <2> QED
    BY <1>2, <2>1 DEF IsBalanceMonkey, SeedOf
<1>4. m[2] + 1 \in 1 .. MonkeyCount(m[1])
  BY <1>1, <1>2, <1>3
<1>5. MonkeyAt(m[1], m[2] + 1) = {<<m[1], m[2] + 1>>}
  BY <1>1, <1>4, MonkeyNumbers
<1> QED
  BY <1>5

LEMMA StartUnstuck ==
  ASSUME NEW p, NEW st, NEW alive, StartJob(p, st, alive), Balanced(current'), current' \in Jobs
  PROVE  ~Stuck'
<1>1. listening' = MonkeyAt(current', 1)
  BY DEF StartJob, Listeners
<1> QED
  BY <1>1, BalancedStart DEF Stuck

\* Nothing but a failed kill lets the running job wait for an event that cannot
\* come, if its interval leads to its end seed (monkey.node.js, killOut's error
\* path; job.node.js 118 to 131).
THEOREM NothingElseSticks == Spec => OnlyFailedKillsStick
<1>1. IInv /\ [Next]_vars =>
        [~Stuck /\ Stuck' /\ Balanced(current') => \E m \in kills : KillFails(m)]_vars
  <2> SUFFICES ASSUME IInv, IInv', Next, ~Stuck, Stuck', Balanced(current'),
                      \A m \in kills : ~KillFails(m)
               PROVE  FALSE
    BY StepKeeps
  <2>1. current' \in Jobs /\ running'
    BY DEF IInv, NoIdleQueue, CurrentUnderWay, Stuck
  <2>2. ~UNCHANGED <<running, listening>>
    BY DEF Stuck
  <2>3. ~Die
    BY <2>1 DEF Die
  <2>4. ASSUME NEW p, NEW st, NEW alive PROVE ~StartJob(p, st, alive)
    BY <2>1, StartUnstuck
  <2>5. ASSUME NEW m, NEW as, NEW alive PROVE ~EndJob(m, as, alive)
    BY <2>1, <2>3, <2>4 DEF EndJob, GoOn
  <2>6. ASSUME NEW j \in Jobs PROVE ~AddJob(j)
    <3>1. AddJob(j) => (UNCHANGED <<running, listening>> \/ Die \/ \E p, st : StartJob(p, st, process))
      BY DEF AddJob
    <3> QED
      BY <2>2, <2>3, <2>4, <3>1
  <2>7. ASSUME NEW m \in Monkeys, MonkeyExit(m) PROVE FALSE
    <3>1. m \in listening /\ IsBalanceMonkey(m) /\ NextMonkey(m)
      BY <2>2, <2>5, <2>7 DEF MonkeyExit, device
    <3>2. /\ listening' = MonkeyAt(m[1], index[m[1]] + 2) /\ current' = current
      BY <2>3, <3>1 DEF NextMonkey, Listeners, device
    <3>3. m[1] = current /\ m[2] = index[m[1]] + 1 /\ index[m[1]] \in Nat
      BY <3>1, HeardMonkey DEF IInv, TypeOK
    <3>4. m[2] + 1 = index[m[1]] + 2
      BY <3>3
    <3>5. MonkeyAt(m[1], m[2] + 1) # {}
      BY <3>1, <3>2, <3>3, BalancedGoesOn
    <3> QED
      BY <3>2, <3>4, <3>5 DEF Stuck
  <2>8. ASSUME NEW m \in Monkeys PROVE ~Killed(m)
    BY <2>2, <2>5 DEF Killed, device, tests
  <2>9. ASSUME NEW m \in Monkeys PROVE ~KillFails(m)
    BY DEF KillFails
  <2>10. ~RequestStopAll
    BY <2>2, <2>3 DEF RequestStopAll, tests
  <2>11. ASSUME NEW r, NEW n PROVE ~RequestStop(r, n)
    BY <2>2, <2>3 DEF RequestStop, StopCurrent, DeleteJob, device, tests
  <2>12. ASSUME NEW r PROVE ~RequestProcess(r)
    BY <2>2 DEF RequestProcess, device, tests
  <2>13. ~Restart /\ ~NextSecond /\ ~Crash
    BY <2>2, <2>3 DEF Restart, NextSecond, Crash, device, tests
  <2> QED
    BY <2>6, <2>7, <2>8, <2>9, <2>10, <2>11, <2>12, <2>13 DEF Next
<1> QED
  BY <1>1, EngineInvariant, PTL DEF Spec, OnlyFailedKillsStick
-----------------------------------------------------------------------------
(* The queue: what an array of jobs and holes stands for *)


Arrays == Seq(Jobs \cup {Hole})

\* No job is twice in p.
Distinct(p) == \A i, k \in 1 .. Len(p) : p[i] = p[k] /\ p[i] # Hole => i = k

LEMMA SamePairs ==
  ASSUME NEW R \in SUBSET (Jobs \X Jobs), NEW S \in SUBSET (Jobs \X Jobs),
         \A j, k \in Jobs : <<j, k>> \in R <=> <<j, k>> \in S
  PROVE  R = S
OBVIOUS

LEMMA QueueTypes ==
  ASSUME NEW p
  PROVE  /\ WaitingIn(p) \in SUBSET Jobs /\ BeforeIn(p) \in SUBSET (Jobs \X Jobs)
         /\ \A j \in Jobs : j \in WaitingIn(p) <=> \E i \in 2 .. Len(p) : p[i] = j
         /\ \A j, k \in Jobs : <<j, k>> \in BeforeIn(p) <=> IsAhead(p, j, k)
BY DEF WaitingIn, BeforeIn

\* A job at the end of an array waits behind all others that wait.
LEMMA AppendedQueue ==
  ASSUME NEW p \in Arrays, Len(p) > 0, NEW j \in Jobs
  PROVE  /\ WaitingIn(Append(p, j)) = WaitingIn(p) \cup {j}
         /\ BeforeIn(Append(p, j)) = BeforeIn(p) \cup (WaitingIn(p) \X {j})
<1> DEFINE q == Append(p, j)
<1>1. /\ Len(p) \in Nat /\ Len(q) = Len(p) + 1 /\ q[Len(p) + 1] = j
      /\ \A i \in 1 .. Len(p) : q[i] = p[i]
  BY DEF Arrays
<1> HIDE DEF q
<1>2. \A i \in 2 .. Len(q) : i \in 2 .. Len(p) \/ i = Len(p) + 1
  BY <1>1
<1>3. \A i \in 2 .. Len(p) : i \in 2 .. Len(q) /\ q[i] = p[i] /\ i < Len(p) + 1
  BY <1>1
<1>4. Len(p) + 1 \in 2 .. Len(q)
  BY <1>1
<1>5. WaitingIn(q) = WaitingIn(p) \cup {j}
  BY <1>1, <1>2, <1>3, <1>4 DEF WaitingIn
<1>6. ASSUME NEW a \in Jobs, NEW b \in Jobs
      PROVE  IsAhead(q, a, b) <=> IsAhead(p, a, b) \/ (a \in WaitingIn(p) /\ b = j)
  <2>1. IsAhead(p, a, b) => IsAhead(q, a, b)
    BY <1>3 DEF IsAhead
  <2>2. a \in WaitingIn(p) /\ b = j => IsAhead(q, a, b)
    BY <1>1, <1>3, <1>4 DEF IsAhead, WaitingIn
  <2>3. ASSUME NEW i \in 2 .. Len(q), NEW l \in 2 .. Len(q), i < l, q[i] = a, q[l] = b
        PROVE  IsAhead(p, a, b) \/ (a \in WaitingIn(p) /\ b = j)
    <3>1. i \in 2 .. Len(p) /\ p[i] = a
      BY <1>1, <1>2, <1>3, <2>3
    <3>2. CASE l \in 2 .. Len(p)
      BY <1>3, <2>3, <3>1, <3>2 DEF IsAhead
    <3>3. CASE l = Len(p) + 1
      BY <1>1, <2>3, <3>1, <3>3 DEF WaitingIn
    <3> QED
      BY <1>2, <3>2, <3>3
  <2> QED
    BY <2>1, <2>2, <2>3 DEF IsAhead
<1>7. WaitingIn(p) \X {j} \in SUBSET (Jobs \X Jobs)
  BY QueueTypes
<1>8. BeforeIn(q) = BeforeIn(p) \cup (WaitingIn(p) \X {j})
  <2> DEFINE S == BeforeIn(p) \cup (WaitingIn(p) \X {j})
  <2>1. BeforeIn(q) \in SUBSET (Jobs \X Jobs) /\ S \in SUBSET (Jobs \X Jobs)
    BY <1>7, QueueTypes
  <2>2. ASSUME NEW a \in Jobs, NEW b \in Jobs
        PROVE  <<a, b>> \in BeforeIn(q) <=> <<a, b>> \in S
    <3>1. <<a, b>> \in S <=> <<a, b>> \in BeforeIn(p) \/ (a \in WaitingIn(p) /\ b = j)
      OBVIOUS
    <3>2. <<a, b>> \in BeforeIn(q) <=> IsAhead(q, a, b)
      BY QueueTypes
    <3>3. <<a, b>> \in BeforeIn(p) <=> IsAhead(p, a, b)
      BY QueueTypes
    <3> HIDE DEF S
    <3> QED
      BY <1>6, <3>1, <3>2, <3>3
  <2> HIDE DEF S
  <2>3. BeforeIn(q) = S
    BY <2>1, <2>2, SamePairs
  <2> QED
    BY <2>3 DEF S
<1> QED
  BY <1>5, <1>8 DEF q

\* The array without its head: the first that waited is the head.
LEMMA ShiftedQueue ==
  ASSUME NEW p \in Arrays, Len(p) > 1, Distinct(p), \A i \in 2 .. Len(p) : p[i] # Hole,
         NEW q, q = SubSeq(p, 2, Len(p))
  PROVE  /\ q[1] \in WaitingIn(p)
         /\ \A k \in WaitingIn(p) \ {q[1]} : <<q[1], k>> \in BeforeIn(p)
         /\ WaitingIn(q) = WaitingIn(p) \ {q[1]}
         /\ BeforeIn(q) = BeforeIn(p) \cap (WaitingIn(q) \X WaitingIn(q))
<1>1. Len(p) \in Nat /\ \A i \in 1 .. Len(p) : p[i] \in Jobs \cup {Hole}
  BY DEF Arrays
<1>2. Len(q) = Len(p) - 1 /\ \A i \in 1 .. Len(q) : q[i] = p[i + 1]
  BY <1>1 DEF Arrays
<1>3. q[1] = p[2] /\ p[2] \in Jobs /\ 2 \in 2 .. Len(p)
  BY <1>1, <1>2
<1>4. q[1] \in WaitingIn(p)
  BY <1>3 DEF WaitingIn
<1>5. \A i \in 2 .. Len(q) : i + 1 \in 2 .. Len(p) /\ i + 1 # 2 /\ q[i] = p[i + 1]
  BY <1>1, <1>2
<1>6. \A i \in 2 .. Len(p) : i # 2 => i - 1 \in 2 .. Len(q) /\ q[i - 1] = p[i]
  BY <1>1, <1>2
<1>7. \A i, k \in 2 .. Len(p) : p[i] = p[k] => i = k
  BY <1>1 DEF Distinct
<1>8. ASSUME NEW k \in WaitingIn(p) \ {q[1]} PROVE <<q[1], k>> \in BeforeIn(p)
  <2>1. k \in Jobs /\ q[1] \in Jobs
    BY <1>3, QueueTypes
  <2>2. PICK i \in 2 .. Len(p) : p[i] = k
    BY <1>8, <2>1, QueueTypes
  <2>3. 2 < i
    BY <1>1, <1>3, <1>8, <2>2
  <2>4. IsAhead(p, q[1], k)
    BY <1>3, <2>2, <2>3 DEF IsAhead
  <2> QED
    BY <2>1, <2>4, QueueTypes
<1>9. ASSUME NEW a \in Jobs PROVE a \in WaitingIn(q) <=> a \in WaitingIn(p) /\ a # q[1]
  <2>1. ASSUME NEW i \in 2 .. Len(q), q[i] = a PROVE a \in WaitingIn(p) /\ a # q[1]
    <3>1. i + 1 \in 2 .. Len(p) /\ i + 1 # 2 /\ p[i + 1] = a
      BY <1>5, <2>1
    <3> QED
      BY <1>3, <1>7, <3>1, QueueTypes
  <2>2. ASSUME NEW i \in 2 .. Len(p), p[i] = a, a # q[1] PROVE a \in WaitingIn(q)
    <3>1. i - 1 \in 2 .. Len(q) /\ q[i - 1] = a
      BY <1>3, <1>6, <2>2
    <3> QED
      BY <3>1, QueueTypes
  <2>3. a \in WaitingIn(q) => \E i \in 2 .. Len(q) : q[i] = a
    BY QueueTypes
  <2>4. a \in WaitingIn(p) => \E i \in 2 .. Len(p) : p[i] = a
    BY QueueTypes
  <2> QED
    BY <2>1, <2>2, <2>3, <2>4
<1>10. WaitingIn(q) = WaitingIn(p) \ {q[1]}
  BY <1>9, QueueTypes
<1>11. ASSUME NEW a \in Jobs, NEW b \in Jobs
       PROVE  IsAhead(q, a, b) <=> IsAhead(p, a, b) /\ a \in WaitingIn(q) /\ b \in WaitingIn(q)
  <2>1. ASSUME NEW i \in 2 .. Len(q), NEW l \in 2 .. Len(q), i < l, q[i] = a, q[l] = b
        PROVE  IsAhead(p, a, b) /\ a \in WaitingIn(q) /\ b \in WaitingIn(q)
    <3>1. i + 1 \in 2 .. Len(p) /\ l + 1 \in 2 .. Len(p) /\ i + 1 < l + 1
      BY <1>2, <1>5, <2>1
    <3>2. p[i + 1] = a /\ p[l + 1] = b
      BY <1>5, <2>1
    <3>3. IsAhead(p, a, b)
      BY <3>1, <3>2 DEF IsAhead
    <3>4. a \in WaitingIn(q) /\ b \in WaitingIn(q)
      BY <2>1, QueueTypes
    <3> QED
      BY <3>3, <3>4
  <2>2. ASSUME NEW i \in 2 .. Len(p), NEW l \in 2 .. Len(p), i < l, p[i] = a, p[l] = b,
               a # q[1], b # q[1]
        PROVE  IsAhead(q, a, b)
    <3>1. i - 1 \in 2 .. Len(q) /\ l - 1 \in 2 .. Len(q) /\ q[i - 1] = a /\ q[l - 1] = b
      BY <1>3, <1>6, <2>2
    <3>2. i - 1 < l - 1
      BY <1>1, <2>2
    <3> QED
      BY <3>1, <3>2 DEF IsAhead
  <2> QED
    BY <1>10, <2>1, <2>2 DEF IsAhead
<1>12. BeforeIn(q) = BeforeIn(p) \cap (WaitingIn(q) \X WaitingIn(q))
  <2> DEFINE S == BeforeIn(p) \cap (WaitingIn(q) \X WaitingIn(q))
  <2>1. BeforeIn(q) \in SUBSET (Jobs \X Jobs) /\ S \in SUBSET (Jobs \X Jobs)
    BY QueueTypes
  <2>2. ASSUME NEW a \in Jobs, NEW b \in Jobs
        PROVE  <<a, b>> \in BeforeIn(q) <=> <<a, b>> \in S
    <3>1. <<a, b>> \in S <=> <<a, b>> \in BeforeIn(p) /\ a \in WaitingIn(q) /\ b \in WaitingIn(q)
      OBVIOUS
    <3>2. <<a, b>> \in BeforeIn(q) <=> IsAhead(q, a, b)
      BY QueueTypes
    <3>3. <<a, b>> \in BeforeIn(p) <=> IsAhead(p, a, b)
      BY QueueTypes
    <3> HIDE DEF S
    <3> QED
      BY <1>11, <3>1, <3>2, <3>3
  <2> HIDE DEF S
  <2>3. BeforeIn(q) = S
    BY <2>1, <2>2, SamePairs
  <2> QED
    BY <2>3 DEF S
<1> QED
  BY <1>4, <1>8, <1>10, <1>12

\* A job deleted from the array no longer waits.
LEMMA HoledQueue ==
  ASSUME NEW p \in Arrays, Distinct(p), NEW n \in 2 .. Len(p), p[n] \in Jobs,
         NEW q, q = [p EXCEPT ![n] = Hole]
  PROVE  /\ p[n] \in WaitingIn(p)
         /\ WaitingIn(q) = WaitingIn(p) \ {p[n]}
         /\ BeforeIn(q) = BeforeIn(p) \cap (WaitingIn(q) \X WaitingIn(q))
<1>1. Len(p) \in Nat /\ Len(q) = Len(p)
  BY DEF Arrays
<1>2. \A i \in 2 .. Len(p) : q[i] = IF i = n THEN Hole ELSE p[i]
  BY <1>1 DEF Arrays
<1>3. p[n] # Hole /\ Hole \notin Jobs
  BY MarkerAssumption
<1>4. \A i \in 2 .. Len(p) : p[i] = p[n] => i = n
  BY <1>1, <1>3 DEF Distinct
<1>5. p[n] \in WaitingIn(p)
  BY QueueTypes
<1>6. ASSUME NEW a \in Jobs PROVE a \in WaitingIn(q) <=> a \in WaitingIn(p) /\ a # p[n]
  <2>1. ASSUME NEW i \in 2 .. Len(p), q[i] = a PROVE a \in WaitingIn(p) /\ a # p[n]
    BY <1>2, <1>3, <1>4, <2>1, QueueTypes
  <2>2. ASSUME NEW i \in 2 .. Len(p), p[i] = a, a # p[n] PROVE a \in WaitingIn(q)
    BY <1>1, <1>2, <2>2, QueueTypes
  <2> QED
    BY <1>1, <2>1, <2>2, QueueTypes
<1>7. WaitingIn(q) = WaitingIn(p) \ {p[n]}
  BY <1>6, QueueTypes
<1>8. ASSUME NEW a \in Jobs, NEW b \in Jobs
      PROVE  IsAhead(q, a, b) <=> IsAhead(p, a, b) /\ a \in WaitingIn(q) /\ b \in WaitingIn(q)
  <2>1. ASSUME NEW i \in 2 .. Len(q), NEW l \in 2 .. Len(q), i < l, q[i] = a, q[l] = b
        PROVE  IsAhead(p, a, b) /\ a \in WaitingIn(q) /\ b \in WaitingIn(q)
    <3>1. i \in 2 .. Len(p) /\ l \in 2 .. Len(p) /\ i # n /\ l # n
      BY <1>1, <1>2, <1>3, <2>1
    <3>2. p[i] = a /\ p[l] = b
      BY <1>2, <2>1, <3>1
    <3>3. IsAhead(p, a, b)
      BY <2>1, <3>1, <3>2 DEF IsAhead
    <3>4. a \in WaitingIn(q) /\ b \in WaitingIn(q)
      BY <2>1, QueueTypes
    <3> QED
      BY <3>3, <3>4
  <2>2. ASSUME NEW i \in 2 .. Len(p), NEW l \in 2 .. Len(p), i < l, p[i] = a, p[l] = b,
               a # p[n], b # p[n]
        PROVE  IsAhead(q, a, b)
    BY <1>1, <1>2, <2>2 DEF IsAhead
  <2> QED
    BY <1>7, <2>1, <2>2 DEF IsAhead
<1>9. BeforeIn(q) = BeforeIn(p) \cap (WaitingIn(q) \X WaitingIn(q))
  <2> DEFINE S == BeforeIn(p) \cap (WaitingIn(q) \X WaitingIn(q))
  <2>1. BeforeIn(q) \in SUBSET (Jobs \X Jobs) /\ S \in SUBSET (Jobs \X Jobs)
    BY QueueTypes
  <2>2. ASSUME NEW a \in Jobs, NEW b \in Jobs
        PROVE  <<a, b>> \in BeforeIn(q) <=> <<a, b>> \in S
    <3>1. <<a, b>> \in S <=> <<a, b>> \in BeforeIn(p) /\ a \in WaitingIn(q) /\ b \in WaitingIn(q)
      OBVIOUS
    <3>2. <<a, b>> \in BeforeIn(q) <=> IsAhead(q, a, b)
      BY QueueTypes
    <3>3. <<a, b>> \in BeforeIn(p) <=> IsAhead(p, a, b)
      BY QueueTypes
    <3> HIDE DEF S
    <3> QED
      BY <1>8, <3>1, <3>2, <3>3
  <2> HIDE DEF S
  <2>3. BeforeIn(q) = S
    BY <2>1, <2>2, SamePairs
  <2> QED
    BY <2>3 DEF S
<1> QED
  BY <1>5, <1>7, <1>9

\* A stop of all jobs: the order is reversed, and of the jobs behind one that is
\* left only the last of the array goes.
LEMMA TurnedQueue ==
  ASSUME NEW p \in Arrays, Distinct(p), NEW q, q = Turned(p)
  PROVE  /\ WaitingIn(q) \in SUBSET WaitingIn(p)
         /\ \A j \in WaitingIn(q) : \A k, l \in WaitingIn(p) \ WaitingIn(q) :
               <<j, k>> \in BeforeIn(p) /\ <<j, l>> \in BeforeIn(p) => k = l
         /\ BeforeIn(q) = {<<x[2], x[1]>> : x \in BeforeIn(p) \cap (WaitingIn(q) \X WaitingIn(q))}
<1> DEFINE L == Len(p)
           h == Half(L)
<1>1. L \in Nat /\ h \in Nat /\ h <= L /\ (L >= 2 => h < L)
  BY HalfBound DEF Arrays
<1> HIDE DEF h
<1>2. \A i \in 1 .. L : p[i] \in Jobs \cup {Hole}
  BY DEF Arrays
<1>3. Len(q) = h /\ \A i \in 1 .. h : q[i] = p[L + 1 - i]
  BY <1>1, <1>2 DEF Turned, h
<1> HIDE DEF L
<1>4. \A i \in 2 .. h : L + 1 - i \in 2 .. L /\ L + 1 - i < L /\ q[i] = p[L + 1 - i]
  BY <1>1, <1>3
<1>5. Hole \notin Jobs
  BY MarkerAssumption
<1>6. \A i, k \in 2 .. L : p[i] = p[k] /\ p[i] \in Jobs => i = k
  BY <1>1, <1>5 DEF Distinct, L
<1>7. \A j \in Jobs : j \in WaitingIn(q) <=> \E i \in 2 .. h : q[i] = j
  BY <1>3, QueueTypes
<1>8. \A j \in Jobs : j \in WaitingIn(p) <=> \E i \in 2 .. L : p[i] = j
  BY QueueTypes DEF L
<1>9. WaitingIn(q) \in SUBSET WaitingIn(p)
  <2> SUFFICES ASSUME NEW j \in WaitingIn(q) PROVE j \in WaitingIn(p)
    OBVIOUS
  <2>1. j \in Jobs
    BY QueueTypes
  <2>2. PICK i \in 2 .. h : q[i] = j
    BY <1>7, <2>1
  <2>3. L + 1 - i \in 2 .. L /\ p[L + 1 - i] = j
    BY <1>4, <2>2
  <2> QED
    BY <1>8, <2>1, <2>3
\* A job behind one that is left is left too, unless it is the last.
<1>10. ASSUME NEW j \in WaitingIn(q), NEW k \in Jobs \ WaitingIn(q), <<j, k>> \in BeforeIn(p)
       PROVE  k = p[L]
  <2>1. j \in Jobs
    BY QueueTypes
  <2>2. PICK y \in 2 .. L, x \in 2 .. L : y < x /\ p[y] = j /\ p[x] = k
    BY <1>10, <2>1, QueueTypes DEF IsAhead, L
  <2>3. PICK i \in 2 .. h : q[i] = j
    BY <1>7, <2>1
  <2>4. y = L + 1 - i
    <3>1. L + 1 - i \in 2 .. L /\ p[L + 1 - i] = j
      BY <1>4, <2>3
    <3> QED
      BY <1>6, <2>1, <2>2, <3>1
  <2>5. ASSUME x # L PROVE FALSE
    <3>1. L + 1 - x \in 2 .. h /\ L + 1 - (L + 1 - x) = x
      BY <1>1, <2>2, <2>4, <2>5
    <3>2. q[L + 1 - x] = k
      BY <1>4, <2>2, <3>1
    <3> QED
      BY <1>7, <1>10, <3>1, <3>2
  <2> QED
    BY <2>2, <2>5
<1>11. \A j \in WaitingIn(q) : \A k, l \in WaitingIn(p) \ WaitingIn(q) :
          <<j, k>> \in BeforeIn(p) /\ <<j, l>> \in BeforeIn(p) => k = l
  BY <1>10, QueueTypes
<1>12. ASSUME NEW a \in Jobs, NEW b \in Jobs
       PROVE  IsAhead(q, a, b) <=> IsAhead(p, b, a) /\ a \in WaitingIn(q) /\ b \in WaitingIn(q)
  <2>1. ASSUME NEW i \in 2 .. h, NEW l \in 2 .. h, i < l, q[i] = a, q[l] = b
        PROVE  IsAhead(p, b, a) /\ a \in WaitingIn(q) /\ b \in WaitingIn(q)
    <3>1. L + 1 - i \in 2 .. L /\ L + 1 - l \in 2 .. L /\ L + 1 - l < L + 1 - i
      BY <1>1, <1>4, <2>1
    <3>2. p[L + 1 - i] = a /\ p[L + 1 - l] = b
      BY <1>4, <2>1
    <3>3. IsAhead(p, b, a)
      BY <3>1, <3>2 DEF IsAhead, L
    <3> QED
      BY <1>7, <2>1, <3>3
  <2>2. ASSUME NEW x \in 2 .. L, NEW y \in 2 .. L, x < y, p[x] = b, p[y] = a,
               NEW i \in 2 .. h, q[i] = a, NEW l \in 2 .. h, q[l] = b
        PROVE  i < l
    <3>1. L + 1 - i = y
      BY <1>4, <1>6, <2>2
    <3>2. L + 1 - l = x
      BY <1>4, <1>6, <2>2
    <3> QED
      BY <1>1, <2>2, <3>1, <3>2
  <2>3. IsAhead(q, a, b) => IsAhead(p, b, a) /\ a \in WaitingIn(q) /\ b \in WaitingIn(q)
    BY <1>3, <2>1 DEF IsAhead
  <2>4. ASSUME IsAhead(p, b, a), a \in WaitingIn(q), b \in WaitingIn(q) PROVE IsAhead(q, a, b)
    <3>1. PICK x \in 2 .. L, y \in 2 .. L : x < y /\ p[x] = b /\ p[y] = a
      BY <2>4 DEF IsAhead, L
    <3>2. PICK i \in 2 .. h : q[i] = a
      BY <1>7, <2>4
    <3>3. PICK l \in 2 .. h : q[l] = b
      BY <1>7, <2>4
    <3>4. i < l
      BY <2>2, <3>1, <3>2, <3>3
    <3> QED
      BY <1>3, <3>2, <3>3, <3>4 DEF IsAhead
  <2> QED
    BY <2>3, <2>4
<1>13. BeforeIn(q) = {<<x[2], x[1]>> : x \in BeforeIn(p) \cap (WaitingIn(q) \X WaitingIn(q))}
  <2> DEFINE R == BeforeIn(p) \cap (WaitingIn(q) \X WaitingIn(q))
             S == {<<x[2], x[1]>> : x \in R}
  <2>1. R \in SUBSET (Jobs \X Jobs)
    BY QueueTypes
  <2>2. \A a, b \in Jobs : <<b, a>> \in R <=>
           IsAhead(p, b, a) /\ a \in WaitingIn(q) /\ b \in WaitingIn(q)
    BY QueueTypes
  <2> HIDE DEF R
  <2>3. S \in SUBSET (Jobs \X Jobs)
    BY <2>1
  <2>4. \A a, b \in Jobs : <<a, b>> \in S <=> <<b, a>> \in R
    <3>1. \A x \in R : \E a, b \in Jobs : x = <<b, a>>
      BY <2>1
    <3>2. \A a, b \in Jobs : <<a, b>> \in S => <<b, a>> \in R
      BY <3>1
    <3>3. ASSUME NEW a \in Jobs, NEW b \in Jobs, <<b, a>> \in R PROVE <<a, b>> \in S
      <4> DEFINE x == <<b, a>>
      <4>1. x \in R /\ <<a, b>> = <<x[2], x[1]>>
        BY <3>3
      <4> HIDE DEF x
      <4> QED
        BY <4>1
    <3> QED
      BY <3>2, <3>3
  <2> HIDE DEF S
  <2>5. \A a, b \in Jobs : <<a, b>> \in BeforeIn(q) <=> <<a, b>> \in S
    BY <1>12, <2>2, <2>4, QueueTypes
  <2>6. BeforeIn(q) = S
    BY <2>3, <2>5, QueueTypes, SamePairs
  <2> QED
    BY <2>6 DEF R, S
<1> QED
  BY <1>9, <1>11, <1>13
-----------------------------------------------------------------------------
(* The device implements JobQueue *)

\* The running job, or one that will be dropped in its place, is at the head.
HeadIsThere == running => pool # <<>>

\* What is known of the array, and of the state, whose jobs wait.
LEMMA PoolFacts ==
  ASSUME IInv
  PROVE  /\ pool \in Arrays /\ Len(pool) \in Nat /\ Distinct(pool)
         /\ \A i \in 1 .. Len(pool) : pool[i] \in Jobs \cup {Hole}
         /\ status \in [Jobs -> {"none", "pending", "running", "done", "aborting", "gone"}]
         /\ (running <=> current # Nil) /\ (pool # <<>> => running)
         /\ up \in BOOLEAN /\ running \in BOOLEAN
BY DEF IInv, TypeOK, NoIdleQueue, QueueInOrder, Arrays, Distinct

LEMMA ShortQueue ==
  ASSUME NEW p \in Arrays, Len(p) < 2
  PROVE  WaitingIn(p) = {} /\ BeforeIn(p) = {}
<1>1. \A i \in 2 .. Len(p) : FALSE
  BY DEF Arrays
<1> QED
  BY <1>1 DEF WaitingIn, BeforeIn, IsAhead

LEMMA DieCloses ==
  ASSUME IInv, Die, up
  PROVE  Queue!Close /\ HeadIsThere'
<1>1. WaitingIn(pool)' = {} /\ BeforeIn(pool)' = {}
  <2>1. pool' = <<>> /\ <<>> \in Arrays /\ Len(<<>>) < 2
    BY DEF Die, Arrays
  <2>2. WaitingIn(<<>>) = {} /\ BeforeIn(<<>>) = {}
    BY <2>1, ShortQueue
  <2> QED
    BY <2>1, <2>2
<1>2. \A j \in Jobs : Fate(j)' = IF Fate(j) = "alive" THEN "gone" ELSE Fate(j)
  BY PoolFacts DEF Die, Fate
<1>3. HeadIsThere'
  BY DEF Die, HeadIsThere
<1> QED
  BY <1>1, <1>2, <1>3 DEF Die, Queue!Close

LEMMA AddJobSubmits ==
  ASSUME IInv, HeadIsThere, NEW j \in Jobs, AddJob(j)
  PROVE  (Queue!Submit(j) \/ Queue!Close) /\ HeadIsThere'
<1> DEFINE p == Append(pool, j)
           st == [status EXCEPT ![j] = "pending"]
<1>1. up /\ status[j] = "none" /\ Fate(j) = "none"
  BY DEF AddJob, Fate
<1>2. /\ st \in [Jobs -> {"none", "pending", "running", "done", "aborting", "gone"}]
      /\ st[j] = "pending" /\ \A i \in Jobs \ {j} : st[i] = status[i]
  BY PoolFacts
<1>3. p \in Arrays /\ Len(p) = Len(pool) + 1 /\ p[Len(p)] = j /\ Len(pool) \in Nat
  BY PoolFacts DEF Arrays
<1>4. \/ Len(pool) = 0
      \/ /\ WaitingIn(p) = WaitingIn(pool) \cup {j}
         /\ BeforeIn(p) = BeforeIn(pool) \cup (WaitingIn(pool) \X {j})
  BY PoolFacts, AppendedQueue
<1> HIDE DEF p, st
<1>5. CASE running /\ pool' = p /\ status' = st /\ UNCHANGED <<up, current, running>>
  <2>1. pool # <<>> /\ current # Nil
    BY <1>5, PoolFacts DEF HeadIsThere
  <2>2. Len(pool) # 0
    BY <2>1, PoolFacts DEF Arrays
  <2>3. /\ WaitingIn(pool)' = WaitingIn(pool) \cup {j}
        /\ BeforeIn(pool)' = BeforeIn(pool) \cup (WaitingIn(pool) \X {j})
    BY <1>4, <1>5, <2>2
  <2>4. [i \in Jobs |-> Fate(i)]' = [[i \in Jobs |-> Fate(i)] EXCEPT ![j] = "alive"]
    BY <1>2, <1>5 DEF Fate
  <2>5. HeadIsThere'
    BY <1>3, <1>5 DEF HeadIsThere
  <2> QED
    BY <1>1, <1>5, <2>1, <2>3, <2>4, <2>5 DEF Queue!Submit
<1>6. CASE ~running /\ StartJob(p, st, process) /\ UNCHANGED up
  <2>1. pool = <<>> /\ current = Nil
    BY <1>6, PoolFacts
  <2>2. Len(p) = 1 /\ p[1] = j
    BY <1>3, <2>1
  <2>3. /\ pool' = p /\ current' = j
        /\ status' = st \/ status' = [st EXCEPT ![j] = "running"]
    BY <1>6, <2>2 DEF StartJob
  <2>4. /\ WaitingIn(pool) = {} /\ BeforeIn(pool) = {}
        /\ WaitingIn(pool)' = {} /\ BeforeIn(pool)' = {}
    <3>1. p \in Arrays /\ Len(p) < 2
      BY <1>3, <2>2
    <3>2. WaitingIn(p) = {} /\ BeforeIn(p) = {}
      BY <3>1, ShortQueue
    <3>3. pool \in Arrays /\ Len(pool) < 2
      BY <2>1, PoolFacts
    <3>4. WaitingIn(pool) = {} /\ BeforeIn(pool) = {}
      BY <3>3, ShortQueue
    <3> QED
      BY <2>3, <3>2, <3>4
  <2>5. [i \in Jobs |-> Fate(i)]' = [[i \in Jobs |-> Fate(i)] EXCEPT ![j] = "alive"]
    BY <1>2, <2>3 DEF Fate
  <2>6. HeadIsThere'
    BY <2>2, <2>3 DEF HeadIsThere
  <2> QED
    BY <1>1, <1>6, <2>1, <2>3, <2>4, <2>5, <2>6 DEF Queue!Submit
<1>7. CASE Die
  BY <1>1, <1>7, DieCloses
<1> QED
  BY <1>5, <1>6, <1>7 DEF AddJob, p, st

LEMMA EndJobEnds ==
  ASSUME IInv, NEW m \in listening, NEW as \in {"done", "aborting"}, NEW alive,
         EndJob(m[1], as, alive)
  PROVE  (Queue!End(as) \/ Queue!Close) /\ HeadIsThere'
<1> DEFINE j == m[1]
           rest == SubSeq(pool, 2, Len(pool))
           st == [status EXCEPT ![j] = as]
<1>1. j \in Jobs /\ j = current /\ status[j] = "running" /\ up = TRUE /\ running
  BY HeardMonkey
<1>2. /\ st \in [Jobs -> {"none", "pending", "running", "done", "aborting", "gone"}]
      /\ st[j] = as /\ \A i \in Jobs \ {j} : st[i] = status[i]
  BY <1>1, PoolFacts
<1>3. current # Nil /\ [i \in Jobs |-> Fate(i)][current] = "alive"
  BY <1>1, MarkerAssumption DEF Fate
<1>4. CASE Die
  BY <1>1, <1>4, DieCloses
<1>5. CASE rest = <<>> /\ GoOn(rest, st, alive) /\ UNCHANGED up
  <2>1. pool' = <<>> /\ current' = Nil /\ running' = FALSE /\ status' = st
    <3> HIDE DEF rest, st
    <3>1. ~IsHaveJobs(rest)
      BY <1>5 DEF IsHaveJobs
    <3> QED
      BY <1>5, <3>1 DEF GoOn
  <2>2. Len(pool) < 2
    <3>1. Len(pool) >= 2 => Len(rest) = Len(pool) - 1
      BY PoolFacts DEF Arrays
    <3>2. Len(rest) = 0
      <4> HIDE DEF rest
      <4> QED
        BY <1>5
    <3> QED
      BY <3>1, <3>2, PoolFacts
  <2>3. /\ WaitingIn(pool) = {} /\ BeforeIn(pool) = {}
        /\ WaitingIn(pool)' = {} /\ BeforeIn(pool)' = {}
    <3>1. <<>> \in Arrays /\ Len(<<>>) < 2
      BY DEF Arrays
    <3>2. WaitingIn(<<>>) = {} /\ BeforeIn(<<>>) = {}
      BY <3>1, ShortQueue
    <3>3. WaitingIn(pool) = {} /\ BeforeIn(pool) = {}
      BY <2>2, PoolFacts, ShortQueue
    <3> QED
      BY <2>1, <3>2, <3>3
  <2>4. [i \in Jobs |-> Fate(i)]' = [[i \in Jobs |-> Fate(i)] EXCEPT ![current] = as]
    BY <1>1, <1>2, <2>1 DEF Fate
  <2>5. Queue!End(as)
    BY <1>3, <1>5, <2>1, <2>3, <2>4 DEF Queue!End
  <2> QED
    BY <2>1, <2>5 DEF HeadIsThere
<1>6. CASE /\ rest # <<>> /\ StartJob(rest, st, alive) /\ UNCHANGED up
           /\ \A i \in 1 .. Len(rest) : rest[i] # Hole
  <2>1. /\ Len(pool) > 1 /\ Len(rest) = Len(pool) - 1 /\ rest \in Arrays
        /\ \A i \in 1 .. Len(rest) : rest[i] = pool[i + 1]
    <3>1. Len(pool) > 1
      BY <1>6, PoolFacts DEF Arrays
    <3> QED
      BY <3>1, PoolFacts DEF Arrays
  <2>2. \A i \in 2 .. Len(pool) : pool[i] # Hole
    <3> SUFFICES ASSUME NEW i \in 2 .. Len(pool) PROVE pool[i] # Hole
      OBVIOUS
    <3>1. i - 1 \in 1 .. Len(rest) /\ (i - 1) + 1 = i
      BY <2>1, PoolFacts
    <3> QED
      BY <1>6, <2>1, <3>1
  <2>3. /\ rest[1] \in WaitingIn(pool)
        /\ \A k \in WaitingIn(pool) \ {rest[1]} : <<rest[1], k>> \in BeforeIn(pool)
        /\ WaitingIn(rest) = WaitingIn(pool) \ {rest[1]}
        /\ BeforeIn(rest) = BeforeIn(pool) \cap (WaitingIn(rest) \X WaitingIn(rest))
    BY <2>1, <2>2, PoolFacts, ShiftedQueue
  <2>4. rest[1] \in Jobs /\ rest[1] # j /\ status[rest[1]] = "pending"
    <3>1. rest[1] \in Jobs /\ 1 \in 1 .. Len(rest) /\ rest[1] # Hole
      <4>1. 1 \in 1 .. Len(rest)
        BY <2>1, PoolFacts
      <4>2. WaitingIn(pool) \in SUBSET Jobs
        BY QueueTypes
      <4> HIDE DEF rest
      <4> QED
        BY <1>6, <2>3, <4>1, <4>2
    <3>2. \A i \in 1 .. Len(rest) : rest[i] = Hole \/ (rest[i] # current /\ status[rest[i]] = "pending")
      BY RestOfQueue DEF IInv
    <3> HIDE DEF rest
    <3> QED
      BY <1>1, <3>1, <3>2
  <2> HIDE DEF rest
  <2>5. /\ pool' = rest /\ current' = rest[1]
        /\ status' = st \/ status' = [st EXCEPT ![rest[1]] = "running"]
    BY <1>6 DEF StartJob
  <2>6. [i \in Jobs |-> Fate(i)]' = [[i \in Jobs |-> Fate(i)] EXCEPT ![current] = as]
    <3>1. \A i \in Jobs : Fate(i)' = IF i = j THEN as ELSE Fate(i)
      BY <1>2, <2>4, <2>5 DEF Fate
    <3> QED
      BY <1>1, <3>1
  <2>7. WaitingIn(pool)' = WaitingIn(rest) /\ BeforeIn(pool)' = BeforeIn(rest)
    BY <2>5
  <2>8. Queue!IsNext(rest[1])
    BY <2>3 DEF Queue!IsNext
  <2>9. Queue!End(as)
    BY <1>3, <1>6, <2>3, <2>5, <2>6, <2>7, <2>8 DEF Queue!End, Queue!Among
  <2>10. HeadIsThere'
    BY <1>6, <2>5 DEF HeadIsThere
  <2> QED
    BY <2>9, <2>10
<1>7. Die \/ (GoOn(rest, st, alive) /\ UNCHANGED up /\ \A i \in 1 .. Len(rest) : rest[i] # Hole)
  BY DEF EndJob
<1>8. rest # <<>> /\ GoOn(rest, st, alive) => StartJob(rest, st, alive)
  <2>1. rest \in Arrays
    BY RestOfQueue DEF Arrays, IInv
  <2> HIDE DEF rest
  <2>2. rest # <<>> => Len(rest) > 0
    BY <2>1 DEF Arrays
  <2> QED
    BY <2>2 DEF GoOn, IsHaveJobs
<1> HIDE DEF rest, st
<1> QED
  BY <1>4, <1>5, <1>6, <1>7, <1>8

LEMMA DeleteWithdraws ==
  ASSUME IInv, HeadIsThere, NEW n \in Nat, DeleteJob(n), n = 0 => current = Nil
  PROVE  ((\E j \in Jobs : Queue!Withdraw(j)) \/ UNCHANGED Queue!qvars) /\ HeadIsThere'
<1>1. UNCHANGED <<up, current, running, status>>
  BY DEF DeleteJob, tests
<1>2. [i \in Jobs |-> Fate(i)]' = [i \in Jobs |-> Fate(i)]
  BY <1>1 DEF Fate
<1>3. CASE n < Len(pool) /\ pool[n + 1] # Hole
  <2>1. n # 0
    BY <1>3, PoolFacts
  <2>2. n + 1 \in 2 .. Len(pool) /\ pool[n + 1] \in Jobs
    BY <1>3, <2>1, PoolFacts
  <2>3. pool' = [pool EXCEPT ![n + 1] = Hole] /\ Len(pool') = Len(pool)
    BY <1>3, PoolFacts DEF DeleteJob, Arrays
  <2>4. /\ pool[n + 1] \in WaitingIn(pool)
        /\ WaitingIn(pool)' = WaitingIn(pool) \ {pool[n + 1]}
        /\ BeforeIn(pool)' = BeforeIn(pool) \cap (WaitingIn(pool)' \X WaitingIn(pool)')
    <3> DEFINE q == [pool EXCEPT ![n + 1] = Hole]
    <3>1. pool \in Arrays /\ Distinct(pool)
      BY PoolFacts
    <3>2. /\ pool[n + 1] \in WaitingIn(pool)
          /\ WaitingIn(q) = WaitingIn(pool) \ {pool[n + 1]}
          /\ BeforeIn(q) = BeforeIn(pool) \cap (WaitingIn(q) \X WaitingIn(q))
      BY <2>2, <3>1, HoledQueue
    <3> HIDE DEF q
    <3> QED
      BY <2>3, <3>2 DEF q
  <2>5. Queue!Withdraw(pool[n + 1])
    BY <1>1, <1>2, <2>4 DEF Queue!Withdraw, Queue!Among
  <2>6. HeadIsThere'
    BY <1>1, <2>2, <2>3, PoolFacts DEF HeadIsThere, Arrays
  <2> QED
    BY <2>2, <2>5, <2>6
<1>4. CASE ~(n < Len(pool) /\ pool[n + 1] # Hole)
  <2>1. pool' = pool
    BY <1>4, PoolFacts DEF DeleteJob, Arrays
  <2> QED
    BY <1>1, <1>2, <2>1 DEF Queue!qvars, HeadIsThere
<1> QED
  BY <1>3, <1>4

LEMMA StopAllWithdrawsSome ==
  ASSUME IInv, HeadIsThere, RequestStopAll
  PROVE  ((\E W \in SUBSET WaitingIn(pool) : Queue!WithdrawSome(W)) \/ Queue!Close) /\ HeadIsThere'
<1>1. up
  BY DEF RequestStopAll
<1>2. CASE Die
  BY <1>1, <1>2, DieCloses
<1>3. CASE pool' = Turned(pool) /\ UNCHANGED <<up, current, running, status>>
  <2> DEFINE W == WaitingIn(Turned(pool))
  <2>1. /\ W \in SUBSET WaitingIn(pool)
        /\ \A j \in W : \A k, l \in WaitingIn(pool) \ W :
              <<j, k>> \in BeforeIn(pool) /\ <<j, l>> \in BeforeIn(pool) => k = l
        /\ BeforeIn(Turned(pool)) = {<<x[2], x[1]>> : x \in BeforeIn(pool) \cap (W \X W)}
    BY PoolFacts, TurnedQueue
  <2>2. [i \in Jobs |-> Fate(i)]' = [i \in Jobs |-> Fate(i)]
    BY <1>3 DEF Fate
  <2>3. WaitingIn(pool)' = W /\ BeforeIn(pool)' = BeforeIn(Turned(pool))
    BY <1>3
  <2> HIDE DEF W
  <2>4. Queue!WithdrawSome(W)
    BY <1>3, <2>1, <2>2, <2>3 DEF Queue!WithdrawSome, Queue!Among
  <2>5. HeadIsThere'
    <3>1. Len(Turned(pool)) = Half(Len(pool))
      BY TurnedPool DEF IInv
    <3>2. pool # <<>> => Len(pool) > 0
      BY PoolFacts DEF Arrays
    <3>3. Len(pool) > 0 => Half(Len(pool)) > 0
      BY PoolFacts, HalfBound
    <3> QED
      BY <1>3, <3>1, <3>2, <3>3 DEF HeadIsThere
  <2> QED
    BY <2>1, <2>4, <2>5
<1> QED
  BY <1>2, <1>3 DEF RequestStopAll, tests

\* What leaves the array, the running job and the jobs' states alone.
LEMMA QueueUntouched ==
  ASSUME HeadIsThere, UNCHANGED <<pool, current, running, status>>
  PROVE  HeadIsThere' /\ (UNCHANGED up => UNCHANGED Queue!qvars)
BY DEF HeadIsThere, Queue!qvars, Fate

LEMMA StepServes ==
  ASSUME IInv, HeadIsThere, [Next]_vars
  PROVE  [Queue!Next]_(Queue!qvars) /\ HeadIsThere'
<1> USE DEF Queue!Next
<1>1. CASE Crash
  BY <1>1, DieCloses DEF Crash
<1>2. CASE Restart
  <2>1. UNCHANGED <<pool, current, running, status>> /\ ~up /\ up' = TRUE
    BY <1>2 DEF Restart, device, tests
  <2>2. Queue!Open /\ HeadIsThere'
    BY <2>1 DEF Queue!Open, HeadIsThere, Fate
  <2> QED
    BY <2>2
<1>3. ASSUME NEW j \in Jobs, AddJob(j) PROVE [Queue!Next]_(Queue!qvars) /\ HeadIsThere'
  BY <1>3, AddJobSubmits
<1>4. CASE UNCHANGED <<up, pool, current, running, status>>
  BY <1>4, QueueUntouched
<1>5. ASSUME NEW m \in listening, NEW as \in {"done", "aborting"}, NEW alive, EndJob(m[1], as, alive)
      PROVE  [Queue!Next]_(Queue!qvars) /\ HeadIsThere'
  BY <1>5, EndJobEnds
<1>6. ASSUME NEW m \in Monkeys, MonkeyExit(m) PROVE [Queue!Next]_(Queue!qvars) /\ HeadIsThere'
  <2>1. CASE m \in listening /\ NextMonkey(m)
    <3>1. CASE Die
      BY <2>1, <3>1, DieCloses, HeardMonkey
    <3> QED
      BY <1>4, <2>1, <3>1 DEF NextMonkey, device
  <2> QED
    BY <1>4, <1>5, <1>6, <2>1 DEF MonkeyExit, device
<1>7. ASSUME NEW m \in Monkeys, Killed(m) PROVE [Queue!Next]_(Queue!qvars) /\ HeadIsThere'
  <2>1. UNCHANGED <<up, device, tests>> \/ \E t \in listening : EndJob(t[1], "aborting", process)
    BY <1>7 DEF Killed, Target
  <2> QED
    BY <1>4, <1>5, <2>1 DEF device, tests
<1>8. ASSUME NEW m \in Monkeys, KillFails(m) PROVE [Queue!Next]_(Queue!qvars) /\ HeadIsThere'
  BY <1>4, <1>8 DEF KillFails, device
<1>9. CASE RequestStopAll
  BY <1>9, StopAllWithdrawsSome
<1>10. ASSUME NEW r \in Requests, NEW n \in 0 .. Len(pool), RequestStop(r, n)
       PROVE  [Queue!Next]_(Queue!qvars) /\ HeadIsThere'
  <2>1. CASE Die
    BY <1>10, <2>1, DieCloses DEF RequestStop
  <2>2. CASE UNCHANGED <<up, device, tests>>
    BY <1>4, <2>2 DEF device, tests
  <2>3. CASE DeleteJob(n) /\ (n = 0 => current = Nil)
    <3>1. n \in Nat
      BY PoolFacts
    <3>2. \A j \in WaitingIn(pool) : j \in Jobs
      BY QueueTypes
    <3> QED
      BY <2>3, <3>1, DeleteWithdraws
  <2> QED
    BY <1>10, <2>1, <2>2, <2>3 DEF RequestStop, StopCurrent
<1>11. CASE NextSecond \/ (\E r \in Requests : RequestProcess(r)) \/ UNCHANGED vars
  BY <1>4, <1>11 DEF NextSecond, RequestProcess, vars, device, tests
<1> QED
  BY <1>1, <1>2, <1>3, <1>6, <1>7, <1>8, <1>9, <1>10, <1>11 DEF Next

\* Whatever the jobs, seeds and stops: a device serves its jobs one at a time
\* and in the order they came in, ends each at most once, and loses one only by
\* a stop or with the server (device.node.js, addJob, doneJob, stopJob and
\* allStopJob, with the callbacks of job.node.js and monkey.node.js).
THEOREM DeviceImplementsJobQueue == Spec => DeviceIsAJobQueue
<1>1. Init => Queue!Init /\ HeadIsThere
  <2> SUFFICES ASSUME Init PROVE Queue!Init /\ HeadIsThere
    OBVIOUS
  <2>1. pool \in Arrays /\ Len(pool) < 2
    BY DEF Init, Arrays
  <2>2. WaitingIn(pool) = {} /\ BeforeIn(pool) = {}
    BY <2>1, ShortQueue
  <2>3. [j \in Jobs |-> Fate(j)] = [j \in Jobs |-> "none"]
    BY DEF Init, Fate
  <2> QED
    BY <2>2, <2>3 DEF Init, Queue!Init, HeadIsThere
<1>2. IInv /\ HeadIsThere /\ [Next]_vars => [Queue!Next]_(Queue!qvars) /\ HeadIsThere'
  BY StepServes
<1> QED
  BY <1>1, <1>2, EngineInvariant, PTL DEF Spec, DeviceIsAJobQueue, Queue!Spec

-----------------------------------------------------------------------------
(* What the device has from JobQueue, whose theorems are in JobQueueProofs *)

Promise == INSTANCE JobQueueProofs WITH
    open <- up, active <- current, waiting <- WaitingIn(pool), before <- BeforeIn(pool),
    fate <- [j \in Jobs |-> Fate(j)]

LEMMA SameQueue == Queue!Spec => Promise!Spec
<1>1. Queue!Init => Promise!Init
  BY DEF Queue!Init, Promise!Init
<1>2. [Queue!Next]_(Queue!qvars) => [Promise!Next]_(Promise!qvars)
  BY DEF Queue!Next, Promise!Next, Queue!qvars, Promise!qvars,
         Queue!Submit, Promise!Submit, Queue!Withdraw, Promise!Withdraw,
         Queue!WithdrawSome, Promise!WithdrawSome, Queue!End, Promise!End,
         Queue!Close, Promise!Close, Queue!Open, Promise!Open,
         Queue!IsNext, Promise!IsNext, Queue!Among, Promise!Among
<1> QED
  BY <1>1, <1>2, PTL DEF Queue!Spec, Promise!Spec

\* The job that a device takes from its array has none ahead of it there,
\* whatever stops, late exits and holes came before (device.node.js, startJob
\* and doneJob).
THEOREM DeviceServesInTurn == Spec => Promise!ServedInTurn
<1>1. Promise!Spec => Promise!ServedInTurn
  BY MarkerAssumption, Promise!FirstComeFirstServed
<1> QED
  BY <1>1, SameQueue, DeviceImplementsJobQueue, PTL DEF DeviceIsAJobQueue

\* No exit, kill or answer of adb ends a job that is not the device's current
\* one, or ends one a second time (job.node.js, done and abort).
THEOREM DeviceEndsJobsOnce == Spec => Promise!EndsWhileServed
<1>1. Promise!Spec => Promise!EndsWhileServed
  BY MarkerAssumption, Promise!JobsEndOnce
<1> QED
  BY <1>1, SameQueue, DeviceImplementsJobQueue, PTL DEF DeviceIsAJobQueue
=============================================================================
