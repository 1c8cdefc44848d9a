---------------------------- MODULE DeviceEngine ----------------------------
(***************************************************************************)
(* The test engine of one device (src/src/stuff/device.node.js,            *)
(* job.node.js, monkey.node.js, src/src/adb/adb.node.js and the monitor    *)
(* page's handlers): a queue of jobs, the job that runs, its monkeys run   *)
(* one after the other as adb processes, and requests to stop jobs.        *)
(*                                                                         *)
(* Everything between two callbacks is synchronous: the exit of a monkey   *)
(* ends it, ends its job, starts the next job and its first monkey, and    *)
(* answers the HTTP requests that wait for an event of the device, in one  *)
(* step.  What is asynchronous is the exit of a process, and the answer of *)
(* adb to a kill.  An exception in a callback ends the server (Die).       *)
(*                                                                         *)
(* The module is about an installation in which the engine is reached: at  *)
(* this commit the scheduler that finds devices and the mail package are   *)
(* commented out, and so is the call that makes a profile's directory.     *)
(* The last two are constants.                                             *)
(***************************************************************************)
EXTENDS Integers, Sequences

CONSTANTS
    Jobs,          \* the jobs made for the device
    Requests,      \* HTTP requests that wait for an event of the device
    Nil,           \* no job
    Hole,          \* an element deleted from the array of jobs
    Seeds,         \* Seeds[j]: the fields start, end and interval of j's profile
    ProfileOf,     \* ProfileOf[j]: the profile of j
    Directories,   \* the profiles that have a directory of test results
    MailWorks,     \* nodemailer can be loaded
    PsMayFail      \* "adb shell ps" may fail

\* Operators whose names hold an underscore (GoOn_NotStarted, ...) are faulty
\* variants that nothing uses: each is a bug that some property catches.

ASSUME MarkerAssumption == Nil \notin Jobs /\ Hole \notin Jobs /\ Nil # Hole
\* createMonkeys does not return when the interval is not positive.
ASSUME SeedAssumption ==
    Seeds \in [Jobs -> [start : Nat, end : Nat, interval : Nat \ {0}]]
ASSUME SwitchAssumption == MailWorks \in BOOLEAN /\ PsMayFail \in BOOLEAN

MonkeyCount_Exclusive(j) ==
    LET s == Seeds[j] IN
    IF s.start >= s.end THEN 0 ELSE (s.end - s.start - 1) \div s.interval + 1

\* createMonkeys: one monkey per seed from start to end.
MonkeyCount(j) ==
    LET s == Seeds[j] IN
    IF s.start > s.end THEN 0 ELSE (s.end - s.start) \div s.interval + 1

\* The monkeys of all jobs, numbered from 1 in each.
Monkeys == UNION {{j} \X (1 .. MonkeyCount(j)) : j \in Jobs}

SeedOf(m) == Seeds[m[1]].start + (m[2] - 1) * Seeds[m[1]].interval

VARIABLES
    up,         \* the server runs
    pool,       \* jobPool: jobs and holes
    current,    \* currentJob
    running,    \* isRunning
    status,     \* status[j]: "none" before the job is made, "gone" with the server
    index,      \* index[j]: monkeyIndex, the monkeys of j that have ended
    listening,  \* the monkeys whose job has its listener on them
    process,    \* the monkeys whose adb process has not exited
    kills,      \* the monkeys whose killOut waits for ps
    taken,      \* profiles with a job directory that carries the present second
    request     \* request[r]: state of an HTTP request

device == <<pool, current, running>>
tests == <<status, index, listening, process>>
vars == <<up, pool, current, running, status, index, listening, process, kills, taken, request>>

Init ==
    /\ up = TRUE
    /\ pool = <<>>
    /\ current = Nil
    /\ running = FALSE
    /\ status = [j \in Jobs |-> "none"]
    /\ index = [j \in Jobs |-> 0]
    /\ listening = {}
    /\ process = {}
    /\ kills = {}
    /\ taken = {}
    /\ request = [r \in Requests |-> "new"]

Ended(j) == status[j] \in {"done", "aborting"}
InPool(x) == \E i \in 1 .. Len(pool) : pool[i] = x

\* The process ends with its queue, its jobs and its open requests; ended jobs
\* have left their results.
Die ==
    /\ up' = FALSE
    /\ pool' = <<>>
    /\ current' = Nil
    /\ running' = FALSE
    /\ status' = [j \in Jobs |-> IF status[j] \in {"pending", "running"} THEN "gone" ELSE status[j]]
    /\ listening' = {}
    /\ process' = {}
    /\ kills' = {}
    /\ request' = [r \in Requests |-> IF request[r] = "waiting" THEN "lost" ELSE request[r]]
    /\ UNCHANGED <<index, taken>>

Crash == up /\ Die

Restart ==
    /\ ~up
    /\ up' = TRUE
    /\ UNCHANGED <<device, tests, kills, taken, request>>

\* The clock of the job directories' names, which have seconds.
NextSecond ==
    /\ taken # {}
    /\ taken' = {}
    /\ UNCHANGED <<up, device, tests, kills, request>>
-----------------------------------------------------------------------------
(* Starting jobs and monkeys *)

Answered_Never == request

\* An event of the device answers every request that waits for one.
Answered == [r \in Requests |-> IF request[r] = "waiting" THEN "answered" ELSE request[r]]

MonkeyAt_Unchecked(j, n) == {<<j, n>>}

\* The n-th monkey of j, if there is one.
MonkeyAt(j, n) == {<<j, n>>} \cap Monkeys

Listeners_Kept(ms) == listening \cup ms

\* A job takes its listener off the monkey that ended before it goes on to ms.
Listeners(ms) == ms

\* createTestDirs returns no start time when the job's directory cannot be made
\* or is there already.
HasStartTime(j) == ProfileOf[j] \in Directories \ taken

\* Starting the first job of p throws when it is a hole, when a monkey asks for
\* a start time that is not there, and when an event finds a hole in the pool.
StartThrows(p) ==
    \/ p[1] = Hole
    \/ /\ MonkeyAt(p[1], 1) # {}
       /\ ~HasStartTime(p[1]) \/ \E i \in 1 .. Len(p) : p[i] = Hole

\* Device.startJob with the pool p, given what the jobs and processes were:
\* directories, then the first monkey, if the job has any.
StartJob(p, st, alive) ==
    LET j == p[1] IN
    /\ pool' = p
    /\ current' = j
    /\ running' = TRUE
    /\ taken' = IF ProfileOf[j] \in Directories THEN taken \cup {ProfileOf[j]} ELSE taken
    /\ listening' = Listeners(MonkeyAt(j, 1))
    /\ process' = alive \cup MonkeyAt(j, 1)
    /\ status' = IF MonkeyAt(j, 1) = {} THEN st ELSE [st EXCEPT ![j] = "running"]

\* Device.addJob
AddJob(j) ==
    /\ up
    /\ status[j] = "none"
    /\ LET p == Append(pool, j)
           st == [status EXCEPT ![j] = "pending"]
       IN  \/ /\ running
              /\ pool' = p /\ status' = st
              /\ UNCHANGED <<up, current, running, index, listening, process, kills, taken, request>>
           \/ /\ ~running /\ StartThrows(p)
              /\ Die
           \/ /\ ~running /\ ~StartThrows(p)
              /\ StartJob(p, st, process)
              /\ request' = IF MonkeyAt(j, 1) = {} THEN request ELSE Answered
              /\ UNCHANGED <<up, index, kills>>
-----------------------------------------------------------------------------
(* Ending monkeys and jobs *)

IsHaveJobs(p) == Len(p) > 0

GoOn_NotStarted(rest, st, alive) ==
    /\ pool' = rest
    /\ current' = Nil
    /\ running' = FALSE
    /\ listening' = {}
    /\ process' = alive
    /\ status' = st
    /\ UNCHANGED taken

GoOn_NewestFirst(rest, st, alive) ==
    LET n == Len(rest) IN
    IF n = 0 THEN GoOn_NotStarted(rest, st, alive)
    ELSE StartJob(<<rest[n]>> \o SubSeq(rest, 1, n - 1), st, alive)

\* doneJob after the splice: the next job, or an idle device.
GoOn(rest, st, alive) ==
    IF IsHaveJobs(rest) THEN StartJob(rest, st, alive)
    ELSE /\ pool' = <<>>
         /\ current' = Nil
         /\ running' = FALSE
         /\ listening' = Listeners({})
         /\ process' = alive
         /\ status' = st
         /\ UNCHANGED taken

\* Job.done or Job.abort, the device's handler, and the summary, which mails.
EndJob(j, as, alive) ==
    LET rest == SubSeq(pool, 2, Len(pool))
    IN  IF ~MailWorks \/ (IsHaveJobs(rest) /\ StartThrows(rest)) \/ (\E i \in 1 .. Len(rest) : rest[i] = Hole)
        THEN Die
        ELSE /\ GoOn(rest, [status EXCEPT ![j] = as], alive)
             /\ index' = [index EXCEPT ![j] = @ + 1]
             /\ request' = Answered
             /\ UNCHANGED up

IsBalanceMonkey_Count(m) == m[2] < MonkeyCount(m[1]) - 1

\* More monkeys are expected after m.
IsBalanceMonkey(m) == SeedOf(m) # Seeds[m[1]].end

\* END_MONKEY, and the next monkey of the job; if there is none, nothing more.
NextMonkey(m) ==
    LET next == MonkeyAt(m[1], index[m[1]] + 2) IN
    IF InPool(Hole) THEN Die
    ELSE /\ index' = [index EXCEPT ![m[1]] = @ + 1]
         /\ listening' = Listeners(next)
         /\ process' = (process \ {m}) \cup next
         /\ request' = Answered
         /\ UNCHANGED <<up, device, status, taken>>

\* An adb process exits: endedMonkey, whatever the exit code.
MonkeyExit(m) ==
    /\ m \in process
    /\ \/ /\ m \notin listening
          /\ process' = process \ {m}
          /\ UNCHANGED <<up, device, status, index, listening, kills, taken, request>>
       \/ /\ m \in listening /\ IsBalanceMonkey(m)
          /\ NextMonkey(m)
          /\ up' => UNCHANGED kills
       \/ /\ m \in listening /\ ~IsBalanceMonkey(m)
          /\ EndJob(m[1], "done", process \ {m})
          /\ up' => UNCHANGED kills
-----------------------------------------------------------------------------
(* Stopping *)

\* stopMonkey: killOut of the current monkey.  An ended one has no listener
\* left; a job without monkeys has none to call.
StopCurrent ==
    IF MonkeyAt(current, 1) = {} THEN Die
    ELSE /\ kills' = kills \cup listening
         /\ UNCHANGED <<up, device, tests, taken>>

\* Device.stopJob(n), of any number but 0: "delete" leaves a hole.
DeleteJob(n) ==
    /\ pool' = IF n < Len(pool) THEN [pool EXCEPT ![n + 1] = Hole] ELSE pool
    /\ UNCHANGED <<up, current, running, tests, kills, taken>>

\* /request_admin_stop: the answer waits for the next event of the device.
RequestStop(r, n) ==
    /\ up
    /\ request[r] = "new"
    /\ IF n = 0 /\ current # Nil THEN StopCurrent ELSE DeleteJob(n)
    /\ up' => request' = [request EXCEPT ![r] = "waiting"]

\* Device.allStopJob turns the pool round and drops from its end, one job a
\* turn, until the turn's number meets the shrinking length.
Half(n) == (n + 1) \div 2
Turned(p) == [i \in 1 .. Half(Len(p)) |-> p[Len(p) + 1 - i]]

RequestStopAll ==
    /\ up
    /\ IF Len(pool) % 2 = 0
       THEN /\ pool' = Turned(pool)
            /\ UNCHANGED <<up, current, running, tests, kills, taken, request>>
       ELSE IF MonkeyAt(current, 1) = {} THEN Die
       ELSE /\ pool' = Turned(pool)
            /\ kills' = kills \cup listening
            /\ UNCHANGED <<up, current, running, tests, taken, request>>

Target_Current(m) == listening

\* The monkey that killedMonkey emits on: the one that was asked to stop.
Target(m) == {m} \cap listening

\* ps has answered: the monkeys found on the device are killed, and killedMonkey
\* tells the job that listens, if it still does.
Killed(m) ==
    /\ m \in kills
    /\ IF Target(m) = {}
       THEN kills' = kills \ {m} /\ UNCHANGED <<up, device, tests, taken, request>>
       ELSE \E t \in Target(m) :
              /\ EndJob(t[1], "aborting", process)
              /\ up' => kills' = kills \ {m}

\* ps failed: the job takes its listener off the monkey and does nothing else.
KillFails(m) ==
    /\ PsMayFail
    /\ m \in kills
    /\ kills' = kills \ {m}
    /\ listening' = listening \ {m}
    /\ index' = IF m \in listening THEN [index EXCEPT ![m[1]] = @ + 1] ELSE index
    /\ UNCHANGED <<up, device, status, process, taken, request>>

\* /request_admin_job_process: the next event answers, if a device runs.
RequestProcess(r) ==
    /\ up
    /\ request[r] = "new"
    /\ request' = [request EXCEPT ![r] = IF running THEN "waiting" ELSE "lost"]
    /\ UNCHANGED <<up, device, tests, kills, taken>>

Next ==
    \/ Crash
    \/ Restart
    \/ NextSecond
    \/ \E j \in Jobs : AddJob(j)
    \/ \E m \in Monkeys : MonkeyExit(m) \/ Killed(m) \/ KillFails(m)
    \/ RequestStopAll
    \/ \E r \in Requests : RequestProcess(r) \/ \E n \in 0 .. Len(pool) : RequestStop(r, n)

Spec == Init /\ [][Next]_vars

\* A monkey sends a given number of events and exits; ps answers.
Fairness == \A m \in Monkeys : WF_vars(MonkeyExit(m)) /\ WF_vars(Killed(m) \/ KillFails(m))

LiveSpec == Spec /\ Fairness
-----------------------------------------------------------------------------
(* Properties *)

\* Every variable keeps its shape.
TypeOK ==
    /\ up \in BOOLEAN
    /\ pool \in Seq(Jobs \cup {Hole})
    /\ current \in Jobs \cup {Nil}
    /\ running \in BOOLEAN
    /\ status \in [Jobs -> {"none", "pending", "running", "done", "aborting", "gone"}]
    /\ index \in [Jobs -> Nat]
    /\ listening \in SUBSET Monkeys
    /\ process \in SUBSET Monkeys
    /\ kills \in SUBSET Monkeys
    /\ taken \in SUBSET {ProfileOf[j] : j \in Jobs}
    /\ request \in [Requests -> {"new", "waiting", "answered", "lost"}]

\* No job waits in the queue of an idle device: addJob starts one only if the
\* device does not run, so doneJob must have started all that came meanwhile.
NoIdleQueue ==
    /\ running <=> current # Nil
    /\ pool # <<>> => running

\* The only monkey whose end is heard is the running job's next one, and its
\* process is there to end: a monkey of an aborted or finished job, still
\* exiting while the next job runs, moves nothing (job.node.js 124 to 128).
OneMonkeyListens ==
    \A m \in listening :
        /\ m[1] = current /\ status[current] = "running"
        /\ m[2] = index[current] + 1
        /\ m \in process

\* A job that is done has run every monkey it was made with, in spite of stops
\* that came late, failed, or were meant for other jobs.
DoneMeansAllRan == \A j \in Jobs : status[j] = "done" => index[j] = MonkeyCount(j)

\* Late answers of adb and late exits do not revive or change an ended job.
EndedStaysEnded == [][\A j \in Jobs : Ended(j) => status'[j] = status[j]]_vars

\* Behind the head of the array p are the jobs that wait, in their order; the head
\* runs, or will be dropped when the job that runs ends.
WaitingIn(p) == {j \in Jobs : \E i \in 2 .. Len(p) : p[i] = j}
IsAhead(p, j, k) == \E i, l \in 2 .. Len(p) : i < l /\ p[i] = j /\ p[l] = k
BeforeIn(p) == {x \in Jobs \X Jobs : IsAhead(p, x[1], x[2])}
Fate(j) == IF status[j] \in {"pending", "running"} THEN "alive" ELSE status[j]

Queue == INSTANCE JobQueue WITH
    open <- up, active <- current, waiting <- WaitingIn(pool), before <- BeforeIn(pool),
    fate <- [j \in Jobs |-> Fate(j)]

\* One job at a time, first come first served; an exit, a stop or an answer of
\* adb, however late, ends the active job once or changes nothing of the queue;
\* only a stop takes a job out of it (device.node.js, addJob to allStopJob).
DeviceIsAJobQueue == Queue!Spec

\* A stop aborts the job it was sent to or none: when ps answers after that
\* job's monkey has ended, the job that runs by then is not aborted.
StopHitsItsJob ==
    [][\A j \in Jobs : status'[j] = "aborting" /\ status[j] # "aborting" =>
          \E m \in kills : m[1] = j /\ Killed(m)]_vars

\* The interval leads from the start seed to the end seed.
Balanced(j) ==
    LET s == Seeds[j] IN s.start <= s.end /\ (s.end - s.start) % s.interval = 0

\* The running job waits for an event that cannot come.
Stuck == running /\ listening = {}

\* Only a failed kill makes a job wait for ever, if its interval is right: no
\* stop, late stop or exit leaves it without a monkey it listens to.
OnlyFailedKillsStick ==
    [][~Stuck /\ Stuck' /\ Balanced(current') => \E m \in kills : KillFails(m)]_vars

\* A queued job leaves the queue, unless the job before it is stuck or the
\* server ends.
QueueMoves == \A j \in Jobs : InPool(j) ~> ~InPool(j) \/ Stuck

\* A request that waits while the device runs is answered, unless the running
\* job is stuck or the server ends.
RequestsAnswered ==
    \A r \in Requests : request[r] = "waiting" /\ running ~> request[r] # "waiting" \/ Stuck

\* device.node.js 253 and 255, "stop current job" and "remove job": after a stop
\* of all jobs the running one is being stopped and no other one is queued.
StopAllStops ==
    [][RequestStopAll /\ up' =>
          listening \subseteq kills' /\ \A j \in Jobs : InPool(j)' => j = current]_vars
=============================================================================
