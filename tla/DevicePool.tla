------------------------------ MODULE DevicePool ------------------------------
(***************************************************************************)
(* The pool of devices (src/src/admin_manager.node.js loadAllDevice to     *)
(* addSchedulers, src/src/scheduler/device_scheduler.node.js, adb.devices  *)
(* of src/src/adb/adb.node.js), the jobs a profile makes on them           *)
(* (makeJobs, makeNowJobs of src/src/stuff/profile.node.js), and what      *)
(* becomes of their summaries (SummaryLog).  One job is one step here, from *)
(* its start to its end; DeviceEngine has what happens between.            *)
(*                                                                         *)
(* A device that leaves the pool and comes back is another Device object   *)
(* of the same serial, and the first one goes on with its queue.           *)
(*                                                                         *)
(* Which serials an answer of adb names is arbitrary: devices come and go, *)
(* adb.devices answers at the exit of the process, when not all of its     *)
(* output may have been read, and names nothing when adb fails.            *)
(*                                                                         *)
(* The module is about an installation with the device scheduler, mail and *)
(* profile directories, which this commit has commented out.               *)
(***************************************************************************)
EXTENDS SummaryLog, Sequences

CONSTANTS
    Serials,    \* serial numbers of phones
    Apps,       \* Apps[s]: how many applications the profile tests on s, 0 if it does not
    MaxObjects  \* bound on the Device objects of one serial

ASSUME JobAssumption == Jobs \subseteq Nat  \* in the order they are made
ASSUME AppAssumption == Apps \in [Serials -> Nat] /\ MaxObjects \in Nat

VARIABLES
    up,     \* the server runs
    last,   \* last[s]: the number of Device objects of s so far
    pool,   \* pool[s]: which of them is devicePool[s], 0 if none
    queue,  \* queue[s][i]: jobPool of the i-th Device object of s
    made,   \* serials with a job directory that carries the present second
    missed  \* history: working Device objects that an answer of adb left out

devices == <<last, pool, queue, made, missed>>
vars == <<up, devices, log>>

Objects == 1 .. MaxObjects
NoQueues == [s \in Serials |-> [i \in Objects |-> <<>>]]

Init ==
    /\ up = TRUE
    /\ last = [s \in Serials |-> 0]
    /\ pool = [s \in Serials |-> 0]
    /\ queue = NoQueues
    /\ made = {}
    /\ missed = {}
    /\ LogInit

Queued(j) == \E s \in Serials, i \in Objects : \E n \in DOMAIN queue[s][i] : queue[s][i][n] = j

\* Jobs no device has had yet.
Fresh == {j \in Jobs : step[j] = "none" /\ ~Queued(j)}

Die ==
    /\ up' = FALSE
    /\ pool' = [s \in Serials |-> 0]
    /\ queue' = NoQueues
    /\ missed' = {}
    /\ step' = [j \in Jobs |-> IF Queued(j) THEN "gone" ELSE Abandoned[j]]
    /\ UNCHANGED <<last, made, file, copy, overlapped>>

Crash == up /\ Die

Restart == ~up /\ up' = TRUE /\ UNCHANGED <<devices, log>>

\* The clock of the job directories' names, which have seconds.
NextSecond ==
    /\ made # {}
    /\ made' = {}
    /\ UNCHANGED <<up, last, pool, queue, missed, log>>
-----------------------------------------------------------------------------
(* The list of devices *)

Present == {s \in Serials : pool[s] # 0}

\* The Device objects of the pool that have jobs and whose phone is not in the list.
LeftOut(list) == {<<s, pool[s]>> : s \in {t \in Present \ list : queue[t][pool[t]] # <<>>}}

\* clearDevicePool looks up the names of the list in the pool instead of those
\* of the pool in the list, so that a list that names any device clears nothing.
Cleared(list) == IF list = {} THEN [s \in Serials |-> 0] ELSE pool

Unpooled_All(list, kept) == list

\* loadDevice keeps the object of a phone that has one; loadAllDevice makes one for
\* each, and is for an empty pool.
Unpooled(list, kept) == {s \in list : kept[s] = 0}

\* EVENT.RELOAD_DEVICE_LIST
Reload(list) ==
    /\ up
    /\ LET kept == Cleared(list)
           new == Unpooled(list, kept)
       IN  /\ \A s \in new : last[s] < MaxObjects
           /\ last' = [s \in Serials |-> IF s \in new THEN last[s] + 1 ELSE last[s]]
           /\ pool' = [s \in Serials |-> IF s \in new THEN last[s] + 1 ELSE kept[s]]
    /\ missed' = missed \cup LeftOut(list)
    /\ UNCHANGED <<up, queue, made, log>>
-----------------------------------------------------------------------------
(* Jobs *)

\* addJob of the jobs J[s] to the devices of D, one after the other; a device
\* that was idle starts the first, in a directory that must be new.
Add(D, J) ==
    LET starting == {s \in D : J[s] # <<>> /\ queue[s][pool[s]] = <<>>} IN
    IF starting \cap made # {} THEN Die
    ELSE /\ queue' = [s \in Serials |->
                IF s \in D THEN [queue[s] EXCEPT ![pool[s]] = @ \o J[s]] ELSE queue[s]]
         /\ made' = made \cup starting
         /\ UNCHANGED <<up, last, pool, missed, log>>

\* n fresh jobs, which are numbered as they are made.
Row(n) == {q \in [1 .. n -> Fresh] : \A a, b \in 1 .. n : a < b => q[a] < q[b]}

In(q) == {q[a] : a \in DOMAIN q}

\* New jobs for the devices of D, one for each application.
Made(D) ==
    {J \in [D -> UNION {Row(Apps[s]) : s \in D}] :
        /\ \A s \in D : J[s] \in Row(Apps[s])
        /\ \A s, t \in D : s # t => In(J[s]) \cap In(J[t]) = {}
        /\ \A j, k \in Fresh : j < k /\ (\E s \in D : k \in In(J[s])) => \E s \in D : j \in In(J[s])}

\* The alarm of the profile; makeJobs leaves its loop after the first device of
\* the pool that the profile has applications for.
Alarm == up /\ \E s \in Present : Apps[s] > 0 /\ \E J \in Made({s}) : Add({s}, J)

\* makeNowJobs, for the devices the page posts.
RunNow == up /\ \E D \in SUBSET Present : \E J \in Made(D) : Add(D, J)

Rest_KeepsHead(q) == q

Rest_Nothing(q) == <<>>

Rest(q) == Tail(q)

\* The running job of a Device object ends, whether the object is in the pool
\* or not: doneJob starts the next one, then the summary begins.
JobEnds(s, i) ==
    /\ up /\ queue[s][i] # <<>>
    /\ IF Len(queue[s][i]) > 1 /\ s \in made THEN Die
       ELSE /\ queue' = [queue EXCEPT ![s][i] = Rest(@)]
            /\ made' = IF Len(queue[s][i]) > 1 THEN made \cup {s} ELSE made
            /\ missed' = IF Len(queue[s][i]) > 1 THEN missed ELSE missed \ {<<s, i>>}
            /\ step' = Summarized(Head(queue[s][i]))
            /\ UNCHANGED <<up, last, pool, file, copy, overlapped>>
-----------------------------------------------------------------------------
(* The log *)

SummaryGoesOn(j) == up /\ LogStep(j) /\ UNCHANGED <<up, devices>>

\* A job's own read of a log that cannot be parsed, or /request_admin_profile_log
\* of the page of results, ends the server.
ReadEndsServer == up /\ (\E j \in Jobs : ReadThrows(j)) /\ Die

ResultPage == up /\ file.state \in {"cut", "mixed"} /\ Die

Next ==
    \/ Crash
    \/ Restart
    \/ NextSecond
    \/ \E list \in SUBSET Serials : Reload(list)
    \/ Alarm
    \/ RunNow
    \/ \E s \in Serials, i \in Objects : JobEnds(s, i)
    \/ \E j \in Jobs : SummaryGoesOn(j)
    \/ ReadEndsServer
    \/ ResultPage

Spec == Init /\ [][Next]_vars

\* Jobs end, and the file system calls back.
LiveSpec ==
    /\ Spec
    /\ \A s \in Serials, i \in Objects : WF_vars(JobEnds(s, i))
    /\ \A j \in Jobs : WF_vars(SummaryGoesOn(j))
    /\ WF_vars(ReadEndsServer)
-----------------------------------------------------------------------------
(* Properties *)

\* Every job is at one place: with one device, once, or in its summary.
TypeOK ==
    /\ up \in BOOLEAN
    /\ last \in [Serials -> 0 .. MaxObjects]
    /\ pool \in [Serials -> 0 .. MaxObjects] /\ \A s \in Serials : pool[s] <= last[s]
    /\ queue \in [Serials -> [Objects -> Seq(Jobs)]]
    /\ made \in SUBSET Serials
    /\ missed \in SUBSET (Serials \X Objects)
    /\ LogTypeOK
    /\ \A j \in Jobs : Queued(j) => up /\ step[j] = "none"

\* A phone runs jobs of two Device objects at once only if an answer of adb left
\* it out while the older one was at work.  However alarms, runs, ends of jobs and
\* lists that name the phone follow each other, they make no second object beside
\* one that works, and give an object that left the pool no further job.
TwoAtOnceOnlyIfMissed ==
    \A s \in Serials : \A i, k \in Objects :
        i < k /\ queue[s][i] # <<>> /\ queue[s][k] # <<>> => <<s, i>> \in missed

\* The log gets damaged only when the server ends within a write, when a write
\* fails, or when two jobs write at the same time.
DamageExplained ==
    [][~Damaged /\ Damaged' =>
        \/ ~up'
        \/ \E j \in Jobs : step[j] \in {"opening", "writing"} /\ step'[j] = "skipped"
        \/ \E j \in overlapped : step[j] = "writing" /\ step'[j] = "done"]_vars

\* No job ever repairs a damaged log: from then on each job that gets to its log
\* ends the server, with all jobs that are queued.
DamageStays == [][Damaged => Damaged']_vars

\* A job that is queued is run and its chain ends, in one of four ways, also when
\* its device left the pool or another object has taken its phone.
EveryJobEnds ==
    \A j \in Jobs : Queued(j) ~> step[j] \in {"done", "skipped", "stuck", "gone"}
=============================================================================
