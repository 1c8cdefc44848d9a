# Verification of BnR

BnR (build and release) is a node.js server with a web page for administrators
(profiles, releases, groups, builds, device tests), and build agents that
connect to it with socket.io. It runs on node 0.4 to 0.8; an exception that no
handler catches ends the process, and the code catches none.

This directory holds TLA+ models of its stateful parts, TLC configurations, and
TLAPS proofs. Paths below are relative to the repository.

## 1. The system

### Components

| component | code | state it keeps | operations |
|---|---|---|---|
| Administration manager and meta files | `src/admin_manager.node.js`, `src/data/storage.node.js` | three JSON files; for each a map in memory; the pool of Profile objects; three global template objects; the pool of Device objects | start (make, load), new, delete, edit, list, run, set activity; reload of the devices |
| Profile, Release, Group | `src/stuff/{profile,release,group}.node.js` | the wrapped record, the handle of the alarm | setActivity, addScheduler, save, makeJobs, makeNowJobs |
| Interval schedulers | `src/scheduler/*` | an interval, the minute last served | start, end, processing |
| Request handlers | `src/handlers/admin_handler.node.js` | the monitor page's list of jobs | 28 HTTP paths |
| Agent hub | `src/fu.node.js` 140-290, copied in `agent/agent.js` (class Server) and `agent/fu.node.js` | two tables of sockets, a counter per push job | connection, checkin, push to agent, disconnect, clients, dir, pull file, push file |
| Build agent | `agent/agent.js` (class Client) | its connection | checkin, push file, build test |
| Command line client | `agent/client.js` | none | pushagent and other calls of the hub |
| Test engine | `src/stuff/{device,job,monkey}.node.js`, `src/adb/adb.node.js` | per device a queue of jobs, the running job, its monkeys and processes | addJob, stopJob, allStopJob, exits and kills |
| Summaries | `src/stuff/summary.node.js`, `src/data/storage.node.js` | `profile_log.json` of each profile | written when a job ends |
| Mail | `src/stuff/mail.node.js` | none | sent when a job ends |
| Git helper | `src/adb/ngit.node.js`, `bgit.sh` | none (a shell process per call) | clone, branch, tag, ... |
| HTTP layer | `src/fu.node.js` 1-140 | the table of handlers, filled before it listens | routing, static files |
| Helpers | `src/utils/*` | none | files, dates, searching |
| Browser pages | `views/*` | a copy of the server's list, a dialog | load, make, delete, deploy, success and error callbacks |

`node_modules` (468 of 606 files) and `resources` are third-party.

### How they interact

A browser calls a handler; the handler calls the administration manager
synchronously and gets its answer back through an event that is emitted before
the call returns. The manager reads and writes the meta files synchronously. So
one request is one atomic step on the server, except for three things: a push or
a build waits for agents, a stop or a job list waits for a device, and a crash
can fall between two file writes. The log of a profile is the exception among
the files: it is read and written with callbacks.

Profiles reach schedulers only through `set_activity`: the call of
`addScheduler` in the constructor is commented out. An alarm makes jobs for the
devices of the device pool, and the device pool is empty at this commit, as the
device scheduler is commented out too (`admin_manager.node.js` 45, 46, 82). The
test engine is thus dormant, and so are summaries and mail; `DeviceEngine`,
`DevicePool` and `SummaryLog` are about an installation that has it switched on.

### What is hard

* **Object identity.** `newProfile`, `newReleaseProfile` and `newGroupProfile`
  fill and store one global object, so entries created in one lifetime of the
  server are aliases of each other; a Profile of the pool may or may not wrap
  the object that the map holds.
* **Two copies.** Some handlers merge one record into the file, others write
  the whole map, which may be older than the file.
* **Partial failure.** Results of saves are ignored; a torn file loads as
  nothing; the three files are made one after the other.
* **Reconnection.** A new connection is a new session. Messages die with a
  session, acknowledgements are kept by the client library and come over the
  next one, and callbacks are found by a number that each session counts anew.
* **Callbacks that share state.** All (agent, file) pairs of a push share one
  counter; the end of a job starts the next one inside its own event; adb
  answers a kill when another monkey or another job may be running.
* **A shared file.** Jobs that end on two devices read, change and write the
  profile's log side by side.
* **Stale copies.** A page never asks again by itself, and applies answers in
  the order they happen to come; a running scheduler has the schedule of the
  time it was made at.
* **Time.** An interval wakes up several times in a minute, and local time may
  come back.

`PROJECT.json` lists these under "hazards", each at its line.

## 2. Modules

| module | models | composed of |
|---|---|---|
| `AdminManager` | manager, meta files, Profile, handlers of profiles, releases and groups | has `Catalog` instances for the refinement |
| `Catalog` | abstract: what a client sees of the releases, or of the groups | - |
| `ProfileAlarm` | the alarm of one profile over a calendar of minutes | - |
| `AgentHub` | hub, agents and their connections, push jobs, build requests | hub, agent, client and socket.io in one module, as they share sessions |
| `DeviceEngine` | one device's queue, jobs and monkeys, adb exits and kills, stop requests | device, job and monkey in one module, as they call each other synchronously |
| `SummaryLog` | the end of a job: its summary and the log of its profile | - |
| `DevicePool` | the pool of devices, alarms and runs that queue jobs on them, and what becomes of their summaries | extends `SummaryLog` |
| `AdminPages` | browser windows of the groups page or of the releases page | on top of `Catalog`, as the server |
| `AdminSystem` | the windows in front of the real manager, with other clients, crashes and restarts | extends `AdminManager`, has an instance of `AdminPages` |
| `JobQueue` | abstract: what a device promises about its queue | `DeviceEngine` has an instance |
| `PushService` | abstract: what the hub promises of pushes and builds | `AgentHub` has an instance |
| `AdminManagerProofs`, `ProfileAlarmProofs`, `AgentHubProofs`, `DeviceEngineProofs`, `DevicePoolProofs`, `AdminPagesProofs`, `AdminSystemProofs`, `JobQueueProofs` | theorems about the module they are named after, and that it implements its abstract one | extend it |
| `MC*` | instances for TLC: symmetry sets, functions as constants | extend the module they are named after |

Operators whose names hold an underscore (`Merge_DropsOthers`) are faulty
variants of the operator before the underscore. No specification uses them: with
one in place of the right one, some property below fails.

### AdminManager and Catalog

State: `file`, `disk` (the contents of the files), `mem` (`this.profiles`,
`releaseProfiles`, `groupProfiles`), `loaded`, `pool` (`this.profilePool`),
`shared`, `tpl` (the globals `PROFILE`, ...), `timers` and `handle` (intervals
and `this.scheduler`), `up`. Identity is in the cells of the maps: a cell is a
record of its own, or `Template`, "the shared object"; `shared` names the pool
objects that wrap the very object in the map.

Actions: `Boot` and `BootCrash` (`makeStorage`, `setProfiles`, ...), `Crash`,
`CrashWhileSaving`, and one per handler: `New`, `Delete`, `Edit`, `List`,
`SetActivity`, `Run`. Each contains its save (`Merge` or `Save`), which may fail
or tear the file if the constants say so. A handler that throws is `Die`.

Abstracted: a record has a name, one field for the schedule, and the alarm flag.
The configuration is written together with the schedule. Of Release and Group
objects only the records exist; nothing calls their methods.

`Catalog` is the promise of one store: named entries that survive the server.
It is weaker than one would write for a client, and says how: entries made since
the server started are `kin`, one object, and every removal stores the latest
made of them under the names of all. `AdminManager` restricted to one of the two
kinds implements it under the mapping `serving <- loaded`, `stored <- disk`,
`latest <- tpl`, `kin <-` the cells that hold `Template`. Profiles are no
catalogue: `Run` writes whatever a page posts.

### ProfileAlarm

Time is a sequence of minutes (`Calendar`), each with the fields of a Date
object and the string `printDate` makes of it, so that two minutes may print the
same date when the clock is set back. State: the present minute, the profile's
schedule, the schedulers made so far with the schedule and the minute each was
made with (`plan`, `since`), `handle` (`profile.scheduler`), which intervals run,
`doneTime` of each, and the history of rings.

`Processing` is one wake-up of one interval: `Matches` has the comparisons with
the lists (empty lists, the weeks that override the days, and `==`, by which an
empty string is zero), `Fires` adds `doneTime`. `NextMinute` lets a minute end
only when every interval that ran all through it has woken up, as ten seconds
are shorter than a minute. `TurnOn`, `TurnOff`, `Edit`, `Replace` and `Restart`
are the requests that touch a scheduler or its handle.

### AgentHub

State: sessions and links of the agents, whether their one `checkin` has gone
out, the hub's `registry` (the arrays `clients` and `sockets`, which hold the
same entries), the callbacks of each session (`acks`), and for each push job the
stage of each pair, the counter `fcount` and the number of calls of `fn`.
`build` and `chosen` follow the build requests.

Actions are the handlers of both sides, the callbacks of file reads and writes,
and the network: `Connect`, `LinkDrop`, `Disconnect`, `StrayAck`. The hub
learns of a broken connection (`Disconnect`) some time after it broke. Failures
are chosen by the constant `Failures`: broken links, agents and hubs that end,
unreadable files (`process.exit` in the hub), unwritable files (an exception in
the agent). Of socket.io the module has what this code relies on; those
definitions are marked external.

`PushService` is what is left of it without sessions, messages and counters: who
asked for which file on which agent, which agent has which file, whether the
caller of a push was told, and what became of a build request. `HubIsAPushService`
maps the jobs' stages to `wanted` and `held` (`Wanted`, `Held`) and the states of
a build to those of a request (`Asked`). It says that files arrive only for a
push that has not been reported, that its caller is told once, when all agents
have all files, by the server that began it, and that a request is settled once.

### DeviceEngine

State: `pool` (`jobPool`, with the holes that `delete` leaves), `current`,
`running`, `status` and `index` of every job, `listening` (monkeys with a job's
listener), `process` (monkeys whose adb process runs), `kills` (calls of
`killOut` that wait for `ps`), `taken` (job directories that carry the present
second), `request`.

One step is one callback with all it calls: `MonkeyExit` ends the monkey,
perhaps its job (`EndJob`), starts the next (`GoOn`, `StartJob`) and answers the
waiting requests (`Answered`). Exceptions are `Die`: an event that meets a hole,
a job that starts in the second of one of the same profile, a stop of a job
without monkeys.

`kills` is a set: a second kill of one monkey finds no listener. Which process
a late `ps` kills on the device only makes an exit sooner. Whether profile
directories exist and mail works are constants (`Directories`, `MailWorks`), and
the code at this commit has neither (`profile.node.js` 49, `mail.node.js` 38):
without a directory the first monkey of any job ends the server, without mail
the first end of a job does.

`JobQueue` is the promise of one device: one job is served at a time, in the
order of submission, an end is for good, and only a stop or the end of the server
loses a job. A stop of all jobs is weaker than its comments: it may leave waiting
jobs, and in reverse order (`WithdrawSome`). `DeviceIsAJobQueue` maps `active` to
`current`, `waiting` and `before` to the jobs behind the head of the array and
their order (`WaitingIn`, `BeforeIn`), through holes and a turned array.

### SummaryLog and DevicePool

`SummaryLog` follows each job through `summaryToJob`, `saveProfileLog` and the
end of the chain of events, one step per callback of the file system. `file` is
what `profile_log.json` is (absent, cut by `writeFile`'s opening, a mixture of
two texts, or whole with the entries it has), `copy` what a job has read.
`Overwritten` says what writing one text over another can leave: a text that is
not shorter replaces the other. `overlapped` is a history variable: the jobs
whose time between read and write met that of another.

`DevicePool` adds the devices. `Reload` is one answer of adb with
`clearDevicePool` and `loadDevice`; which serials it names is arbitrary. A phone
that left the pool and comes back gets a second Device object while the first
still works off its queue, so `queue` has a queue for every object. `missed` is a
history variable: the objects that a list left out while they had jobs. `Alarm` and
`RunNow` are `makeJobs` and `makeNowJobs`, with the directory of a job that has
the start time in seconds (`made`). A job is one step here, `JobEnds`;
`DeviceEngine` has what happens in between. What throws (a read of a damaged
log, a directory that exists) ends the server with all queues.

### AdminPages

State per window: `list`, the copy it shows, and `date`, which tells when the
server made it; `dialog` for the modal dialog of a new release. `asked` and
`answers` are sets, so the network reorders in both directions. `Load`,
`MakeGroup`, `MakeRelease`, `Cancel`, `Delete` and `Deploy` are the handlers of
the pages' buttons, `Serve` is one handler of the server in `Catalog`'s words,
`Deliver` is the success callback (for a release's dialog it reloads the page)
and `Lose` the empty error callback. `Named` is what a checkbox makes of a
group's name. `newest`, `crossed` and `lost` are history variables.

`Serve` is split into what the catalogue does and what happens to the messages
(`Answered`), so that the second part can be put beside another server.

### AdminSystem

`AdminPages` has a `Catalog` for a server; `AdminSystem` has the handlers of
`AdminManager`. `Serve` carries out the handler a request names, with its map,
template and file, and moves the messages as `AdminPages` does: `Answered`, or
`Unanswered` when the map was never loaded and the handler throws or answers an
error. `Start` and `Fail` are the manager's (a crash inside `makeStorage` too),
and `Elsewhere` is everybody else: the page of the builds, the page of the other
store, alarms, edits and runs, for the kinds that `others` names. The names of
profiles (`ProfileNames`) are not those of releases, as both carry the time they
were made at. `PagesSeeACatalog` says that the windows cannot tell this from
`AdminPages`. Saves succeed here: what a page is answered after a failed or torn
one is not modelled.

## 3. Runs

| run | instance | distinct states | what it shows |
|---|---|---|---|
| `profiles` | 2 profiles, 2 intervals each | 431,407 | `ListedIsStored`, `AlarmOwned`, `SingleWritesKeepOthers` under all orders of the six requests, crashes and restarts |
| `system` | 1 window, 2 names of which one cannot be sent, 3 requests, 2 starts, other clients on the other kinds | 280,787 | `MapMatchesFile`, `RestartKeepsRecords`, that both stores implement `Catalog`, and that the windows see one (`PagesSeeACatalog`) |
| `faults` | 1 name, all kinds, failing and torn saves | 105,952 | `TypeOK`, `NoSilentReset` |
| `alarm_night` | the minutes around a clock set back, 3 schedules, 2 schedulers | 81,564 | `RingsOnce`, `NoMinuteMissed`, `TwiceOnlyIfLost` |
| `hub` | 1 agent, 2 files, 1 job, 1 build, 2 sessions; every failure | 95,043 | `CountIsExact`, `PushReportsTruth`, `BuildAnsweredByItsAgent`, that the hub implements `PushService`, `PushSettles`, `BuildSettles` |
| `dev_queue` | 4 jobs (two monkeys; one; an interval that misses the end seed; none), 1 request, failing `ps` | 178,357 | the nine properties of `DeviceEngine`, one of them that it implements `JobQueue` |
| `device_pool` | 2 phones with 2 and 1 applications, 2 Device objects each, 3 jobs, a failing disk | 263,846 | the six properties of `DevicePool` and `SummaryLog` |
| `pages` | 2 windows, 2 names of which one cannot be sent, 4 requests, 2 starts of the server | 1,277,546 | the four properties of `AdminPages` |

Four runs end in a violation, each of something the repository says:

| run | what TLC finds |
|---|---|
| `unique_names` | INSTALL 62 asks for unique profile names. Two profiles made in one lifetime are one object; a later full write stores the same record, with one name, under both keys. |
| `hub_reconnect` | The hub's `reconnect` handler means to register an agent again. No server socket receives that event and an agent checks in once, so it stays connected and unregistered. |
| `dev_stop_all` | The comments in `allStopJob` say "stop current job" and "remove job". With two jobs queued the running one is dropped from the queue and not stopped, and the other stays. |
| `alarm_month` | INSTALL 79 numbers the months from 1. `getMonth` counts from 0: a profile for January rings in February. |

### Bounds

Two names are what aliasing, stale maps and "the other records" need; three
are used where a third must be deleted to force a full write. Two intervals per
name are enough to lose the handle of one. Two schedulers ring beside each
other; the calendar of five minutes has the same date twice, a minute of no
schedule, and both :00 and :30.

Two sessions of an agent give a broken connection, a stray acknowledgement and
a reconnection; two files give the shared counter its interleavings; a job and
a build give the stray acknowledgement someone else's number. For the safety
properties the proofs cover any number of agents, files and jobs; the two
liveness properties are checked for one agent.

Four jobs give `allStopJob` both parities, a queue behind the running job, and
a job of each shape of seeds. Three jobs of one profile let two overlap and a
third meet what they left; two Device objects are the pooled one and one that
was dropped. Two windows with four requests have a crossing on one page while
another one changes the server, and a request left for the page after a restart.
In front of the real stores one window is enough, as the order of requests is
what `pages` is about; its three requests are enough for a list, a change and the list after it, and
`Budget` limits requests and starts to four together. `MaxTimers` is 0 there:
alarms are the subject of `profiles` and `alarm_night`.

`MaxTimers`, `MaxSchedulers`, `MaxSessions`, `MaxObjects`, `MaxAsks` and
`MaxStarts` are the only bounds in guards; the proofs hold for all values of
them. `Budget` is a constraint on the states of `system` only. The runs of
`AgentHub`, `AdminPages` and `AdminSystem` switch deadlock checking off: an
instance whose sessions and jobs, or requests and starts, are used up has
nothing left to do. The others check it.

### Fairness

Only the `LiveSpec` of three modules has fairness, all of it weak. `AgentHub`:
an agent that can connect does (socket.io-client retries), a message on a live
connection is delivered, reads and writes call back, a broken connection is
noticed (socket.io's heartbeat). There is none on starts of agents or the hub,
on failures, or on requests. `DeviceEngine`: a monkey sends a given number of
events and exits, and `ps` answers or fails. `DevicePool`: a job ends, the file
system calls back, and an exception that is due happens. That a job ends is an
assumption there: `DeviceEngine` shows what it needs (an interval that meets the
end seed, no failed kill). No property needs a stop
to be asked for, a crash not to happen or a device to be plugged in. Pages have
no liveness: nothing makes a user or a page ask again.

### What a reader should take from the passing runs

* `CountIsExact` and `BuildAnsweredByItsAgent` hold for a thin reason. A stray
  acknowledgement carries a number of an older session; today it never meets a
  callback, because an agent checks in once and its later sessions, never
  registered, have no callbacks. The plain repair of the `hub_reconnect`
  finding, a checkin on every connect (`CheckinAfter_EveryConnect`), breaks both
  properties. It needs a way to tell the sessions' acknowledgements apart.
* `MapMatchesFile` excepts profiles: `Run` writes what the browser posts, so the
  file may get records that the map does not have. `ListedIsStored` holds for
  all three kinds.
* `AlarmOwned` is about what the code does keep: an interval is never cleared
  twice. Intervals that nobody can stop any more do occur (`timers` above one,
  or `handle` false with an interval running). `TwiceOnlyIfLost` says what
  follows: these, and only these, ring beside a later scheduler, apart from a
  minute in which the alarm was turned off and on again.
* `OnlyFailedKillsStick` says that with a right interval only a failed `ps`
  leaves the queue waiting for ever.
* `TwoAtOnceOnlyIfMissed`: two Device objects that drive one phone side by side
  come only from an answer of adb that left the phone out while it worked. At
  this commit that is an empty answer, as `clearDevicePool` drops all devices or
  none (`Cleared`); the property would also hold of a `clearDevicePool` that drops
  the phones that are not listed. It does not say that an unplugged phone leaves
  the pool: it stays there, and gets jobs, as long as any other is listed.
* Where the code does fail in a known way, the properties name the cause and say
  that there is no other: `PushSettles` and `BuildSettles` leave out what lost its
  agent, `OnlyFailedKillsStick` and `QueueMoves` the jobs whose seeds miss the end
  or whose kill failed, `OldListExplained` the pages whose requests crossed or got
  lost. The notes of the hazards in `PROJECT.json` say so one by one.
* `EveryJobEnds` allows "stuck": without a log file, which nothing makes at this
  commit, the chain of a job's events stops after its own summary.
* `DamageStays`: a log that a crash or an overlap has damaged is never repaired,
  and ends the server at the end of each further job.
* `PagesSeeACatalog`: no other client and no crash shows a window anything that
  a catalogue would not. The price of the deploy button is in it: each deploy
  that the server handles ends it.
* `OldListExplained` and `OddNamesStay` say where the pages may lie: requests
  that crossed, answers that were lost, and group names with a space or a slash.

## 4. Proofs

TLAPS checks eight modules. None of the theorems has a bound in it: they hold
for any sets of names, agents, files, jobs, phones and windows, any calendar and
schedules, and any value of the bounds. Every inductive invariant has a lemma
per action and is called `IInv` in its module.

`AdminManagerProofs`:

| theorem | property | assumption beyond the module's |
|---|---|---|
| `InvariantHolds` | `IInv` | none |
| `TypeCorrect` | `TypeOK` | none |
| `AlarmsAreOwned` | `AlarmOwned` | none |
| `NoSilentResets` | `NoSilentReset` | none |
| `RestartsKeepRecords` | `RestartKeepsRecords` | saves do not fail (they may tear) |
| `SingleWritesKeepTheOthers` | `SingleWritesKeepOthers` | saves do not tear (they may fail) |
| `WhatIsListedIsStored` | `ListedIsStored` | saves neither fail nor tear |
| `MapsMatchFiles` | `MapMatchesFile` | the same |
| `StoredRecordsFate` | `StoredRecordFate` (no run) | the same |

`IInv == TypeOK /\ Backed /\ AlarmOwned`. `TypeOK` alone is not inductive: that
`timers` stays a natural number when an alarm is turned off needs `AlarmOwned`,
and that what a save writes is a map of records needs `Backed` (a cell with the
marker `Template` has a filled template behind it; a shared pool object is the
map's). On top of it `Agreement == ListedIsStored /\ MapMatchesFile` is
inductive relative to `IInv` when no save fails, and the two action properties
follow from it and `UsableIsLoaded` (a usable file has been loaded). Restarts
need one more invariant, `ProfileFileFirst`: if there is no profile file there
is no file at all, so `makeStorage` overwrites nothing. That is where the
assumption on saves comes from: were the save of the profile file to fail in
`makeStorage` and the other two to succeed, the next start would overwrite those.

In the same module: `ReleasesImplementCatalog` and `GroupsImplementCatalog`
(properties `ReleasesAreACatalog`, `GroupsAreACatalog`), if no save fails. The
catalogue of a kind `k` is written out once as a state function of `k`; each
action of `AdminManager` is shown to take one of its steps or to leave it, so
that the two theorems are instances. It needs `Agreement`, since a catalogue has
one copy where the code has two; `ProfileFileFirst`, since a start must not
overwrite; and `NoLatestUnloaded`, that no template is filled before its map is
loaded.

`ProfileAlarmProofs`: `AlarmInvariant`, `AlarmTypes`, `OneRingAMinute`
(`RingsOnce`), `NothingSleptThrough` (`NoMinuteMissed`), `DoubleRingsExplained`
(`TwiceOnlyIfLost`). `RingsOnce` needs what `doneTime` remembers (`Remembers`):
the date of a minute in which the scheduler rang, and that of the present one
once it has. `NoMinuteMissed` needs `AwakeRang` and that an interval older than
the minute has run since it began. `TwiceOnlyIfLost` needs that whatever was
made after a scheduler was turned off is younger than its last ring.

`AgentHubProofs`: `HubInvariant`, `HubTypes`, `CounterIsExact`, `ToldOnce`,
`ToldTheTruth`, `AnsweredByItsAgent` (`CountIsExact`, `CalledOnce`,
`PushReportsTruth`, `BuildAnsweredByItsAgent`). The key is `FirstSessionOnly`: an
agent program checks in over its first connection and never again, so whatever
an agent has received came over one session, and the hub has neither entered nor
emitted on any later one. A stray acknowledgement therefore finds no callback.
The rest is counting: each step leaves `Outstanding` as it is, or takes one pair
out of it together with one from the counter. `HubImplementsPushService`
(`HubIsAPushService`) needs `HubSide` on top of it: whatever ends with the server
(connections, running jobs, open build requests) implies that it is up, and what is
read or on its way belongs to a running job, but an agent that writes on a
session that is over may write for a job that is gone. The promise therefore
lets files go on arriving for a push whose server has ended.

`DeviceEngineProofs`: `EngineInvariant`, `EngineTypes`, `QueueIsServed`
(`NoIdleQueue`), `OnlyTheNextIsHeard` (`OneMonkeyListens`), `DoneJobsRanAll`
(`DoneMeansAllRan`), `EndsStay` (`EndedStaysEnded`), `StopsHitTheirJobs`
(`StopHitsItsJob`), `NothingElseSticks` (`OnlyFailedKillsStick`). `QueueInOrder`
carries it: a job is once in the queue, and behind the head there are only jobs
that have not begun, through the holes that `delete` leaves and the turning
round of `allStopJob`. That a job which is done ran every monkey needs arithmetic
on the seeds: the last monkey's seed is the end seed only for the last number.

`DeviceImplementsJobQueue` (`DeviceIsAJobQueue`) needs that a running job has a
head in the array (`HeadIsThere`), and what each operation on the array, with its
holes, does to the set and the order of the waiting jobs. `JobQueueProofs` then
proves of the abstract queue, if `Nil` is no job, that the jobs wait in a line
(`JobsWaitInLine`), that none is served before one that waits in front of it
(`FirstComeFirstServed`), and that a job ends only while it is served and for
good (`JobsEndOnce`). Through the refinement the last two hold of the code's
array: `DeviceServesInTurn` and `DeviceEndsJobsOnce`.

`DevicePoolProofs`: `PoolInvariant`, `PoolTypes`, `LoneJobsAreLogged`
(`LoggedUnlessOverlapped`), `SecondObjectsExplained` (`TwoAtOnceOnlyIfMissed`),
`DamageHasACause` (`DamageExplained`), `DamageIsForGood` (`DamageStays`). A job
is once in all queues; two jobs between their read and their write have met; and
what a job is about to write has the entries of all jobs that were through
without having met it (`CopyIsFull`). The Device objects have an invariant of their
own, `ObjectsInv`: the pooled object of a phone is the last one made, and an
object that works is that one or was left out (`missed`).

`AdminPagesProofs`: `PagesInvariant`, `PagesTypes`, `PagesShowTheTruth`
(`TruthUntilTheNextRequest`), `OldListsAreExplained` (`OldListExplained`),
`OddGroupsStay` (`OddNamesStay`). `InOrder` says of a page whose requests neither
crossed nor got lost that at most one message of it is on its way, and that an
answer to it is the newest; `AnswersTrue` that an answer as new as the server is
true; `WellAsked` that a delete names only what checkboxes carry.

`AdminSystemProofs` puts the pages' theorems on the real manager. All of its
theorems assume that saves neither fail nor tear.

| theorem | what it says |
|---|---|
| `SystemRunsTheManager` | every behaviour of `AdminSystem` is one of `AdminManager`: all theorems above hold of it |
| `PagesSeeTheStores` | `PagesSeeACatalog`: it is also one of `AdminPages` |
| `WindowsShowTheFile` | a window answered by the latest request the server handled shows what the file holds, but for entries that are one object in the map |
| `OldWindowsAreExplained` | a window that waits for nothing and does not show the last list made for it had requests that crossed or an answer lost |
| `OddGroupsStayInTheFile` | a group whose name a checkbox cannot carry is not deleted by any page |
| `DeployEndsTheServer` | a deploy that a server handles ends it |

The hard step of `PagesSeeTheStores` is the deploy button: the abstract server
ends on it, so the real one must find no profile of that name. That needs an
invariant over all clients: profiles, in the map, the file, the pool and the
template, have names of profiles (`ProfilesApart`), while releases and the names
that deploys carry are apart from those (`ReleasesApart`, `DeploysApart`). The
shapes of requests come from the pages' own invariant (`Promised!IInv`), which is
carried along under the mapping, and the agreement of map and file from the
manager's (`Managed`). The windows' theorems are then those of `AdminPagesProofs`
instantiated with the manager's state.

The `ASSUME`s are the markers' distinctness and the types of the constants,
which TLC evaluates in the runs.

Only model-checked: the liveness properties (`PushSettles`, `BuildSettles`,
`QueueMoves`, `RequestsAnswered`, `EveryJobEnds`), as the provers in use have no
support for fairness and ENABLED, and the four violations. Only proved, and in no
run: `StoredRecordFate`, `CalledOnce` (`ToldOnce`) and `EndedStaysEnded`
(`EndsStay`), which `Catalog`, `PushService` and `JobQueue` say in a stronger form
or next to it, and what was carried over from the abstract modules.

## 5. Not modelled

* **Third-party code**: `node_modules` and `resources/lib` (jqplot, jQuery,
  excanvas). They are by far the larger part of the repository's lines (some
  30,000 of the JavaScript outside `node_modules` alone). Of socket.io there is
  what the hub relies on.
* **Git helper**: one process per call, no state; callbacks print. Concurrent git
  processes in one workspace are possible and not observed by the code.
* **HTTP routing, static files, result files, mail, formatting**: no state, or
  pure input and output. Mail is switched off (`mail.node.js` 38).
* **The hub's `clients`, `dir`, `pull file` and `push file` handlers** keep no
  state; that they may throw is in `ServerDies`. A hub that is the agent of
  another hub is not composed.
* **The page of builds** (`admin_setting_client.js`) works on profiles as the
  releases page does on releases; profiles are no `Catalog`, so it would need
  `AdminManager` below it, whose instances are too large for that. What it posts
  is an input of `AdminManager` (`Run` takes any record, old or renamed, since
  the page posts back what it shows). The buttons to run and to edit and the lists
  of devices and applications are commented out in the pages.
* **The monitor page's list of jobs** (`admin_handler.node.js` 446-495). Nothing
  in the pages calls `request_admin_job_list`. Its copy is made once per device
  and renewed only by an event after a `job_process` request, so there is nothing
  it promises. Two slips show on reading: line 491 deletes the entry of the
  device that the loop ended with, and with two running devices the one
  response is answered twice.
* **`monitoring_system`** and the system log scheduler pass samples of memory
  and processor on.

Some behaviour is in the models and has no property, because no text of the
repository says what it should be, or because another run shows the same cause:
an alarm that is on in the file is not scheduled after a restart; turning on a
listed profile whose object carries a deleted name ends the server; an edit does
not reach a running alarm; a blank field of a form counts as zero and not as
"empty"; two jobs of a profile that start in one second end the server. That the
deploy button of a release ends it is `DeployEndsTheServer`.

## 6. What is left

1. The builds page over the profiles of `AdminManager`, where there is no
   `Catalog` between them.
2. `DevicePool` with a `JobQueue` for each Device object in place of its one-step
   jobs: stops of a job whose device has left the pool.
3. Theorems of `PushService` (a caller is told once and truly), carried over to
   the hub as those of `JobQueue` are to the device; the hub's module has them
   with proofs of their own.
4. An agent in server mode under another hub, whose push reaches the agents of
   the inner hub.
