---------------------------- MODULE ProfileAlarm ----------------------------
(***************************************************************************)
(* The alarm of one profile (src/src/scheduler/profile_scheduler.node.js,  *)
(* scheduler.node.js, src/src/stuff/profile.node.js): turning it on makes  *)
(* a ProfileScheduler whose interval wakes up every ten seconds, compares  *)
(* the local time with the profile's schedule and rings in the minutes     *)
(* that match, and rings by "doneTime" only once in each.                  *)
(*                                                                         *)
(* Time is a sequence of minutes, each with the fields that a Date object  *)
(* gives.  The local time may be set back (the end of summer time, an      *)
(* adjusted clock): two minutes of the sequence may then print the same    *)
(* date.  Within a minute an interval wakes up any number of times; one    *)
(* that runs for the whole minute wakes up at least once.                  *)
(***************************************************************************)
EXTENDS Naturals, Sequences

CONSTANTS
    Calendar,      \* the minutes that pass
    Schedules,     \* schedules a profile may have
    Blank,         \* the empty string, as an element of a schedule's list
    Nil,           \* no scheduler, no date
    MaxSchedulers  \* bound on the schedulers made

\* Operators whose names hold an underscore (Fires_Always, ...) are faulty
\* variants that nothing uses: each is a bug that some property catches.

Fields == {"months", "weeks", "days", "hours", "mins"}
Values == 0 .. 59

ASSUME CalendarAssumption ==
    Calendar \in Seq([month : Values, week : Values, day : Values, hour : Values,
                      min : Values, date : STRING]) /\ Calendar # <<>>
\* A list of numbers is its set of elements: order and repetition do not matter.
ASSUME ScheduleAssumption == Schedules \subseteq [Fields -> SUBSET (Values \cup {Blank})]
ASSUME MarkerAssumption == Blank \notin Values /\ Nil \notin STRING /\ Nil \notin 1 .. MaxSchedulers
ASSUME BoundAssumption == MaxSchedulers \in Nat

Minutes == 1 .. Len(Calendar)
Schedulers == 1 .. MaxSchedulers

VARIABLES
    now,       \* the present minute
    schedule,  \* profile.schedule of the object in the profile pool
    made,      \* how many ProfileSchedulers have been made
    handle,    \* profile.scheduler
    running,   \* the schedulers whose interval has not been cleared
    whole,     \* those whose interval has run since the minute began
    woken,     \* those whose interval has woken up in this minute
    since,     \* since[i]: the minute in which i was made
    plan,      \* plan[i]: the schedule i was made with
    doneTime,  \* doneTime[i]
    off,       \* history: the schedulers that a request has turned off
    rings      \* history: rings[i][m] is how often i has rung in minute m

clock == <<now, whole, woken>>
alarm == <<made, handle, running, since, plan, off>>
vars == <<now, schedule, made, handle, running, whole, woken, since, plan, doneTime, off, rings>>

Init ==
    /\ now = 1
    /\ schedule \in Schedules
    /\ made = 0
    /\ handle = Nil
    /\ running = {}
    /\ whole = {}
    /\ woken = {}
    /\ since = [i \in Schedulers |-> 1]
    /\ plan = [i \in Schedulers |-> schedule]
    /\ doneTime = [i \in Schedulers |-> Nil]
    /\ off = {}
    /\ rings = [i \in Schedulers |-> [m \in Minutes |-> 0]]
-----------------------------------------------------------------------------
(* Matching the time *)

\* isValueInArray: the elements are strings, compared with "==", by which the
\* empty string equals zero.
IsValueIn(value, list) == value \in list \/ (value = 0 /\ Blank \in list)

\* getMonths, getDays, getHours, getMins: what an empty list stands for.
Months(s) == IF s["months"] = {} THEN 0 .. 11 ELSE s["months"]
Days(s)   == IF s["days"] = {} THEN 1 .. 31 ELSE s["days"]
Hours(s)  == IF s["hours"] = {} THEN 0 .. 23 ELSE s["hours"]
Mins(s)   == IF s["mins"] = {} THEN {0, 30} ELSE s["mins"]

\* The comparisons of processing but for doneTime: with weeks, days are ignored.
Matches(s, t) ==
    /\ IsValueIn(t.month, Months(s))
    /\ IF s["weeks"] # {} THEN IsValueIn(t.week, s["weeks"]) ELSE IsValueIn(t.day, Days(s))
    /\ IsValueIn(t.hour, Hours(s))
    /\ IsValueIn(t.min, Mins(s))

PrintDate_Hour(m) ==
    Calendar[CHOOSE k \in Minutes : Calendar[k].hour = Calendar[m].hour /\ Calendar[k].day = Calendar[m].day].date

\* printDate: to the minute.
PrintDate(m) == Calendar[m].date

Fires_Always(i) == Matches(plan[i], Calendar[now])

Fires(i) == Matches(plan[i], Calendar[now]) /\ doneTime[i] # PrintDate(now)

\* processing, called by the interval of i; the ring is ALARM_WAKEUP.
Processing(i) ==
    /\ i \in running
    /\ woken' = woken \cup {i}
    /\ IF Fires(i)
       THEN /\ doneTime' = [doneTime EXCEPT ![i] = PrintDate(now)]
            /\ rings' = [rings EXCEPT ![i][now] = @ + 1]
       ELSE UNCHANGED <<doneTime, rings>>
    /\ UNCHANGED <<now, schedule, whole, alarm>>

\* An interval of ten seconds wakes up in every minute it runs through.
NextMinute ==
    /\ now < Len(Calendar)
    /\ whole \subseteq woken
    /\ now' = now + 1
    /\ whole' = running
    /\ woken' = {}
    /\ UNCHANGED <<schedule, alarm, doneTime, rings>>
-----------------------------------------------------------------------------
(* Requests *)

\* set_activity with true: a new scheduler, whose handle replaces any other.
TurnOn ==
    /\ made < MaxSchedulers
    /\ made' = made + 1
    /\ handle' = made + 1
    /\ running' = running \cup {made + 1}
    /\ since' = [since EXCEPT ![made + 1] = now]
    /\ plan' = [plan EXCEPT ![made + 1] = schedule]
    /\ UNCHANGED <<schedule, clock, doneTime, off, rings>>

Cleared_Nothing == running

\* What clearInterval leaves running.
Cleared == running \ {handle}

HandleAfterEnd_Kept == handle

\* addScheduler sets scheduler to null.
HandleAfterEnd == Nil

\* set_activity with false: Scheduler.end of the one the profile has, if any.
TurnOff ==
    /\ running' = Cleared
    /\ handle' = HandleAfterEnd
    /\ off' = off \cup ({handle} \ {Nil})
    /\ whole' = whole \cap running'
    /\ UNCHANGED <<now, woken, schedule, made, since, plan, doneTime, rings>>

\* editProfile or run: another schedule, in new lists that no scheduler has.
Edit(s) ==
    /\ schedule' = s
    /\ UNCHANGED <<clock, alarm, doneTime, rings>>

\* newProfile with the name of this one: the pool's object is replaced by one
\* without a scheduler, and the interval of the old one goes on.
Replace(s) ==
    /\ schedule' = s
    /\ handle' = Nil
    /\ UNCHANGED <<clock, made, running, since, plan, doneTime, off, rings>>

\* The server ends and starts again: no constructor starts an alarm.
Restart ==
    /\ handle' = Nil
    /\ running' = {}
    /\ whole' = {}
    /\ UNCHANGED <<now, woken, schedule, made, since, plan, doneTime, off, rings>>

Next ==
    \/ \E i \in Schedulers : Processing(i)
    \/ NextMinute
    \/ TurnOn
    \/ TurnOff
    \/ \E s \in Schedules : Edit(s) \/ Replace(s)
    \/ Restart

Spec == Init /\ [][Next]_vars
-----------------------------------------------------------------------------
(* Properties *)

\* Every variable keeps its shape: only schedulers that were made run, and the
\* handle, when there is one, is that of a running scheduler.
TypeOK ==
    /\ now \in Minutes
    /\ schedule \in Schedules
    /\ made \in 0 .. MaxSchedulers
    /\ running \in SUBSET (1 .. made)
    /\ handle \in running \cup {Nil}
    /\ whole \in SUBSET running
    /\ woken \in SUBSET Schedulers
    /\ since \in [Schedulers -> Minutes]
    /\ plan \in [Schedulers -> Schedules]
    /\ doneTime \in [Schedulers -> STRING \cup {Nil}]
    /\ off \in SUBSET Schedulers
    /\ rings \in [Schedulers -> [Minutes -> Nat]]

\* However often the interval wakes up in a minute, and although a date may come
\* back when the clock is set back, a scheduler rings at most once in a minute.
RingsOnce == \A i \in Schedulers : \A m \in Minutes : rings[i][m] <= 1

\* No minute that matches is slept through by a scheduler that ran all through
\* it: it has rung in it, or in an earlier one that prints the same date.
NoMinuteMissed ==
    \A i \in running : \A m \in Minutes :
        since[i] < m /\ m < now /\ Matches(plan[i], Calendar[m]) =>
            \E k \in 1 .. m : Calendar[k].date = Calendar[m].date /\ rings[i][k] > 0

\* The profile's alarm rings twice in a minute only if it was turned on again in
\* that very minute, or if the earlier scheduler could not be turned off because
\* its handle was lost (turned on twice, or its Profile object replaced): one
\* that a request has turned off does not ring beside a later one.
TwiceOnlyIfLost ==
    \A i, j \in Schedulers : \A m \in Minutes :
        i < j /\ rings[i][m] > 0 /\ rings[j][m] > 0 => since[j] = m \/ i \notin off

\* INSTALL line 79, '"Month": per month ex) 1,2,...,12': a profile with months
\* rings in these months, January being 1 (Date counts from 0).
MonthsAreNumberedFromOne ==
    \A i \in Schedulers : \A m \in Minutes :
        rings[i][m] > 0 /\ plan[i]["months"] \notin {{}, {Blank}} =>
            Calendar[m].month + 1 \in plan[i]["months"]
=============================================================================
