------------------------- MODULE ProfileAlarmProofs -------------------------
(***************************************************************************)
(* Proofs about ProfileAlarm, for every calendar, every set of schedules   *)
(* and any number of schedulers: the inductive invariant IInv, and from it *)
(* the properties of the module.                                           *)
(***************************************************************************)
EXTENDS ProfileAlarm, TLAPS

\* Scheduler i has rung in a minute up to m that prints date d.
Rang(i, m, d) == \E k \in 1 .. m : Calendar[k].date = d /\ rings[i][k] > 0

\* The handle is that of the last scheduler; the ones turned off do not run.
Handles ==
    /\ handle \in {made, Nil}
    /\ off \in SUBSET (1 .. made)
    /\ off \cap running = {}
    /\ woken \in SUBSET (1 .. made)

\* A scheduler rings between the minute it was made in and the present one.
RingsInItsTime ==
    \A i \in Schedulers : \A m \in Minutes :
        rings[i][m] > 0 => since[i] <= m /\ m <= now /\ i <= made

\* doneTime is the date of a minute in which the scheduler rang, and that of
\* the present minute once it has rung in it.
Remembers ==
    \A i \in Schedulers :
        /\ rings[i][now] > 0 => doneTime[i] = Calendar[now].date
        /\ doneTime[i] # Nil => Rang(i, now, doneTime[i])

\* One that has woken up in a minute that matches has rung for its date.
AwakeRang ==
    \A i \in woken : Matches(plan[i], Calendar[now]) => Rang(i, now, Calendar[now].date)

\* An interval that is older than the minute has run since it began.
OldOnesRunAllThrough == \A i \in running : since[i] < now => i \in whole

\* Whatever was made after a scheduler that a request turned off was made after
\* that one's last ring.
OffBeforeTheNext ==
    \A i \in off : \A j \in Schedulers : \A m \in Minutes :
        i < j /\ j <= made /\ rings[i][m] > 0 => m <= since[j]

\* No scheduler is younger than the present.
SinceBeforeNow == \A i \in Schedulers : since[i] <= now

IInv ==
    /\ TypeOK
    /\ Handles
    /\ SinceBeforeNow
    /\ RingsInItsTime
    /\ RingsOnce
    /\ Remembers
    /\ AwakeRang
    /\ OldOnesRunAllThrough
    /\ NoMinuteMissed
    /\ OffBeforeTheNext
-----------------------------------------------------------------------------
(* The initial state and the steps keep IInv *)

LEMMA DateIsString == \A m \in Minutes : Calendar[m].date \in STRING
<1>1. \A m \in Minutes : Calendar[m] \in [month : Values, week : Values, day : Values,
                                          hour : Values, min : Values, date : STRING]
  <2> DEFINE R == [month : Values, week : Values, day : Values,
                   hour : Values, min : Values, date : STRING]
  <2> HIDE DEF R
  <2>1. Calendar \in Seq(R)
    BY CalendarAssumption DEF R
  <2>2. \A m \in 1 .. Len(Calendar) : Calendar[m] \in R
    BY <2>1
  <2> QED  BY <2>2 DEF Minutes, R
<1> QED  BY <1>1

LEMMA MadeAreSchedulers == TypeOK => 1 .. made \subseteq Schedulers /\ running \subseteq Schedulers
<1> SUFFICES ASSUME TypeOK PROVE 1 .. made \subseteq Schedulers /\ running \subseteq Schedulers
  OBVIOUS
<1>1. made \in 0 .. MaxSchedulers /\ running \subseteq 1 .. made
  BY DEF TypeOK
<1>2. 1 .. made \subseteq Schedulers
  BY <1>1, BoundAssumption DEF Schedulers
<1> QED  BY <1>1, <1>2

\* A ring is never taken back.
LEMMA RangStays ==
    ASSUME TypeOK, NEW i \in Schedulers, Processing(i),
           NEW j \in Schedulers, NEW m \in Minutes, NEW d, Rang(j, m, d)
    PROVE  Rang(j, m, d)'
<1>1. PICK k \in 1 .. m : Calendar[k].date = d /\ rings[j][k] > 0
  BY DEF Rang
<1>2. k \in Minutes /\ now \in Minutes
  BY <1>1 DEF Minutes, TypeOK
<1>3. rings'[j][k] > 0
  BY <1>1, <1>2 DEF Processing, TypeOK
<1> QED  BY <1>1, <1>3 DEF Rang

LEMMA InitHolds == Init => IInv
<1> SUFFICES ASSUME Init PROVE IInv
  OBVIOUS
<1>1. TypeOK
  <2>1. 1 \in Minutes
    BY CalendarAssumption DEF Minutes
  <2> QED  BY <2>1, BoundAssumption DEF Init, TypeOK, Schedulers, Minutes
<1>2. \A i \in Schedulers, m \in Minutes : rings[i][m] = 0
  BY DEF Init
<1>3. Handles
  BY DEF Init, Handles
<1>4. RingsInItsTime /\ RingsOnce /\ Remembers /\ OffBeforeTheNext
  BY <1>1, <1>2 DEF Init, RingsInItsTime, RingsOnce, Remembers, OffBeforeTheNext, TypeOK
<1>5. AwakeRang /\ OldOnesRunAllThrough /\ NoMinuteMissed
  BY DEF Init, AwakeRang, OldOnesRunAllThrough, NoMinuteMissed
<1>6. SinceBeforeNow
  BY DEF Init, SinceBeforeNow
<1> QED  BY <1>1, <1>3, <1>4, <1>5, <1>6 DEF IInv

\* A ring is new for its minute, for had the scheduler rung in it before,
\* doneTime would hold its date.
LEMMA ProcessingKeeps == ASSUME IInv, NEW i \in Schedulers, Processing(i) PROVE IInv'
<1> USE DEF IInv
<1>1. i \in 1 .. made /\ now \in Minutes /\ i \in running
  BY DEF Processing, TypeOK
<1>2. Calendar[now].date \in STRING
  BY <1>1, DateIsString
<1>3. TypeOK'
  BY <1>1, <1>2 DEF Processing, TypeOK, clock, alarm, PrintDate
<1>4. Handles'
  BY <1>1 DEF Processing, Handles, alarm, clock
<1>5. Fires(i) => rings[i][now] = 0
  BY <1>1 DEF Fires, PrintDate, Remembers, TypeOK
<1>6. RingsInItsTime'
  <2> SUFFICES ASSUME NEW j \in Schedulers, NEW m \in Minutes, rings'[j][m] > 0
               PROVE  since'[j] <= m /\ m <= now' /\ j <= made'
    BY DEF RingsInItsTime
  <2>1. CASE rings[j][m] > 0
    BY <2>1 DEF RingsInItsTime, Processing, alarm
  <2>2. CASE ~ (rings[j][m] > 0)
    <3>1. j = i /\ m = now
      BY <2>2, <1>1 DEF Processing, TypeOK
    <3>2. since[i] <= now
      BY <1>1 DEF SinceBeforeNow, TypeOK
    <3> QED  BY <3>1, <3>2, <1>1 DEF Processing, alarm, TypeOK, Minutes
  <2> QED  BY <2>1, <2>2
<1>7. RingsOnce'
  BY <1>5, <1>1 DEF RingsOnce, Processing, TypeOK
<1>8. Fires(i) => Rang(i, now, Calendar[now].date)'
  <2>1. SUFFICES ASSUME Fires(i) PROVE \E k \in 1 .. now' : Calendar[k].date = Calendar[now].date /\ rings'[i][k] > 0
    BY DEF Rang, Processing
  <2>2. rings'[i][now] > 0 /\ now \in 1 .. now'
    BY <2>1, <1>1, <1>5 DEF Processing, TypeOK, Minutes
  <2> QED  BY <2>2
<1>9. Remembers'
  <2> SUFFICES ASSUME NEW j \in Schedulers
               PROVE  /\ rings'[j][now'] > 0 => doneTime'[j] = Calendar[now'].date
                      /\ doneTime'[j] # Nil => Rang(j, now, doneTime[j])'
    BY DEF Remembers
  <2>1. CASE j = i /\ Fires(i)
    <3>1. doneTime'[j] = Calendar[now'].date /\ now' = now
      BY <2>1, <1>1 DEF Processing, TypeOK, PrintDate
    <3> QED  BY <3>1, <2>1, <1>8 DEF Rang
  <2>2. CASE ~ (j = i /\ Fires(i))
    <3>1. rings'[j] = rings[j] /\ doneTime'[j] = doneTime[j] /\ now' = now
      BY <2>2, <1>1 DEF Processing, TypeOK
    <3>2. doneTime[j] # Nil => Rang(j, now, doneTime[j])
      BY DEF Remembers
    <3> QED  BY <3>1, <3>2 DEF Remembers, Rang
  <2> QED  BY <2>1, <2>2
<1>10. AwakeRang'
  <2> SUFFICES ASSUME NEW j \in woken', Matches(plan'[j], Calendar[now'])
               PROVE  Rang(j, now, Calendar[now].date)'
    BY DEF AwakeRang
  <2>1. now' = now /\ plan' = plan /\ j \in woken \cup {i} /\ j \in Schedulers
    BY DEF Processing, alarm, TypeOK, Handles, Schedulers
  <2>2. CASE j \in woken
    <3>1. Rang(j, now, Calendar[now].date)
      BY <2>1, <2>2 DEF AwakeRang
    <3> QED  BY <3>1, <2>1, <1>1, RangStays
  <2>3. CASE j = i
    <3>1. CASE Fires(i)
      BY <3>1, <2>3, <1>8
    <3>2. CASE ~ Fires(i)
      <4>1. doneTime[i] = Calendar[now].date
        BY <3>2, <2>1, <2>3 DEF Fires, PrintDate
      <4>2. Rang(i, now, doneTime[i])
        BY <4>1, <1>2, MarkerAssumption DEF Remembers
      <4> QED  BY <4>1, <4>2, <2>1, <2>3, <1>1, RangStays
    <3> QED  BY <3>1, <3>2
  <2> QED  BY <2>1, <2>2, <2>3
<1>11. OldOnesRunAllThrough'
  BY DEF OldOnesRunAllThrough, Processing, alarm, clock
<1>12. NoMinuteMissed'
  <2> SUFFICES ASSUME NEW j \in running', NEW m \in Minutes,
                      since'[j] < m, m < now', Matches(plan'[j], Calendar[m])
               PROVE  Rang(j, m, Calendar[m].date)'
    BY DEF NoMinuteMissed, Rang
  <2>1. j \in running /\ j \in Schedulers /\ since[j] < m /\ m < now /\ Matches(plan[j], Calendar[m])
    BY MadeAreSchedulers DEF Processing, alarm
  <2>2. Rang(j, m, Calendar[m].date)
    BY <2>1 DEF NoMinuteMissed, Rang
  <2> QED  BY <2>1, <2>2, RangStays
<1>13. OffBeforeTheNext'
  <2> SUFFICES ASSUME NEW o \in off', NEW j \in Schedulers, NEW m \in Minutes,
                      o < j, j <= made', rings'[o][m] > 0
               PROVE  m <= since'[j]
    BY DEF OffBeforeTheNext
  <2>1. o \in off /\ o # i /\ o \in Schedulers
    BY <1>1 DEF Processing, alarm, Handles, TypeOK, Schedulers
  <2>2. rings'[o][m] = rings[o][m]
    BY <2>1, <1>1 DEF Processing, TypeOK
  <2> QED  BY <2>1, <2>2 DEF OffBeforeTheNext, Processing, alarm
<1>14. SinceBeforeNow'
  BY DEF SinceBeforeNow, Processing, alarm
<1> QED  BY <1>3, <1>4, <1>6, <1>7, <1>9, <1>10, <1>11, <1>12, <1>13, <1>14

\* Who has run all through the minute that ends has woken up in it, and so has
\* rung if it matched.
LEMMA NextMinuteKeeps == ASSUME IInv, NextMinute PROVE IInv'
<1> USE DEF IInv
<1>1. now \in Nat /\ now' = now + 1 /\ now' \in Minutes
  BY CalendarAssumption DEF NextMinute, TypeOK, Minutes
<1>2. TypeOK'
  BY <1>1 DEF NextMinute, TypeOK, alarm
<1>3. Handles'
  BY DEF NextMinute, Handles, alarm
<1>4. RingsInItsTime' /\ RingsOnce'
  BY <1>1 DEF NextMinute, RingsInItsTime, RingsOnce, alarm, TypeOK, Minutes
<1>5. Remembers'
  <2> SUFFICES ASSUME NEW j \in Schedulers
               PROVE  /\ rings'[j][now'] > 0 => doneTime'[j] = Calendar[now'].date
                      /\ doneTime'[j] # Nil => Rang(j, now, doneTime[j])'
    BY DEF Remembers
  <2>1. rings' = rings /\ doneTime' = doneTime
    BY DEF NextMinute
  <2>2. ~ (rings[j][now'] > 0)
    BY <1>1 DEF RingsInItsTime, TypeOK, Minutes
  <2>3. doneTime[j] # Nil => \E k \in 1 .. now : Calendar[k].date = doneTime[j] /\ rings[j][k] > 0
    BY DEF Remembers, Rang
  <2> QED  BY <2>1, <2>2, <2>3, <1>1 DEF Rang
<1>6. AwakeRang'
  BY DEF NextMinute, AwakeRang
<1>7. OldOnesRunAllThrough'
  BY DEF NextMinute, OldOnesRunAllThrough, alarm
<1>8. NoMinuteMissed'
  <2> SUFFICES ASSUME NEW j \in running', NEW m \in Minutes,
                      since'[j] < m, m < now', Matches(plan'[j], Calendar[m])
               PROVE  \E k \in 1 .. m : Calendar[k].date = Calendar[m].date /\ rings'[j][k] > 0
    BY DEF NoMinuteMissed
  <2>1. /\ running' = running /\ since' = since /\ plan' = plan /\ rings' = rings
        /\ whole \subseteq woken
    BY DEF NextMinute, alarm
  <2>2. CASE m < now
    BY <2>1, <2>2 DEF NoMinuteMissed
  <2>3. CASE m = now
    <3>1. j \in woken
      BY <2>1, <2>3 DEF OldOnesRunAllThrough
    <3>2. Rang(j, now, Calendar[now].date)
      BY <3>1, <2>1, <2>3 DEF AwakeRang
    <3> QED  BY <3>2, <2>1, <2>3 DEF Rang
  <2> QED  BY <2>2, <2>3, <1>1 DEF Minutes
<1>9. OffBeforeTheNext'
  BY DEF NextMinute, OffBeforeTheNext, alarm
<1>10. SinceBeforeNow'
  BY <1>1 DEF SinceBeforeNow, NextMinute, alarm, TypeOK, Minutes
<1> QED  BY <1>2, <1>3, <1>4, <1>5, <1>6, <1>7, <1>8, <1>9, <1>10

\* A new scheduler has rung nowhere, and its handle is the last.
LEMMA TurnOnKeeps == ASSUME IInv, TurnOn PROVE IInv'
<1> USE DEF IInv
<1>1. made + 1 \in Schedulers /\ made \in Nat /\ made' = made + 1
  BY BoundAssumption DEF TurnOn, TypeOK, Schedulers
<1>2. TypeOK'
  <2>1. made' \in 0 .. MaxSchedulers /\ 1 .. made' = (1 .. made) \cup {made + 1}
    <3>1. made + 1 \in 1 .. MaxSchedulers
      BY <1>1 DEF Schedulers
    <3> QED  BY <3>1, <1>1, BoundAssumption
  <2>2. running' \in SUBSET (1 .. made') /\ handle' \in running' \cup {Nil} /\ whole' \in SUBSET running'
    BY <2>1 DEF TurnOn, TypeOK, clock
  <2>3. since' \in [Schedulers -> Minutes] /\ plan' \in [Schedulers -> Schedules]
    BY DEF TurnOn, TypeOK
  <2> QED  BY <2>1, <2>2, <2>3 DEF TurnOn, TypeOK, clock
<1>3. Handles'
  BY <1>1 DEF TurnOn, Handles, clock
<1>4. \A m \in Minutes : ~ (rings[made + 1][m] > 0)
  BY <1>1 DEF RingsInItsTime
<1>5. \A j \in Schedulers \ {made + 1} : since'[j] = since[j] /\ plan'[j] = plan[j]
  BY DEF TurnOn, TypeOK
<1>6. since'[made + 1] = now /\ now \in Minutes /\ now' = now /\ rings' = rings /\ woken' = woken
  BY <1>1 DEF TurnOn, TypeOK, clock
<1>7. RingsInItsTime'
  BY <1>1, <1>4, <1>5, <1>6 DEF RingsInItsTime, Schedulers
<1>8. RingsOnce' /\ Remembers'
  BY <1>6 DEF RingsOnce, Remembers, Rang, TurnOn
<1>9. AwakeRang'
  <2> SUFFICES ASSUME NEW j \in woken', Matches(plan'[j], Calendar[now'])
               PROVE  Rang(j, now, Calendar[now].date)'
    BY DEF AwakeRang
  <2>1. j \in woken /\ j \in Schedulers \ {made + 1}
    BY <1>1, <1>6 DEF Handles, TypeOK, Schedulers
  <2> QED  BY <2>1, <1>5, <1>6 DEF AwakeRang, Rang
<1>10. OldOnesRunAllThrough'
  <2> SUFFICES ASSUME NEW j \in running', since'[j] < now' PROVE j \in whole'
    BY DEF OldOnesRunAllThrough
  <2>1. j # made + 1
    BY <1>6 DEF Minutes
  <2> QED  BY <2>1, <1>5, <1>6 DEF OldOnesRunAllThrough, TurnOn, clock, TypeOK, Schedulers
<1>11. NoMinuteMissed'
  <2> SUFFICES ASSUME NEW j \in running', NEW m \in Minutes,
                      since'[j] < m, m < now', Matches(plan'[j], Calendar[m])
               PROVE  \E k \in 1 .. m : Calendar[k].date = Calendar[m].date /\ rings'[j][k] > 0
    BY DEF NoMinuteMissed
  <2>1. j # made + 1
    BY <1>6 DEF Minutes
  <2>2. j \in running /\ j \in Schedulers
    BY <2>1, <1>1, MadeAreSchedulers DEF TurnOn
  <2> QED  BY <2>1, <2>2, <1>5, <1>6 DEF NoMinuteMissed
<1>12. OffBeforeTheNext'
  <2> SUFFICES ASSUME NEW o \in off', NEW j \in Schedulers, NEW m \in Minutes,
                      o < j, j <= made', rings'[o][m] > 0
               PROVE  m <= since'[j]
    BY DEF OffBeforeTheNext
  <2>1. o \in off /\ o \in Schedulers /\ rings[o][m] > 0
    BY <1>6, <1>1 DEF TurnOn, Handles, Schedulers, TypeOK
  <2>2. CASE j = made + 1
    BY <2>1, <2>2, <1>6 DEF RingsInItsTime
  <2>3. CASE j # made + 1
    BY <2>1, <2>3, <1>1, <1>5 DEF OffBeforeTheNext, Schedulers
  <2> QED  BY <2>2, <2>3
<1>13. SinceBeforeNow'
  BY <1>5, <1>6 DEF SinceBeforeNow, Minutes
<1> QED  BY <1>2, <1>3, <1>7, <1>8, <1>9, <1>10, <1>11, <1>12, <1>13

\* Switching schedulers off, a new Profile object and a restart change no ring
\* and no scheduler, only who runs and who has the handle.
LEMMA OthersKeep ==
    ASSUME IInv,
           UNCHANGED <<now, made, since, plan, doneTime, rings, woken>>,
           schedule' \in Schedules,
           running' \subseteq running, handle' \in {made, Nil}, handle' \in running' \cup {Nil},
           whole' = whole \cap running',
           off' \subseteq 1 .. made, off' \cap running' = {},
           \A i \in off' \ off : i = made
    PROVE  IInv'
<1> USE DEF IInv
<1>1. TypeOK'
  <2>1. off' \in SUBSET Schedulers /\ running' \in SUBSET (1 .. made)
    BY MadeAreSchedulers DEF TypeOK
  <2> QED  BY <2>1 DEF TypeOK
<1>2. Handles'
  BY DEF Handles
<1>3. RingsInItsTime' /\ RingsOnce' /\ Remembers' /\ AwakeRang' /\ SinceBeforeNow'
  BY DEF RingsInItsTime, RingsOnce, Remembers, AwakeRang, Rang, SinceBeforeNow
<1>4. OldOnesRunAllThrough' /\ NoMinuteMissed'
  BY DEF OldOnesRunAllThrough, NoMinuteMissed
<1>5. OffBeforeTheNext'
  <2> SUFFICES ASSUME NEW o \in off', NEW j \in Schedulers, NEW m \in Minutes,
                      o < j, j <= made', rings'[o][m] > 0
               PROVE  m <= since'[j]
    BY DEF OffBeforeTheNext
  <2>1. o # made
    BY BoundAssumption DEF TypeOK, Schedulers
  <2> QED  BY <2>1 DEF OffBeforeTheNext
<1> QED  BY <1>1, <1>2, <1>3, <1>4, <1>5

LEMMA NextKeeps == IInv /\ [Next]_vars => IInv'
<1> SUFFICES ASSUME IInv, [Next]_vars PROVE IInv'
  OBVIOUS
<1>1. CASE \E i \in Schedulers : Processing(i)
  BY <1>1, ProcessingKeeps
<1>2. CASE NextMinute
  BY <1>2, NextMinuteKeeps
<1>3. CASE TurnOn
  BY <1>3, TurnOnKeeps
<1>4. CASE TurnOff
  <2>1. handle # Nil => handle \in 1 .. made /\ handle = made
    BY DEF IInv, Handles, TypeOK
  <2>2. handle \notin running'
    BY <1>4 DEF TurnOff, Cleared
  <2>3. off' \subseteq 1 .. made /\ off' \cap running' = {}
    BY <1>4, <2>1, <2>2 DEF TurnOff, Cleared, IInv, Handles
  <2> QED  BY <1>4, <2>1, <2>3, OthersKeep DEF TurnOff, Cleared, HandleAfterEnd, IInv, TypeOK
<1>5. CASE \E s \in Schedules : Edit(s) \/ Replace(s)
  BY <1>5, OthersKeep DEF Edit, Replace, clock, alarm, IInv, TypeOK, Handles
<1>6. CASE Restart
  BY <1>6, OthersKeep DEF Restart, IInv, TypeOK, Handles
<1>7. CASE UNCHANGED vars
  BY <1>7, OthersKeep DEF vars, IInv, TypeOK, Handles
<1> QED  BY <1>1, <1>2, <1>3, <1>4, <1>5, <1>6, <1>7 DEF Next
-----------------------------------------------------------------------------
(* The theorems *)

\* The alarm keeps its inductive invariant through every request, wake-up and
\* restart (profile.node.js 84 to 118, profile_scheduler.node.js 63 to 113).
THEOREM AlarmInvariant == Spec => []IInv
  BY InitHolds, NextKeeps, PTL DEF Spec

\* Types, and a handle that is always that of a running scheduler
\* (profile.node.js 84 to 118).
THEOREM AlarmTypes == Spec => []TypeOK
<1>1. IInv => TypeOK
  BY DEF IInv
<1> QED  BY <1>1, AlarmInvariant, PTL

\* doneTime does its work (profile_scheduler.node.js 99 and 109): one ring a
\* minute, whatever clock the machine has.
THEOREM OneRingAMinute == Spec => []RingsOnce
<1>1. IInv => RingsOnce
  BY DEF IInv
<1> QED  BY <1>1, AlarmInvariant, PTL

\* An interval shorter than a minute misses no minute that matches.
THEOREM NothingSleptThrough == Spec => []NoMinuteMissed
<1>1. IInv => NoMinuteMissed
  BY DEF IInv
<1> QED  BY <1>1, AlarmInvariant, PTL

\* Two schedulers of one profile ring in one minute only by the two ways the
\* property names.
THEOREM DoubleRingsExplained == Spec => []TwiceOnlyIfLost
<1>1. IInv => TwiceOnlyIfLost
  <2> SUFFICES ASSUME IInv, NEW i \in Schedulers, NEW j \in Schedulers, NEW m \in Minutes,
                      i < j, rings[i][m] > 0, rings[j][m] > 0, i \in off
               PROVE  since[j] = m
    BY DEF TwiceOnlyIfLost
  <2>1. since[j] <= m /\ j <= made
    BY DEF IInv, RingsInItsTime
  <2>2. m <= since[j]
    BY <2>1 DEF IInv, OffBeforeTheNext
  <2> QED  BY <2>1, <2>2 DEF IInv, TypeOK, Minutes
<1> QED  BY <1>1, AlarmInvariant, PTL
=============================================================================
