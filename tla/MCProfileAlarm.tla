--------------------------- MODULE MCProfileAlarm ---------------------------
(* TLC instances of ProfileAlarm. *)
EXTENDS ProfileAlarm

At(month, week, day, hour, min, date) ==
    [month |-> month, week |-> week, day |-> day, hour |-> hour, min |-> min, date |-> date]

\* A night in which the clock is set back from two to one o'clock after 01:30.
MCNight == <<At(9, 0, 28, 1, 0, "28T01_00"), At(9, 0, 28, 1, 30, "28T01_30"),
             At(9, 0, 28, 1, 59, "28T01_59"), At(9, 0, 28, 1, 0, "28T01_00"),
             At(9, 0, 28, 1, 30, "28T01_30")>>

\* The last minutes of a Saturday in January and the first of February.
MCMonthEnd == <<At(0, 6, 31, 23, 58, "31T23_58"), At(0, 6, 31, 23, 59, "31T23_59"),
                At(1, 0, 1, 0, 0, "01T00_00"), At(1, 0, 1, 0, 1, "01T00_01")>>

Schedule(months, weeks, days, hours, mins) ==
    [f \in Fields |-> CASE f = "months" -> months [] f = "weeks" -> weeks
                        [] f = "days" -> days [] f = "hours" -> hours [] OTHER -> mins]

\* Every half hour; at half past one; on Sundays at one.
MCNightSchedules == {Schedule({}, {}, {}, {}, {}), Schedule({}, {}, {28}, {1}, {30}),
                     Schedule({}, {0}, {1}, {1}, {0})}

\* Midnight in January by the documentation; what the form for new profiles
\* posts; the last minute of the day on Saturdays.
MCMonthSchedules == {Schedule({1}, {}, {}, {0}, {0}),
                     Schedule({Blank}, {Blank}, {Blank}, {Blank}, {Blank}),
                     Schedule({}, {6}, {1}, {23}, {59})}
=============================================================================
