SPECIFICATION Spec
CONSTANTS
    Calendar <- MCMonthEnd
    Schedules <- MCMonthSchedules
    Blank = Blank
    Nil = Nil
    MaxSchedulers = 1
INVARIANTS
    MonthsAreNumberedFromOne
