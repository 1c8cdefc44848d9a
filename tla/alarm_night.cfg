SPECIFICATION Spec
CONSTANTS
    Calendar <- MCNight
    Schedules <- MCNightSchedules
    Blank = Blank
    Nil = Nil
    MaxSchedulers = 2
INVARIANTS
    TypeOK
    RingsOnce
    NoMinuteMissed
    TwiceOnlyIfLost
