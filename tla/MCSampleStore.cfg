\* Buckets of 2, 4 and 8 units; a pass at every unit, and samples kept for two.
CONSTANTS
    Minute = 2
    Hour = 4
    Day = 8
    MinuteAge = 1
    HourAge = 2
    DayAge = 4
    RawKept = 2
    MinutesKept = 3
    HoursKept = 4
    Interval = 1
    MaxClock = 6
    MaxRx = 1
SPECIFICATION StoreSpec
INVARIANTS
    AggregatedOnce
