CONSTANTS
    SecondsPerMinute = 2
    MinutesPerDay = 24
    UtcOffset <- NewYork
    Horizon = 64
    MaxLength = 9
    RuleTimes = {0, 9, 17}

SPECIFICATION Spec

INVARIANT ParsedDaysAreTheRange
INVARIANT ShownRuleReadsBack
INVARIANT OpenThroughout
INVARIANT DayRangeIsTheDay

CHECK_DEADLOCK FALSE
