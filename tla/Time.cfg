\* Every half hour of three days, with the clock put back or forward after the
\* first.  A search stops once it has ended.
SPECIFICATION TimeSpec
CONSTANTS
    DayLength = 48
    Zones <- BothChanges
    WallClocks <- ThreeDays
    Moments <- AroundThem
INVARIANTS TimeIsFound FirstOfTwo TextIsTime NothingDueIsOverlooked
CHECK_DEADLOCK FALSE
