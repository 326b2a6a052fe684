----------------------------- MODULE SantiagoTime -----------------------------
(***************************************************************************)
(* common/time/santiago-time.ts: from the date and the time on the clock   *)
(* of the shop to an instant, in a time zone whose offset changes.  The    *)
(* code knows no offset: it can only format an instant as a local date and *)
(* time.  It takes the wall clock for an instant, looks at what that is in *)
(* Santiago, and corrects it, three times at most.                         *)
(*                                                                         *)
(* A tick is a unit that divides offsets and times of day (a minute in the *)
(* code); a date and a time are a number of ticks on the wall clock.       *)
(***************************************************************************)
EXTENDS Integers

CONSTANTS
    DayLength,      \* ticks in a day: 24 hours
    Zones,          \* a change of the offset, and the offsets around it
    WallClocks,     \* the dates and times that are resolved
    Moments         \* the instants that they are compared with

ZoneType == [change: Int, before: Int, after: Int]

\* The clock of Santiago is behind UTC.  It is put back or forward at midnight,
\* by less than a day.
ASSUME ZonesAssumption ==
    /\ DayLength \in Nat \ {0}
    /\ Zones \subseteq ZoneType
    /\ WallClocks \subseteq Int /\ Moments \subseteq Int
    /\ \A z \in Zones : /\ z.before < 0 /\ z.after < 0
                        /\ z.before - z.after < DayLength
                        /\ (z.change + z.before) % DayLength = 0

VARIABLES
    zone,           \* where the code runs: never changes
    wallClock, timestamp, attempt,
    outcome         \* "searching", then "found" or "failed"

timeVars == <<zone, wallClock, timestamp, attempt, outcome>>

\* The wall clock in Santiago at instant t
Local(z, t) == t + (IF t < z.change THEN z.before ELSE z.after)

\* mutant: the formatter is not told the time zone
ObservedInUTC(z, t) == t

\* getSantiagoDateTime
Observed(z, t) == Local(z, t)

\* mutant: the first guess is the standard time of the zone
StandardTime(z, w) == w - z.after

\* The first guess is the wall clock as if it were UTC.
FirstGuess(z, w) == w

\* mutant: one correction is enough
TwoAttempts == 2
MaxAttempts == 3

TimeInit ==
    /\ zone \in Zones
    /\ wallClock \in WallClocks
    /\ timestamp = FirstGuess(zone, wallClock)
    /\ attempt = 0
    /\ outcome = "searching"

Correct ==
    LET correction == wallClock - Observed(zone, timestamp) IN
    /\ outcome = "searching" /\ attempt < MaxAttempts
    /\ IF correction = 0
       THEN outcome' = "found" /\ UNCHANGED <<timestamp, attempt>>
       ELSE /\ timestamp' = timestamp + correction
            /\ attempt' = attempt + 1
            /\ UNCHANGED outcome
    /\ UNCHANGED <<zone, wallClock>>

\* RangeError: the time does not exist.
Fail ==
    /\ outcome = "searching" /\ attempt = MaxAttempts
    /\ outcome' = "failed"
    /\ UNCHANGED <<zone, wallClock, timestamp, attempt>>

TimeNext == Correct \/ Fail

TimeSpec == TimeInit /\ [][TimeNext]_timeVars

-------------------------------------------------------------------------------
\* Properties

\* When the clock of Santiago shows w: never, once or twice
Occurrences(z, w) == {t \in {w - z.before, w - z.after} : Local(z, t) = w}

\* The search ends with an instant of the wall clock, and fails only for a time
\* that the change of the clock leaves out: three attempts are enough.
TimeIsFound ==
    /\ outcome = "found" => timestamp \in Occurrences(zone, wallClock)
    /\ outcome = "failed" => Occurrences(zone, wallClock) = {}

\* Of a time that comes twice the first is meant, by every caller.
FirstOfTwo ==
    outcome = "found" => \A t \in Occurrences(zone, wallClock) : timestamp <= t

\* The clock has been put back and shows again what it has shown.
SecondPass(z, t) == z.change <= t /\ t < z.change + z.before - z.after

\* Comparing dates and times as the service does, on the wall clock, agrees
\* with comparing instants, as the job and the links do, except while the clock
\* shows a time for the second time.
TextIsTime ==
    outcome = "found" =>
        \A t \in Moments : ~SecondPass(zone, t) =>
            (Local(zone, t) < wallClock <=> t < timestamp)

DateOf(w) == w \div DayLength

\* The completion job looks only at reservations whose date is not after that of
\* its cutoff, and overlooks none that started by then, also when the clock is
\* put back between the two.
NothingDueIsOverlooked ==
    outcome = "found" =>
        \A t \in Moments : timestamp <= t => DateOf(wallClock) <= DateOf(Local(zone, t))

===============================================================================
