-------------------------- MODULE SantiagoTimeProofs --------------------------
EXTENDS SantiagoTime, TLAPS

-------------------------------------------------------------------------------
\* The search, by its attempts

Offset(z, t) == IF t < z.change THEN z.before ELSE z.after

\* What the search looks at after one and after two corrections
Second(z, w) == w - Offset(z, w)
Third(z, w) == w - Offset(z, Second(z, w))

\* The search looks at its guesses in order, and goes on to the next one only
\* after it has seen that this one shows another time.
SearchInv ==
    /\ zone \in Zones /\ wallClock \in WallClocks
    /\ timestamp \in Int /\ attempt \in 0..3
    /\ outcome \in {"searching", "found", "failed"}
    /\ attempt = 0 => timestamp = wallClock
    /\ attempt = 1 => timestamp = Second(zone, wallClock)
    /\ attempt = 2 => timestamp = Third(zone, wallClock)
    /\ attempt >= 1 => Local(zone, wallClock) # wallClock
    /\ attempt >= 2 => Local(zone, Second(zone, wallClock)) # wallClock
    /\ attempt = 3 => Local(zone, Third(zone, wallClock)) # wallClock
    /\ outcome = "found" => Local(zone, timestamp) = wallClock /\ attempt < 3
    /\ outcome = "failed" => attempt = 3

LEMMA ZoneFacts ==
    ASSUME NEW z \in Zones
    PROVE  /\ z.change \in Int /\ z.before \in Int /\ z.after \in Int
           /\ z.before < 0 /\ z.after < 0 /\ z.before - z.after < DayLength
           /\ (z.change + z.before) % DayLength = 0
  BY ZonesAssumption DEF ZoneType

(* A correction takes the search to the instant that the offset it has just *)
(* observed makes of the wall clock.                                        *)
LEMMA CorrectionIsOffset ==
    ASSUME NEW z \in Zones, NEW w \in Int, NEW t \in Int
    PROVE  /\ Local(z, t) \in Int /\ Offset(z, t) \in Int
           /\ t + (w - Observed(z, t)) = w - Offset(z, t)
           /\ w - Observed(z, t) = 0 <=> Local(z, t) = w
  BY ZoneFacts DEF Local, Observed, Offset

LEMMA InitSearch == TimeInit => SearchInv
  BY ZonesAssumption DEF TimeInit, SearchInv, FirstGuess

LEMMA CorrectSearch ==
    ASSUME SearchInv, Correct
    PROVE  SearchInv'
<1> DEFINE z == zone
           w == wallClock
           t == timestamp
<1>1. z \in Zones /\ w \in Int /\ t \in Int /\ attempt \in 0..2
  BY ZonesAssumption DEF SearchInv, Correct, MaxAttempts
<1>2. UNCHANGED <<zone, wallClock>>
  BY DEF Correct
<1>3. CASE w - Observed(z, t) = 0
  <2>1. Local(z, t) = w
    BY <1>1, <1>3, CorrectionIsOffset
  <2>2. outcome' = "found" /\ UNCHANGED <<timestamp, attempt>>
    BY <1>3 DEF Correct
  <2> QED
    BY <1>1, <1>2, <2>1, <2>2 DEF SearchInv
<1>4. CASE w - Observed(z, t) # 0
  <2>1. /\ timestamp' = t + (w - Observed(z, t)) /\ attempt' = attempt + 1
        /\ outcome' = "searching"
    BY <1>4 DEF Correct
  <2>2. Local(z, t) # w
    BY <1>1, <1>4, CorrectionIsOffset
  <2>3. timestamp' = w - Offset(z, t) /\ timestamp' \in Int
    BY <1>1, <2>1, CorrectionIsOffset
  <2> HIDE DEF z, w, t
  <2>4. CASE attempt = 0
    BY <1>1, <1>2, <2>1, <2>2, <2>3, <2>4 DEF SearchInv, Second, z, w, t
  <2>5. CASE attempt = 1
    BY <1>1, <1>2, <2>1, <2>2, <2>3, <2>5 DEF SearchInv, Third, z, w, t
  <2>6. CASE attempt = 2
    BY <1>1, <1>2, <2>1, <2>2, <2>3, <2>6 DEF SearchInv, z, w, t
  <2> QED
    BY <1>1, <2>4, <2>5, <2>6
<1> QED
  BY <1>3, <1>4

LEMMA NextSearch == ASSUME SearchInv, [TimeNext]_timeVars PROVE SearchInv'
<1>1. CASE Fail
  BY <1>1 DEF Fail, MaxAttempts, SearchInv
<1>2. CASE UNCHANGED timeVars
  BY <1>2 DEF timeVars, SearchInv
<1> QED
  BY <1>1, <1>2, CorrectSearch DEF TimeNext

LEMMA SearchInvariant == TimeSpec => []SearchInv
  BY InitSearch, NextSearch, PTL DEF TimeSpec

-------------------------------------------------------------------------------
\* What the search finds

(* The clock shows a time at no other instants than those of Occurrences. *)
LEMMA OccurrencesAreAll ==
    ASSUME NEW z \in Zones, NEW w \in Int, NEW t \in Int
    PROVE  t \in Occurrences(z, w) <=> Local(z, t) = w
  BY ZoneFacts DEF Occurrences, Local

(* If the clock ever shows the time, one of the three guesses is it. *)
LEMMA GuessesAreEnough ==
    ASSUME NEW z \in Zones, NEW w \in Int,
           Local(z, Second(z, w)) # w, Local(z, Third(z, w)) # w
    PROVE  Occurrences(z, w) = {}
<1>1. SUFFICES ASSUME NEW t \in Int, Local(z, t) = w PROVE FALSE
  BY ZoneFacts, <1>1 DEF Occurrences
<1> QED
  BY <1>1, ZoneFacts DEF Local, Second, Third, Offset

(* A time that is found is found at its first occurrence: behind UTC, the   *)
(* wall clock taken for an instant is before the time it stands for.        *)
LEMMA FoundIsFirst ==
    ASSUME NEW z \in Zones, NEW w \in Int, NEW t \in Int, Local(z, t) = w,
           \/ t = w
           \/ t = Second(z, w)
           \/ t = Third(z, w) /\ Local(z, Second(z, w)) # w
    PROVE  \A u \in Int : Local(z, u) = w => t <= u
  BY ZoneFacts DEF Local, Second, Third, Offset

LEMMA FoundFacts ==
    ASSUME SearchInv, outcome = "found"
    PROVE  /\ zone \in Zones /\ wallClock \in Int /\ timestamp \in Int
           /\ Local(zone, timestamp) = wallClock
           /\ \A u \in Int : Local(zone, u) = wallClock => timestamp <= u
<1>1. /\ zone \in Zones /\ wallClock \in Int /\ timestamp \in Int
      /\ Local(zone, timestamp) = wallClock /\ attempt \in 0..2
  BY ZonesAssumption DEF SearchInv
<1>2. \/ timestamp = wallClock
      \/ timestamp = Second(zone, wallClock)
      \/ timestamp = Third(zone, wallClock) /\ Local(zone, Second(zone, wallClock)) # wallClock
  BY <1>1 DEF SearchInv
<1> QED
  BY <1>1, <1>2, FoundIsFirst

(* The search finds every time that exists, and fails for no other, in every *)
(* zone whose offset changes once.                                           *)
THEOREM SearchIsComplete == TimeSpec => []TimeIsFound
<1>1. SearchInv => TimeIsFound
  <2> SUFFICES ASSUME SearchInv PROVE TimeIsFound
    OBVIOUS
  <2>1. CASE outcome = "found"
    BY <2>1, FoundFacts, OccurrencesAreAll DEF TimeIsFound
  <2>2. CASE outcome = "failed"
    BY <2>2, GuessesAreEnough, ZonesAssumption DEF TimeIsFound, SearchInv
  <2> QED
    BY <2>1, <2>2 DEF TimeIsFound
<1> QED
  BY <1>1, SearchInvariant, PTL

(* A time that the clock shows twice is taken for the first one. *)
THEOREM FirstIsMeant == TimeSpec => []FirstOfTwo
<1>1. SearchInv => FirstOfTwo
  BY FoundFacts, ZoneFacts DEF FirstOfTwo, Occurrences
<1> QED
  BY <1>1, SearchInvariant, PTL

(* Outside the second pass the clock runs forward, so that comparing times    *)
(* on the wall clock is comparing instants.                                   *)
LEMMA ClockRunsForward ==
    ASSUME NEW z \in Zones, NEW t \in Int, NEW u \in Int,
           ~SecondPass(z, t), \A v \in Int : Local(z, v) = Local(z, u) => u <= v
    PROVE  Local(z, t) < Local(z, u) <=> t < u
<1>1. ~SecondPass(z, u)
  <2> SUFFICES ASSUME SecondPass(z, u) PROVE FALSE
    OBVIOUS
  <2> DEFINE v == u + z.after - z.before
  <2>1. v \in Int /\ v < u /\ Local(z, v) = Local(z, u)
    BY ZoneFacts DEF SecondPass, Local
  <2> QED
    BY <2>1
<1> QED
  BY <1>1, ZoneFacts DEF SecondPass, Local

(* The text comparisons of the service and the instants of the job and the  *)
(* links agree but for the second pass.                                     *)
THEOREM TextOrderIsTimeOrder == TimeSpec => []TextIsTime
<1>1. SearchInv => TextIsTime
  <2> SUFFICES ASSUME SearchInv, outcome = "found", NEW t \in Moments, ~SecondPass(zone, t)
               PROVE  Local(zone, t) < wallClock <=> t < timestamp
    BY DEF TextIsTime
  <2>1. t \in Int
    BY ZonesAssumption
  <2> QED
    BY <2>1, FoundFacts, ClockRunsForward
<1> QED
  BY <1>1, SearchInvariant, PTL

-------------------------------------------------------------------------------
\* Dates

LEMMA Multiples ==
    ASSUME NEW D \in Nat, NEW i \in Int, NEW k \in Int, D * i < (D * k) + D
    PROVE  i <= k
<1> SUFFICES ASSUME i - k - 1 \in Nat PROVE FALSE
  OBVIOUS
<1>1. D * (i - k - 1) >= 0
  OBVIOUS
<1>2. D * (i - k - 1) = (D * i) - (D * k) - D
  OBVIOUS
<1>3. D * i \in Int /\ D * k \in Int
  OBVIOUS
<1> QED
  BY <1>1, <1>2, <1>3

LEMMA DateFacts ==
    ASSUME NEW w \in Int
    PROVE  /\ DateOf(w) \in Int /\ DayLength * DateOf(w) \in Int
           /\ DayLength * DateOf(w) <= w
           /\ w < (DayLength * DateOf(w)) + DayLength
           /\ w % DayLength = 0 => w = DayLength * DateOf(w)
<1>1. DayLength \in Nat /\ DayLength > 0
  BY ZonesAssumption
<1>2. /\ w \div DayLength \in Int /\ w % DayLength \in 0..(DayLength - 1)
      /\ w = (DayLength * (w \div DayLength)) + (w % DayLength)
  BY <1>1
<1>3. DayLength * (w \div DayLength) \in Int
  BY <1>1, <1>2
<1> QED
  BY <1>1, <1>2, <1>3 DEF DateOf

LEMMA DatesAreOrdered ==
    ASSUME NEW v \in Int, NEW w \in Int, v <= w
    PROVE  DateOf(v) <= DateOf(w)
<1>1. /\ DateOf(v) \in Int /\ DayLength * DateOf(v) \in Int
      /\ DayLength * DateOf(v) <= v
  BY DateFacts
<1>2. /\ DateOf(w) \in Int /\ DayLength * DateOf(w) \in Int
      /\ w < (DayLength * DateOf(w)) + DayLength
  BY DateFacts
<1>3. DayLength \in Nat
  BY ZonesAssumption
<1>4. DayLength * DateOf(v) < (DayLength * DateOf(w)) + DayLength
  BY <1>1, <1>2, <1>3
<1> QED
  BY <1>1, <1>2, <1>3, <1>4, Multiples

(* The date before midnight m is that of every moment of the day before it. *)
LEMMA DayBefore ==
    ASSUME NEW m \in Int, m % DayLength = 0, NEW w \in Int
    PROVE  /\ w < m => DateOf(w) <= DateOf(m) - 1
           /\ m - DayLength <= w => DateOf(m) - 1 <= DateOf(w)
<1>1. DayLength \in Nat
  BY ZonesAssumption
<1>2. /\ DateOf(m) \in Int /\ DayLength * DateOf(m) \in Int
      /\ m = DayLength * DateOf(m)
  BY DateFacts
<1>3. /\ DateOf(w) \in Int /\ DayLength * DateOf(w) \in Int
      /\ DayLength * DateOf(w) <= w
      /\ w < (DayLength * DateOf(w)) + DayLength
  BY DateFacts
<1>4. DayLength * (DateOf(m) - 1) = (DayLength * DateOf(m)) - DayLength
  BY <1>1, <1>2
<1>5. /\ DateOf(m) - 1 \in Int
      /\ ((DayLength * DateOf(m)) - DayLength) + DayLength = DayLength * DateOf(m)
  BY <1>1, <1>2
<1>6. ASSUME w < m PROVE DateOf(w) <= DateOf(m) - 1
  <2>1. DayLength * DateOf(w) < (DayLength * (DateOf(m) - 1)) + DayLength
    BY <1>2, <1>3, <1>4, <1>5, <1>6
  <2> QED
    BY <2>1, <1>1, <1>3, <1>5, Multiples
<1>7. ASSUME m - DayLength <= w PROVE DateOf(m) - 1 <= DateOf(w)
  <2>1. DayLength * (DateOf(m) - 1) < (DayLength * DateOf(w)) + DayLength
    BY <1>1, <1>2, <1>3, <1>4, <1>7
  <2> QED
    BY <2>1, <1>1, <1>3, <1>5, Multiples
<1> QED
  BY <1>6, <1>7

(* The completion job overlooks nothing that is due, since the clock is only *)
(* put back to the same date.                                                *)
THEOREM DatesNarrowSoundly == TimeSpec => []NothingDueIsOverlooked
<1>1. SearchInv => NothingDueIsOverlooked
  <2> SUFFICES ASSUME SearchInv, outcome = "found", NEW t \in Moments, timestamp <= t
               PROVE  DateOf(wallClock) <= DateOf(Local(zone, t))
    BY DEF NothingDueIsOverlooked
  <2> DEFINE m == zone.change + zone.before
             l == Local(zone, t)
             w == wallClock
  <2>1. /\ t \in Int /\ w \in Int /\ l \in Int /\ m \in Int /\ m % DayLength = 0
        /\ DayLength \in Nat
    BY FoundFacts, ZoneFacts, ZonesAssumption DEF Local
  <2>2. CASE SecondPass(zone, t)
    <3>1. w < m /\ m - DayLength <= l
      BY <2>1, <2>2, FoundFacts, ZoneFacts DEF SecondPass, Local
    <3> HIDE DEF w, m, l
    <3>2. DateOf(w) <= DateOf(m) - 1 /\ DateOf(m) - 1 <= DateOf(l)
      BY <2>1, <3>1, DayBefore
    <3>3. DateOf(w) \in Int /\ DateOf(m) \in Int /\ DateOf(l) \in Int
      BY <2>1, DateFacts
    <3>4. DateOf(w) <= DateOf(l)
      BY <3>2, <3>3
    <3> QED
      BY <3>4 DEF w, l
  <2>3. CASE ~SecondPass(zone, t)
    <3>1. ~(l < w)
      BY <2>1, <2>3, FoundFacts, ClockRunsForward
    <3> HIDE DEF w, l
    <3>2. w <= l
      BY <2>1, <3>1
    <3>3. DateOf(w) <= DateOf(l)
      BY <2>1, <3>2, DatesAreOrdered
    <3> QED
      BY <3>3 DEF w, l
  <2> QED
    BY <2>2, <2>3
<1> QED
  BY <1>1, SearchInvariant, PTL

===============================================================================
