---------------------------- MODULE CalendarProofs ----------------------------
EXTENDS Calendar, TLAPS

(* The pair (date, time) of an instant determines it. *)
LEMMA SplitInstant ==
    ASSUME NEW t \in Int
    PROVE  /\ Today(t) \in Int
           /\ CurrentTime(t) \in 0..(DayLength - 1)
           /\ t = Today(t) * DayLength + CurrentTime(t)
  BY DayLengthAssumption DEF Today, CurrentTime

(* A whole day separates two instants of different dates. *)
LEMMA DatesOrderInstants ==
    ASSUME NEW d \in Int, NEW e \in Int, d < e,
           NEW x \in 0..(DayLength - 1), NEW y \in 0..(DayLength - 1)
    PROVE  d * DayLength + x < e * DayLength + y
<1>1. (d + 1) * DayLength <= e * DayLength
  BY DayLengthAssumption
<1>2. (d + 1) * DayLength = d * DayLength + DayLength
  BY DayLengthAssumption
<1>3. d * DayLength \in Int /\ e * DayLength \in Int
  BY DayLengthAssumption
<1> QED
  BY <1>1, <1>2, <1>3, DayLengthAssumption

(* Comparing dates first and times second is comparing instants: the text  *)
(* comparison occupiesClientKey makes is the chronological one.            *)
THEOREM FutureIsChronological ==
    ASSUME NEW t \in Int, NEW slot, slot.date \in Int, slot.timeSlot \in 0..(DayLength - 1)
    PROVE  IsFuture(slot, t) <=> StartsAt(slot) > t
<1> DEFINE d == slot.date
           x == slot.timeSlot
           e == Today(t)
           y == CurrentTime(t)
<1>1. /\ d \in Int /\ x \in 0..(DayLength - 1)
      /\ e \in Int /\ y \in 0..(DayLength - 1)
      /\ t = e * DayLength + y
      /\ StartsAt(slot) = d * DayLength + x
  BY SplitInstant DEF StartsAt
<1>2. IsFuture(slot, t) <=> (d > e \/ (d = e /\ x > y))
  BY DEF IsFuture
<1> HIDE DEF d, x, e, y
<1>3. CASE d > e
  BY <1>1, <1>2, <1>3, DatesOrderInstants
<1>4. CASE d < e
  <2>1. d * DayLength + x < e * DayLength + y
    BY <1>1, <1>4, DatesOrderInstants
  <2> QED
    BY <1>1, <1>2, <1>4, <2>1, DayLengthAssumption
<1>5. CASE d = e
  BY <1>1, <1>2, <1>5, DayLengthAssumption
<1> QED
  BY <1>1, <1>3, <1>4, <1>5

===============================================================================
