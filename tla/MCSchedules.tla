----------------------------- MODULE MCSchedules -----------------------------
(* Instances of Schedules for TLC.  A day has four ticks and a slot two, so  *)
(* that blocks and slots can cross by half.                                  *)
EXTENDS Schedules, TLC

CONSTANTS a1, a2, p1, p2, t1, t2, k1, k2, boss, luis

Identical == Permutations(Appts) \cup Permutations(Requests) \cup Permutations(Tasks)

Block(s, e) == [start |-> s, end |-> e]
DayWith(d, hours, breaks) ==
    [barber |-> luis, date |-> d, isDayOff |-> FALSE, workingHours |-> hours, breakTimes |-> breaks]

Cancels == {StatusDto("cancelled")}
Decisions == Cancels \cup {StatusDto("confirmed"), StatusDto("completed")}

\* One working day of one block, with room for another before it
OneDay == [k \in {k1} |-> DayWith(0, {Block(2, 4)}, {})]
OneDayOffer == {[barber |-> luis, date |-> 0, timeSlot |-> 2]}
\* Two documents, the second one free
FirstDayAndRoom == [k \in {k1, k2} |-> IF k = k1 THEN DayWith(0, {Block(1, 3)}, {}) ELSE Null]
FirstDayOffer == {[barber |-> luis, date |-> 0, timeSlot |-> 1]}
\* Blocks that touch, cross by half, and coincide
Blocks3 == {Block(0, 2), Block(1, 3), Block(2, 4)}
LateBlocks == {Block(1, 3), Block(2, 4)}
\* A body with other hours, whose block crosses its own break
Bodies == {DayWith(0, {Block(2, 4)}, {Block(2, 3)})}
===============================================================================
