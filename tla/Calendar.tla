------------------------------- MODULE Calendar -------------------------------
(***************************************************************************)
(* The business clock of the reservation code (common/time/santiago-time.ts*)
(* and the comparisons of appointments.service.ts that use it).            *)
(*                                                                         *)
(* An instant is a natural number of ticks.  The service never compares    *)
(* instants with slots directly: it splits the instant into a local date   *)
(* and a local time and compares the pair, as text, with the date and the  *)
(* timeSlot of the slot.  The text is fixed-width, so the order is that of *)
(* the numbers; a tick stands for any unit that divides a day.  The offset *)
(* of the time zone is constant here (README, "Time").                     *)
(***************************************************************************)
EXTENDS Integers

CONSTANT DayLength      \* ticks in a day: 24 hours

ASSUME DayLengthAssumption == DayLength \in Nat \ {0}

\* getSantiagoDateTime: the local date and the local time of an instant
Today(t) == t \div DayLength
CurrentTime(t) == t % DayLength

\* getSantiagoAppointmentTimestamp: the instant at which a slot starts
StartsAt(slot) == slot.date * DayLength + slot.timeSlot

\* The slot starts strictly after t (occupiesClientKey, and the filter of
\* getNonExpiredActiveAppointmentFilter).
IsFuture(slot, t) ==
    \/ slot.date > Today(t)
    \/ slot.date = Today(t) /\ slot.timeSlot > CurrentTime(t)

\* isAppointmentSlotExpired: a slot that starts exactly at t is not expired,
\* and is not in the future either.
IsExpired(slot, t) ==
    \/ slot.date < Today(t)
    \/ slot.date = Today(t) /\ slot.timeSlot < CurrentTime(t)

===============================================================================
