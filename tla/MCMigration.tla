----------------------------- MODULE MCMigration -----------------------------
(* Instances of Migration for TLC.                                           *)
EXTENDS Migration

CONSTANTS a1, a2, a3, p1, anna, boss, luis

Slot(d, h) == [barber |-> luis, date |-> d, timeSlot |-> h]

OnOffer == {Slot(0, 1), Slot(1, 0), Slot(1, 1)}

\* Reservations as they were written before there were keys
Old(status, client, slot) ==
    [NoAppt EXCEPT !.status = status, !.client = client, !.slot = slot,
                   !.slotKey = IF status \in HeldStatuses THEN slot ELSE Null]

NoReservations == [a \in Appts |-> NoAppt]

AsInserted == [a \in Appts |-> IF a = a1 THEN 1 ELSE IF a = a2 THEN 2 ELSE 3]
ConfirmOrMoveAhead == {StatusDto("confirmed"), [NoDto EXCEPT !.date = 1, !.timeSlot = 0]}
OldDatabases ==
    {[NoReservations EXCEPT ![a1] = first, ![a2] = second] :
        first \in {Old("pending", anna, Slot(0, 1)), Old("confirmed", anna, Slot(1, 0)),
                  Old("cancelled", anna, Slot(1, 0))},
        second \in {Old("pending", anna, Slot(1, 1)), NoAppt}}
===============================================================================
