---------------------------- MODULE MCAppointments ----------------------------
(* Instances of Appointments for TLC.  A day has two ticks of twelve hours:  *)
(* the notice is one tick and the completion delay two.                      *)
EXTENDS Appointments, TLC

CONSTANTS a1, a2, p1, p2, p3, anna, boss, luis, marta

Identical == Permutations(Appts) \cup Permutations(Requests)

Slot(b, d, h) == [barber |-> b, date |-> d, timeSlot |-> h]

\* Moves to another slot of the same barber, with and without a status
Moves(slots) == {[NoDto EXCEPT !.date = s.date, !.timeSlot = s.timeSlot] : s \in slots}

ConfirmOrMove == {StatusDto("confirmed")} \cup Moves({Slot(luis, 1, 1)})
MissOrMove == {StatusDto("no_show"), [NoDto EXCEPT !.status = "confirmed", !.timeSlot = 0],
               [NoDto EXCEPT !.barber = marta, !.timeSlot = 1]}
MissOrMoveLater == {StatusDto("no_show"),
                    [NoDto EXCEPT !.status = "confirmed", !.date = 1, !.timeSlot = 1]}
CloseOrMove == {StatusDto("confirmed"), StatusDto("completed")}
                  \cup Moves({Slot(luis, 0, 0), Slot(luis, 1, 0)})

CompleteAndMove == {StatusDto("confirmed"),
                    [NoDto EXCEPT !.status = "completed", !.date = 1, !.timeSlot = 0]}

ADayApart == {Slot(luis, 0, 0), Slot(luis, 1, 0)}

DecideOrMove == {StatusDto("cancelled"), StatusDto("confirmed"), [NoDto EXCEPT !.timeSlot = 1]}

LateSlots == {Slot(luis, 1, 0), Slot(luis, 1, 1)}
TodayOnly == [barber: {luis, marta}, date: {0}, timeSlot: {0, 1}]
NothingYet == {}
ThreeSlots == {Slot(luis, 0, 1), Slot(luis, 1, 0), Slot(luis, 1, 1)}
===============================================================================
