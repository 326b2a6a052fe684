\* A confirmation that read the reservation before it was moved rewrites the
\* slot key of the slot it left: the slot it moved to is unprotected.
SPECIFICATION Spec
CONSTANTS
    DayLength = 2
    Users = {boss}
    Admins = {boss}
    Barbers = {luis}
    Appts = {a1, a2}
    Requests = {p1, p2, p3}
    Days = {0, 1}
    Hours = {0, 1}
    Null = Null
    Notice = 1
    WindowDays = 1
    MaxNow = 0
    Dtos <- ConfirmOrMove
    OpeningAgenda <- LateSlots
    Endpoints = {"create", "patch"}
    a1 = a1  a2 = a2  p1 = p1  p2 = p2  p3 = p3
    anna = anna  boss = boss  luis = luis  marta = marta
SYMMETRY Identical
INVARIANTS OneHolderPerSlot
