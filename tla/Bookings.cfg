\* A client books and cancels while an administrator confirms, closes and moves
\* the client's reservations, and the client becomes an administrator, is a
\* client again, or is removed.
SPECIFICATION OverlapSpec
CONSTANTS
    DayLength = 2
    Users = {anna}
    Admins = {}
    Barbers = {luis}
    Appts = {a1, a2}
    Requests = {p1, p2}
    Days = {0, 1}
    Hours = {0, 1}
    Null = Null
    Notice = 1
    WindowDays = 1
    MaxNow = 1
    Dtos <- MissOrMoveLater
    OpeningAgenda <- ThreeSlots
    Endpoints = {"create", "patch", "cancelMine", "role", "account"}
    a1 = a1  a2 = a2  p1 = p1  p2 = p2  p3 = p3
    anna = anna  boss = boss  luis = luis  marta = marta
SYMMETRY Identical
INVARIANTS OneAheadEach AheadHoldsKey
