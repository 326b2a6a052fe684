\* Accounts, barbers and schedules change while a reservation is made, decided,
\* moved and archived.
SPECIFICATION Spec
CONSTANTS
    DayLength = 2
    Users = {anna}
    Admins = {}
    Barbers = {luis}
    Appts = {a1}
    Requests = {p1, p2}
    Days = {0}
    Hours = {0, 1}
    Null = Null
    Notice = 1
    WindowDays = 1
    MaxNow = 1
    Dtos <- DecideOrMove
    OpeningAgenda <- NothingYet
    Endpoints = {"create", "patch", "cancelMine", "archive", "role", "access", "account", "barber", "schedule"}
    a1 = a1  a2 = a2  p1 = p1  p2 = p2  p3 = p3
    anna = anna  boss = boss  luis = luis  marta = marta
SYMMETRY Identical
INVARIANTS TypeOK AnnouncedOnce
