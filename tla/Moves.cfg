\* Reservations are moved, confirmed, missed and cancelled by handlers that
\* overlap, while others are made.
SPECIFICATION OverlapSpec
CONSTANTS
    DayLength = 2
    Users = {boss}
    Admins = {boss}
    Barbers = {luis, marta}
    Appts = {a1, a2}
    Requests = {p1, p2}
    Days = {0}
    Hours = {0, 1}
    Null = Null
    Notice = 1
    WindowDays = 1
    MaxNow = 0
    Dtos <- MissOrMove
    OpeningAgenda <- TodayOnly
    Endpoints = {"create", "patch", "cancelMine"}
    a1 = a1  a2 = a2  p1 = p1  p2 = p2  p3 = p3
    anna = anna  boss = boss  luis = luis  marta = marta
SYMMETRY Identical
INVARIANTS KeyedAsShown OneHolderEach NoticeKept
PROPERTIES KeepsTheLedger ClosedOnceStarted
