\* Administrators, WhatsApp links, the archive and the completion job decide
\* and move one reservation, by handlers that overlap freely, fail and restart.
SPECIFICATION FairSpec
CONSTANTS
    DayLength = 2
    Users = {anna}
    Admins = {}
    Barbers = {luis}
    Appts = {a1}
    Requests = {p1, p2}
    Days = {0, 1}
    Hours = {0, 1}
    Null = Null
    Notice = 1
    WindowDays = 1
    MaxNow = 4
    Dtos <- CloseOrMove
    OpeningAgenda <- ADayApart
    Endpoints = {"create", "patch", "archive", "link"}
    a1 = a1  a2 = a2  p1 = p1  p2 = p2  p3 = p3
    anna = anna  boss = boss  luis = luis  marta = marta
INVARIANTS KeysAreReleased AnnouncedOnce
PROPERTIES StateMachine ClosedByJobIsDue LinkActsOnWhatItSigns ConfirmedIsClosed
