\* One PATCH completes a reservation that has started and moves it ahead.
SPECIFICATION Spec
CONSTANTS
    DayLength = 2
    Users = {boss}
    Admins = {boss}
    Barbers = {luis}
    Appts = {a1}
    Requests = {p1}
    Days = {0, 1}
    Hours = {0, 1}
    Null = Null
    Notice = 1
    WindowDays = 1
    MaxNow = 1
    Dtos <- CompleteAndMove
    OpeningAgenda <- ThreeSlots
    Endpoints = {"create", "patch"}
    a1 = a1  a2 = a2  p1 = p1  p2 = p2  p3 = p3
    anna = anna  boss = boss  luis = luis  marta = marta
SYMMETRY Identical
INVARIANTS CompletedHasStarted
