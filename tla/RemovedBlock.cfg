\* A reservation is made while a block is removed.
SPECIFICATION ShopSpec
CONSTANTS
    DayLength = 4
    SlotLength = 2
    Users = {boss}
    Admins = {boss}
    Barbers = {luis}
    Appts = {a1}
    Requests = {p1, p2}
    Tasks = {t1}
    ScheduleIds = {k1}
    Days = {0}
    Hours = {0, 1, 2, 3}
    Null = Null
    Notice = 1
    WindowDays = 1
    MaxNow = 1
    Dtos <- Cancels
    OpeningAgenda <- OneDayOffer
    OpeningDays <- OneDay
    NewDays = {}
    Blocks <- Blocks3
    Endpoints = {"create", "patch", "schedule"}
    ScheduleEndpoints = {"removeBlock"}
    a1 = a1  a2 = a2  p1 = p1  p2 = p2  t1 = t1  t2 = t2  k1 = k1  k2 = k2
    boss = boss  luis = luis
SYMMETRY Identical
PROPERTIES RemovedIsEmpty
