\* Administrators create, change and delete working days, and add and remove
\* their blocks, while a reservation is made, decided and closed.
SPECIFICATION ShopSpec
CONSTANTS
    DayLength = 4
    SlotLength = 2
    Users = {boss}
    Admins = {boss}
    Barbers = {luis}
    Appts = {a1}
    Requests = {p1}
    Tasks = {t1, t2}
    ScheduleIds = {k1, k2}
    Days = {0}
    Hours = {0, 1, 2, 3}
    Null = Null
    Notice = 1
    WindowDays = 1
    MaxNow = 1
    Dtos <- Decisions
    OpeningAgenda <- FirstDayOffer
    OpeningDays <- FirstDayAndRoom
    NewDays <- Bodies
    Blocks <- LateBlocks
    Endpoints = {"create", "patch", "schedule"}
    ScheduleEndpoints = {"newDay", "patchDay", "addBlock", "removeBlock", "removeDay"}
    a1 = a1  a2 = a2  p1 = p1  p2 = p2  t1 = t1  t2 = t2  k1 = k1  k2 = k2
    boss = boss  luis = luis
SYMMETRY Identical
INVARIANTS SchedulesTypeOK OneDayPerDate AvailableIsFree
PROPERTIES Spec AddedBlocksFit RemovedAfterCancelling
