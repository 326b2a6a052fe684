\* The client keys of an existing database are brought up to date, between uses
\* of the program, while the job runs and administrators change roles and accounts.
SPECIFICATION MigrationSpec
CONSTANTS
    DayLength = 2
    Users = {anna}
    Admins = {}
    Barbers = {luis}
    Appts = {a1, a2, a3}
    Requests = {p1}
    Days = {0, 1}
    Hours = {0, 1}
    Null = Null
    Notice = 1
    WindowDays = 1
    MaxNow = 3
    Dtos <- ConfirmOrMoveAhead
    OpeningAgenda <- OnOffer
    Endpoints = {"create", "patch", "role", "account"}
    Place <- AsInserted
    Legacy <- OldDatabases
    a1 = a1  a2 = a2  a3 = a3  p1 = p1  anna = anna  boss = boss  luis = luis
INVARIANTS KeysAreReleased
PROPERTIES OnlyDuplicatesPrevent AppliedIsComplete NothingIsUnprotected
