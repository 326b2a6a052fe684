\* Registrations, Google logins, edits, removals and changes of booking access
\* overlap.
SPECIFICATION AccountsSpec
CONSTANTS
    Ids = {i1, i2, i3}
    Emails = {e1, e2}
    Subjects = {g1, g2}
    Identities <- OwnEmails
    Bodies <- Edits
    Calls = {p1, p2}
    MaxHistory = 2
    OpeningAccounts <- OnlyBoss
    Null = Null
    i1 = i1  i2 = i2  i3 = i3  e1 = e1  e2 = e2
    g1 = g1  g2 = g2  p1 = p1  p2 = p2
SYMMETRY Alike
INVARIANTS AccountsTypeOK OneAccountPerIdentity AccessHistoryIsTrue
PROPERTIES KeepsTheClients
