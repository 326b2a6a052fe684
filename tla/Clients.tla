------------------------------- MODULE Clients -------------------------------
(***************************************************************************)
(* What the rest of the program relies on about user accounts: whether one *)
(* exists, whether it is an administrator's, and whether it may book.      *)
(* Appointments takes its steps from here; Accounts, which has the         *)
(* accounts in detail, is checked to make no others.  A barber's account   *)
(* is a client's here: only administrators are treated differently.        *)
(***************************************************************************)
CONSTANTS
    Users,
    Null        \* no account

VARIABLE
    users       \* the directory of clients and administrators

ClientType == [role: {"user", "admin"}, blocked: BOOLEAN]

NewClient == [role |-> "user", blocked |-> FALSE]

ClientsInit == users \in [Users -> ClientType \cup {Null}]

\* A registration, by whatever endpoint, gives a client that may book.
Register(c) ==
    /\ users[c] = Null
    /\ users' = [users EXCEPT ![c] = NewClient]

SwitchRole(c) ==
    /\ users[c] # Null
    /\ users' = [users EXCEPT ![c].role = IF @ = "admin" THEN "user" ELSE "admin"]

\* Only a client is blocked or unblocked.
SwitchAccess(c) ==
    /\ users[c] # Null /\ users[c].role = "user"
    /\ users' = [users EXCEPT ![c].blocked = ~@]

Unregister(c) ==
    /\ users[c] # Null
    /\ users' = [users EXCEPT ![c] = Null]

ClientsNext ==
    \E c \in Users : Register(c) \/ SwitchRole(c) \/ SwitchAccess(c) \/ Unregister(c)

ClientsSpec == ClientsInit /\ [][ClientsNext]_users

===============================================================================
