------------------------------- MODULE Accounts -------------------------------
(***************************************************************************)
(* The accounts: registration, login and Google login of auth.service.ts,  *)
(* the operations of users.service.ts behind the controllers of users and  *)
(* clients, and the collection they share.                                 *)
(*                                                                         *)
(* A call steps from one operation of the database to the next, as the     *)
(* handlers of Appointments do.  Names, the provider, and who changed the  *)
(* booking access and why are left out: nothing depends on them.           *)
(***************************************************************************)
EXTENDS Naturals, Sequences

CONSTANTS
    Ids,                \* identifiers of accounts: a bound on how many there are
    Emails,             \* in lower case, as they are stored and looked up
    Subjects,           \* the subjects of Google's tokens
    Identities,         \* whom Google vouches for: pairs of a subject and an email
    Bodies,             \* the bodies of PATCH /users/:id that are sent
    Calls,              \* handlers that may be running at the same time (a bound)
    MaxHistory,         \* entries in the history of an account (a bound)
    OpeningAccounts,    \* the accounts at the beginning
    Null

Roles == {"user", "admin", "barber"}
Passwords == {"none", "hash", "verbatim"}

AccountType ==
    [email: Emails, googleId: Subjects \cup {Null}, password: Passwords, role: Roles,
     blocked: BOOLEAN, history: Seq(BOOLEAN)]   \* the history: what it became

BodyType == [email: Emails \cup {Null}, role: Roles \cup {Null}, password: {"hash", "verbatim", Null}]

ASSUME AccountsAssumption ==
    /\ Identities \subseteq Subjects \X Emails
    /\ Bodies \subseteq BodyType
    /\ MaxHistory \in Nat
    /\ OpeningAccounts \in [Ids -> AccountType \cup {Null}]
    /\ Null \notin Ids \cup Emails \cup Subjects \cup Roles \cup Passwords \cup AccountType
    /\ Null \notin [role: {"user", "admin"}, blocked: BOOLEAN]

VARIABLES
    accounts,   \* the collection
    tokens,     \* the roles in the tokens of an account, whatever became of it; that
                \* tokens expire only allows less
    call        \* the handlers in progress

accountVars == <<accounts, tokens, call>>

Quiet == [pc |-> "quiet", email |-> Null, subject |-> Null, id |-> Null,
          blocked |-> FALSE]

CallType ==
    [pc: {"quiet", "saveLocal", "findEmail", "link", "saveGoogle", "access"},
     email: Emails \cup {Null}, subject: Subjects \cup {Null}, id: Ids \cup {Null},
     blocked: BOOLEAN]

Proceed(p, c) == call' = [call EXCEPT ![p] = c]
Leave(p) == Proceed(p, Quiet)
At(p, stage) == [call[p] EXCEPT !.pc = stage]

Exists(i) == accounts[i] # Null
WithEmail(e) == {i \in Ids : Exists(i) /\ accounts[i].email = e}
WithSubject(g) == {i \in Ids : Exists(i) /\ accounts[i].googleId = g}

\* The unique indexes.  The one on googleId is sparse, but the field defaults
\* to null and is never missing, and null is a value like any other to it.
SameEmail(i, doc) == WithEmail(doc.email) \ {i} # {}
SameGoogleId(i, doc) == WithSubject(doc.googleId) \ {i} # {}
\* mutant: the email is only looked up, not indexed
OnlyGoogleIndex(i, doc) == SameGoogleId(i, doc)
Taken(i, doc) == SameEmail(i, doc) \/ SameGoogleId(i, doc)

\* buildAuthResponse signs the role that the account has.
Issue(i, role) == tokens' = [tokens EXCEPT ![i] = @ \cup {role}]

\* An identifier that nothing refers to
Fresh(i) ==
    /\ ~Exists(i) /\ tokens[i] = {}
    /\ \A p \in Calls : call[p].id # i

NewAccount(e, g, password) ==
    [email |-> e, googleId |-> g, password |-> password, role |-> "user",
     blocked |-> FALSE, history |-> <<>>]

\* save() of a new document, then the token
Insert(p, i, doc) ==
    /\ Fresh(i)
    /\ IF Taken(i, doc) THEN UNCHANGED <<accounts, tokens>>
       ELSE accounts' = [accounts EXCEPT ![i] = doc] /\ Issue(i, doc.role)
    /\ Leave(p)

-------------------------------------------------------------------------------
\* POST /auth/register and POST /auth/login

\* The email is looked up; then the password is hashed, and only then saved.
StartRegister(p, e) ==
    /\ call[p] = Quiet
    /\ WithEmail(e) = {}
    /\ Proceed(p, [Quiet EXCEPT !.pc = "saveLocal", !.email = e])
    /\ UNCHANGED <<accounts, tokens>>

SaveLocal(p, i) ==
    /\ call[p].pc = "saveLocal"
    /\ Insert(p, i, NewAccount(call[p].email, Null, "hash"))

\* The password is given to what is stored, which is a hash unless PATCH
\* /users/:id has put something else in its place.
Login(i) ==
    /\ Exists(i) /\ accounts[i].password = "hash"
    /\ Issue(i, accounts[i].role)
    /\ UNCHANGED <<accounts, call>>

-------------------------------------------------------------------------------
\* POST /auth/google: by subject, else by email, else a new account

StartGoogle(p, g, e) ==
    /\ call[p] = Quiet
    /\ IF WithSubject(g) # {}
       THEN (\E i \in WithSubject(g) : Issue(i, accounts[i].role)) /\ UNCHANGED call
       ELSE /\ Proceed(p, [Quiet EXCEPT !.pc = "findEmail", !.subject = g, !.email = e])
            /\ UNCHANGED tokens
    /\ UNCHANGED accounts

\* An account that has a Google id already is used as it is.
FindEmail(p) ==
    /\ call[p].pc = "findEmail"
    /\ \/ /\ WithEmail(call[p].email) = {}
          /\ Proceed(p, At(p, "saveGoogle"))
          /\ UNCHANGED tokens
       \/ \E i \in WithEmail(call[p].email) :
              IF accounts[i].googleId = Null
              THEN Proceed(p, [At(p, "link") EXCEPT !.id = i]) /\ UNCHANGED tokens
              ELSE Leave(p) /\ Issue(i, accounts[i].role)
    /\ UNCHANGED accounts

\* setGoogleId writes by identifier alone.
Link(p) ==
    LET i == call[p].id
        doc == [accounts[i] EXCEPT !.googleId = call[p].subject]
    IN
    /\ call[p].pc = "link"
    /\ IF Exists(i) /\ ~Taken(i, doc)
       THEN accounts' = [accounts EXCEPT ![i] = doc] /\ Issue(i, doc.role)
       ELSE UNCHANGED <<accounts, tokens>>
    /\ Leave(p)

SaveGoogle(p, i) ==
    /\ call[p].pc = "saveGoogle"
    /\ Insert(p, i, NewAccount(call[p].email, call[p].subject, "none"))

-------------------------------------------------------------------------------
\* PATCH and DELETE /users/:id, PATCH /users/:id/role

\* A token of the account itself or of an administrator
MayEdit(by, role, i) == role \in tokens[by] /\ (role = "admin" \/ by = i)

\* mutant: what the body leaves out is emptied
ReplacedBy(doc, body) ==
    [doc EXCEPT !.email = body.email, !.role = body.role]

\* What the body leaves out stays.
PatchedBy(doc, body) ==
    [doc EXCEPT !.email = IF body.email = Null THEN @ ELSE body.email,
                !.role = IF body.role = Null THEN @ ELSE body.role,
                !.password = IF body.password = Null THEN @ ELSE body.password]

UpdateUser(by, role, i, body) ==
    /\ MayEdit(by, role, i)
    /\ body.role # Null => role = "admin"
    /\ Exists(i) /\ ~Taken(i, PatchedBy(accounts[i], body))
    /\ accounts' = [accounts EXCEPT ![i] = PatchedBy(@, body)]
    /\ UNCHANGED <<tokens, call>>

DeleteUser(by, role, i) ==
    /\ MayEdit(by, role, i)
    /\ Exists(i)
    /\ accounts' = [accounts EXCEPT ![i] = Null]
    /\ UNCHANGED <<tokens, call>>

-------------------------------------------------------------------------------
\* PATCH /clients/:id/booking-access

\* The token must be an administrator's, and so must the account still be.
StartAccess(p, by, i, blocked) ==
    /\ call[p] = Quiet
    /\ "admin" \in tokens[by]
    /\ Exists(by) /\ accounts[by].role = "admin"
    /\ Proceed(p, [Quiet EXCEPT !.pc = "access", !.id = i, !.blocked = blocked])
    /\ UNCHANGED <<accounts, tokens>>

\* mutants: a filter without the flag, and one without the role
AnyClient(doc, blocked) == doc # Null /\ doc.role = "user"
AnyAccount(doc, blocked) == doc # Null /\ doc.blocked # blocked

\* The filter of the update
AccessMatches(doc, blocked) == doc # Null /\ doc.role = "user" /\ doc.blocked # blocked

SetAccess(p) ==
    LET i == call[p].id
        to == call[p].blocked
    IN
    /\ call[p].pc = "access"
    /\ Exists(i) => Len(accounts[i].history) < MaxHistory
    /\ IF AccessMatches(accounts[i], to)
       THEN accounts' = [accounts EXCEPT
                ![i].blocked = to,
                ![i].history = Append(@, to)]
       ELSE UNCHANGED accounts
    /\ Leave(p)
    /\ UNCHANGED tokens

-------------------------------------------------------------------------------
\* An await of a handler rejects, or the process is gone.
GiveUp(p) ==
    /\ call[p] # Quiet
    /\ Leave(p)
    /\ UNCHANGED <<accounts, tokens>>

AccountsInit ==
    /\ accounts = OpeningAccounts
    /\ tokens = [i \in Ids |-> {}]
    /\ call = [p \in Calls |-> Quiet]

Authenticate(p) ==
    \/ \E e \in Emails : StartRegister(p, e)
    \/ \E identity \in Identities : StartGoogle(p, identity[1], identity[2])
    \/ FindEmail(p)
    \/ Link(p)
    \/ \E i \in Ids : SaveLocal(p, i) \/ SaveGoogle(p, i)

Access(p) ==
    \/ \E by, i \in Ids, blocked \in BOOLEAN : StartAccess(p, by, i, blocked)
    \/ SetAccess(p)

AccountsNext ==
    \/ \E p \in Calls : Authenticate(p) \/ Access(p) \/ GiveUp(p)
    \/ \E i \in Ids : Login(i)
    \/ \E by, i \in Ids, role \in Roles :
           DeleteUser(by, role, i) \/ \E body \in Bodies : UpdateUser(by, role, i, body)

AccountsSpec == AccountsInit /\ [][AccountsNext]_accountVars

-------------------------------------------------------------------------------
\* Properties

\* Every variable keeps to the values its part of the program can hold.
AccountsTypeOK ==
    /\ accounts \in [Ids -> AccountType \cup {Null}]
    /\ tokens \in [Ids -> SUBSET Roles]
    /\ call \in [Calls -> CallType]

\* A person who registers and logs in with Google at the same time, from two
\* windows, or after an administrator edited the email, has one account.
OneAccountPerIdentity ==
    \A i, k \in Ids :
        i # k /\ Exists(i) /\ Exists(k)
            => /\ accounts[i].email # accounts[k].email
               /\ accounts[i].googleId = accounts[k].googleId => accounts[i].googleId = Null

\* The history of a client's booking access is the truth about it: it tells
\* every change once, whichever administrators make it at the same time, and
\* ends with the access the client has, whatever else becomes of the account.
AccessHistoryIsTrue ==
    \A i \in Ids : Exists(i) =>
        LET h == accounts[i].history IN
        /\ accounts[i].blocked <=> h # <<>> /\ h[Len(h)]
        /\ \A n \in 1..Len(h) : h[n] <=> n % 2 = 1

\* What the reservations see of an account
View ==
    [i \in Ids |-> IF Exists(i)
                   THEN [role |-> IF accounts[i].role = "admin" THEN "admin" ELSE "user",
                         blocked |-> accounts[i].blocked]
                   ELSE Null]

Seen == INSTANCE Clients WITH Users <- Ids, users <- View

\* The accounts do nothing to the clients that the reservations do not expect:
\* a new one may book, and an administrator is never blocked or unblocked, even
\* if the account becomes one while the block is on its way.
KeepsTheClients == Seen!ClientsSpec

\* Nobody is refused who registers with an email that nobody has (README:
\* "Register a new local user").
RegistrationSucceeds ==
    \A p \in Calls, i \in Ids :
        LET doc == NewAccount(call[p].email, Null, "hash") IN
        call[p].pc = "saveLocal" /\ Fresh(i) /\ ~SameEmail(i, doc) => ~Taken(i, doc)

===============================================================================
