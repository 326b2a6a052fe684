---------------------------- MODULE AccountsProofs ----------------------------
(***************************************************************************)
(* What holds of the accounts however many registrations, logins, edits    *)
(* and removals overlap.  Everything follows from what a step can make of  *)
(* one account, which AccountStep says once.                               *)
(***************************************************************************)
EXTENDS Accounts, TLAPS

-------------------------------------------------------------------------------
\* Type correctness

\* What a call has been given by the time it reaches a stage
CallOK(c) ==
    /\ c.pc \in {"saveLocal", "findEmail", "link", "saveGoogle"} => c.email \in Emails
    /\ c.pc \in {"findEmail", "link", "saveGoogle"} => c.subject \in Subjects
    /\ c.pc \in {"link", "access"} => c.id \in Ids

AccountsShape == AccountsTypeOK /\ \A p \in Calls : CallOK(call[p])

LEMMA AccountsNull ==
    /\ Null \notin Ids /\ Null \notin Emails /\ Null \notin Subjects /\ Null \notin Roles
    /\ Null \notin Passwords /\ Null \notin AccountType
  BY AccountsAssumption

LEMMA CallFacts ==
    ASSUME AccountsShape, NEW p \in Calls
    PROVE  call[p] \in CallType /\ CallOK(call[p])
  BY DEF AccountsShape, AccountsTypeOK

LEMMA AccountFacts ==
    ASSUME AccountsShape, NEW i \in Ids, Exists(i)
    PROVE  accounts[i] \in AccountType
  BY DEF AccountsShape, AccountsTypeOK, Exists

LEMMA NewAccountType ==
    ASSUME NEW e \in Emails, NEW g \in Subjects \cup {Null}, NEW password \in Passwords
    PROVE  NewAccount(e, g, password) \in AccountType
  BY DEF NewAccount, AccountType, Roles

\* The kinds of change that a step makes to an account: one is added, one is
\* edited, one is blocked or unblocked
IsAdded(i, doc) ==
    /\ ~Exists(i) /\ ~Taken(i, doc)
    /\ doc.role = "user" /\ doc.blocked = FALSE /\ doc.history = <<>>

IsEdited(i, doc) ==
    /\ Exists(i) /\ ~Taken(i, doc)
    /\ doc.blocked = accounts[i].blocked /\ doc.history = accounts[i].history

IsSwitched(i, doc) ==
    /\ Exists(i) /\ accounts[i].role = "user" /\ doc.role = "user"
    /\ doc.email = accounts[i].email /\ doc.googleId = accounts[i].googleId
    /\ doc.blocked # accounts[i].blocked
    /\ doc.history = Append(accounts[i].history, doc.blocked)

Changed(i) ==
    \E doc \in AccountType :
        /\ accounts' = [accounts EXCEPT ![i] = doc]
        /\ IsAdded(i, doc) \/ IsEdited(i, doc) \/ IsSwitched(i, doc)

Removed(i) == accounts' = [accounts EXCEPT ![i] = Null]

NextAccounts == accounts' = accounts \/ \E i \in Ids : Changed(i) \/ Removed(i)

LEMMA InsertAdds ==
    ASSUME AccountsShape, NEW p \in Calls, NEW i \in Ids,
           NEW e \in Emails, NEW g \in Subjects \cup {Null}, NEW password \in Passwords,
           Insert(p, i, NewAccount(e, g, password))
    PROVE  NextAccounts
<1> DEFINE doc == NewAccount(e, g, password)
<1>1. doc \in AccountType
  BY NewAccountType
<1>2. doc.role = "user" /\ doc.blocked = FALSE /\ doc.history = <<>>
  BY DEF NewAccount
<1> HIDE DEF doc
<1>3. accounts' = accounts \/ (accounts' = [accounts EXCEPT ![i] = doc] /\ ~Taken(i, doc) /\ ~Exists(i))
  BY DEF Insert, Fresh, doc
<1> QED
  BY <1>1, <1>2, <1>3 DEF NextAccounts, Changed, IsAdded

LEMMA LinkEdits ==
    ASSUME AccountsShape, NEW p \in Calls, Link(p)
    PROVE  NextAccounts
<1> DEFINE i == call[p].id
           doc == [accounts[i] EXCEPT !.googleId = call[p].subject]
<1>1. i \in Ids /\ call[p].subject \in Subjects
  BY CallFacts DEF Link, CallOK
<1>2. accounts' = accounts \/ (accounts' = [accounts EXCEPT ![i] = doc] /\ Exists(i) /\ ~Taken(i, doc))
  BY DEF Link
<1>3. Exists(i) => /\ doc \in AccountType
                   /\ doc.blocked = accounts[i].blocked /\ doc.history = accounts[i].history
  BY <1>1, AccountFacts DEF AccountType
<1> HIDE DEF i, doc
<1> QED
  BY <1>1, <1>2, <1>3 DEF NextAccounts, Changed, IsEdited

LEMMA UpdateEdits ==
    ASSUME AccountsShape, NEW by \in Ids, NEW role \in Roles, NEW i \in Ids, NEW body \in Bodies,
           UpdateUser(by, role, i, body)
    PROVE  NextAccounts
<1> DEFINE doc == PatchedBy(accounts[i], body)
<1>1. Exists(i) /\ ~Taken(i, doc) /\ accounts' = [accounts EXCEPT ![i] = doc]
  BY DEF UpdateUser
<1>2. accounts[i] \in AccountType /\ body \in BodyType
  BY <1>1, AccountFacts, AccountsAssumption
<1>3. /\ doc \in AccountType
      /\ doc.blocked = accounts[i].blocked /\ doc.history = accounts[i].history
  BY <1>2 DEF PatchedBy, AccountType, BodyType, Passwords
<1> HIDE DEF doc
<1> QED
  BY <1>1, <1>3 DEF NextAccounts, Changed, IsEdited

LEMMA AccessSwitches ==
    ASSUME AccountsShape, NEW p \in Calls, SetAccess(p)
    PROVE  NextAccounts
<1> DEFINE i == call[p].id
           to == call[p].blocked
           doc == [accounts[i] EXCEPT !.blocked = to, !.history = Append(@, to)]
<1>1. i \in Ids /\ to \in BOOLEAN
  BY CallFacts DEF SetAccess, CallOK, CallType
<1>2. CASE ~AccessMatches(accounts[i], to)
  BY <1>2 DEF SetAccess, NextAccounts
<1>3. CASE AccessMatches(accounts[i], to)
  <2>1. Exists(i) /\ accounts[i].role = "user" /\ accounts[i].blocked # to /\ accounts[i] \in AccountType
    BY <1>1, <1>3, AccountFacts DEF AccessMatches, Exists
  <2>2. accounts' = [accounts EXCEPT ![i] = doc]
    BY <1>1, <1>3 DEF SetAccess, AccountsShape, AccountsTypeOK
  <2>3. accounts[i].history \in Seq(BOOLEAN) /\ Append(accounts[i].history, to) \in Seq(BOOLEAN)
    BY <1>1, <2>1 DEF AccountType
  <2>4. /\ doc \in AccountType /\ doc.role = "user"
        /\ doc.email = accounts[i].email /\ doc.googleId = accounts[i].googleId
        /\ doc.blocked = to /\ doc.history = Append(accounts[i].history, to)
    BY <1>1, <2>1, <2>3 DEF AccountType
  <2> HIDE DEF i, to, doc
  <2> QED
    BY <1>1, <2>1, <2>2, <2>4 DEF NextAccounts, Changed, IsSwitched
<1> QED
  BY <1>2, <1>3

(* Every step leaves the collection as it is, removes an account, or adds,    *)
(* edits or switches one.                                                    *)
LEMMA AccountStep ==
    ASSUME AccountsShape, [AccountsNext]_accountVars
    PROVE  NextAccounts
<1>1. ASSUME NEW p \in Calls, Authenticate(p) PROVE NextAccounts
  <2>1. CASE \E i \in Ids : SaveLocal(p, i)
    <3>1. PICK i \in Ids : SaveLocal(p, i)
      BY <2>1
    <3> QED
      BY <3>1, CallFacts, InsertAdds DEF SaveLocal, CallOK, Passwords
  <2>2. CASE \E i \in Ids : SaveGoogle(p, i)
    <3>1. PICK i \in Ids : SaveGoogle(p, i)
      BY <2>2
    <3> QED
      BY <3>1, CallFacts, InsertAdds DEF SaveGoogle, CallOK, Passwords
  <2> QED
    BY <1>1, <2>1, <2>2, LinkEdits DEF Authenticate, StartRegister, StartGoogle, FindEmail, NextAccounts
<1>2. ASSUME NEW p \in Calls, Access(p) PROVE NextAccounts
  BY <1>2, AccessSwitches DEF Access, StartAccess, NextAccounts
<1>3. ASSUME NEW p \in Calls, GiveUp(p) PROVE NextAccounts
  BY <1>3 DEF GiveUp, NextAccounts
<1>4. ASSUME NEW by \in Ids, NEW i \in Ids, NEW role \in Roles, DeleteUser(by, role, i)
      PROVE  NextAccounts
  BY <1>4 DEF DeleteUser, NextAccounts, Removed
<1>5. (\E i \in Ids : Login(i)) \/ UNCHANGED accountVars => NextAccounts
  BY DEF Login, accountVars, NextAccounts
<1> QED
  BY <1>1, <1>2, <1>3, <1>4, <1>5, UpdateEdits DEF AccountsNext

LEMMA NextAccountsType ==
    ASSUME accounts \in [Ids -> AccountType \cup {Null}], NextAccounts
    PROVE  accounts' \in [Ids -> AccountType \cup {Null}]
  BY DEF NextAccounts, Changed, Removed

LEMMA IssueType ==
    ASSUME AccountsShape, NEW i \in Ids, NEW role \in Roles, Issue(i, role)
    PROVE  tokens' \in [Ids -> SUBSET Roles]
  BY DEF AccountsShape, AccountsTypeOK, Issue

(* A step only signs roles that there are. *)
LEMMA TokensStep ==
    ASSUME AccountsShape, [AccountsNext]_accountVars
    PROVE  tokens' \in [Ids -> SUBSET Roles]
<1> DEFINE Goal == tokens' \in [Ids -> SUBSET Roles]
<1>1. tokens' = tokens => Goal
  BY DEF AccountsShape, AccountsTypeOK
<1>2. ASSUME NEW i \in Ids, Exists(i), Issue(i, accounts[i].role) PROVE Goal
  BY <1>2, AccountFacts, IssueType DEF AccountType
<1>3. ASSUME NEW p \in Calls, NEW i \in Ids, SaveLocal(p, i) \/ SaveGoogle(p, i) PROVE Goal
  <2>1. tokens' = tokens \/ Issue(i, "user")
    BY <1>3 DEF SaveLocal, SaveGoogle, Insert, NewAccount
  <2> QED
    BY <1>1, <2>1, IssueType DEF Roles
<1>4. ASSUME NEW p \in Calls, Link(p) PROVE Goal
  <2> DEFINE i == call[p].id
             doc == [accounts[i] EXCEPT !.googleId = call[p].subject]
  <2>1. i \in Ids
    BY <1>4, CallFacts DEF Link, CallOK
  <2>2. tokens' = tokens \/ (Exists(i) /\ Issue(i, doc.role))
    BY <1>4 DEF Link
  <2>3. Exists(i) => doc.role = accounts[i].role
    BY <2>1, AccountFacts DEF AccountType
  <2> HIDE DEF i, doc, Goal
  <2> QED
    BY <1>1, <1>2, <2>1, <2>2, <2>3
<1>5. ASSUME NEW p \in Calls, NEW g, NEW e, StartGoogle(p, g, e) PROVE Goal
  BY <1>1, <1>2, <1>5 DEF StartGoogle, WithSubject
<1>6. ASSUME NEW p \in Calls, FindEmail(p) PROVE Goal
  BY <1>1, <1>2, <1>6 DEF FindEmail, WithEmail
<1>7. ASSUME NEW p \in Calls, Authenticate(p) PROVE Goal
  BY <1>1, <1>3, <1>4, <1>5, <1>6, <1>7 DEF Authenticate, StartRegister
<1>8. ASSUME NEW i \in Ids, Login(i) PROVE Goal
  BY <1>2, <1>8 DEF Login
<1> HIDE DEF Goal
<1>9. ASSUME NEW p \in Calls, Access(p) \/ GiveUp(p) PROVE Goal
  BY <1>1, <1>9 DEF Access, StartAccess, SetAccess, GiveUp
<1>10. ASSUME NEW by \in Ids, NEW i \in Ids, NEW role \in Roles,
              DeleteUser(by, role, i) \/ \E body \in Bodies : UpdateUser(by, role, i, body)
       PROVE  Goal
  BY <1>1, <1>10 DEF DeleteUser, UpdateUser
<1> QED
  BY <1>1, <1>7, <1>8, <1>9, <1>10 DEF AccountsNext, accountVars, Goal

LEMMA QuietFacts == Quiet \in CallType /\ CallOK(Quiet)
  BY DEF Quiet, CallType, CallOK

(* A call that becomes a well-formed record leaves the others well-formed. *)
LEMMA CallStep ==
    ASSUME AccountsShape, NEW p \in Calls, NEW c \in CallType, CallOK(c), Proceed(p, c)
    PROVE  call' \in [Calls -> CallType] /\ \A q \in Calls : CallOK(call'[q])
  BY DEF AccountsShape, AccountsTypeOK, Proceed

LEMMA CallsStep ==
    ASSUME AccountsShape, [AccountsNext]_accountVars
    PROVE  call' \in [Calls -> CallType] /\ \A q \in Calls : CallOK(call'[q])
<1> DEFINE Goal == call' \in [Calls -> CallType] /\ \A q \in Calls : CallOK(call'[q])
<1>1. call' = call => Goal
  BY DEF AccountsShape, AccountsTypeOK
<1>2. ASSUME NEW p \in Calls, Leave(p) PROVE Goal
  BY <1>2, QuietFacts, CallStep DEF Leave
<1>3. ASSUME NEW p \in Calls, NEW e \in Emails, StartRegister(p, e) PROVE Goal
  <2>1. LET c == [Quiet EXCEPT !.pc = "saveLocal", !.email = e] IN c \in CallType /\ CallOK(c)
    BY DEF Quiet, CallType, CallOK
  <2> QED
    BY <1>3, <2>1, CallStep DEF StartRegister
<1>4. ASSUME NEW p \in Calls, NEW identity \in Identities, StartGoogle(p, identity[1], identity[2])
      PROVE  Goal
  <2>1. identity[1] \in Subjects /\ identity[2] \in Emails
    BY AccountsAssumption
  <2>2. LET c == [Quiet EXCEPT !.pc = "findEmail", !.subject = identity[1], !.email = identity[2]]
        IN  c \in CallType /\ CallOK(c)
    BY <2>1 DEF Quiet, CallType, CallOK
  <2> QED
    BY <1>1, <1>4, <2>2, CallStep DEF StartGoogle
<1>5. ASSUME NEW p \in Calls, FindEmail(p) PROVE Goal
  <2>1. call[p] \in CallType /\ CallOK(call[p]) /\ call[p].pc = "findEmail"
    BY <1>5, CallFacts DEF FindEmail
  <2>2. At(p, "saveGoogle") \in CallType /\ CallOK(At(p, "saveGoogle"))
    BY <2>1 DEF At, CallType, CallOK
  <2>3. ASSUME NEW i \in Ids
        PROVE  LET c == [At(p, "link") EXCEPT !.id = i] IN c \in CallType /\ CallOK(c)
    BY <2>1 DEF At, CallType, CallOK
  <2> HIDE DEF Goal
  <2>4. \/ Proceed(p, At(p, "saveGoogle"))
        \/ Leave(p)
        \/ \E i \in Ids : Proceed(p, [At(p, "link") EXCEPT !.id = i])
    BY <1>5 DEF FindEmail, WithEmail
  <2> QED
    BY <1>2, <2>2, <2>3, <2>4, CallStep DEF Goal
<1>6. ASSUME NEW p \in Calls, NEW by \in Ids, NEW i \in Ids, NEW blocked \in BOOLEAN,
             StartAccess(p, by, i, blocked)
      PROVE  Goal
  <2>1. LET c == [Quiet EXCEPT !.pc = "access", !.id = i, !.blocked = blocked]
        IN  c \in CallType /\ CallOK(c)
    BY DEF Quiet, CallType, CallOK
  <2> QED
    BY <1>6, <2>1, CallStep DEF StartAccess
<1> HIDE DEF Goal
<1>7. ASSUME NEW p \in Calls, Authenticate(p) PROVE Goal
  <2>1. (\E i \in Ids : SaveLocal(p, i) \/ SaveGoogle(p, i)) \/ Link(p) => Leave(p)
    BY DEF SaveLocal, SaveGoogle, Link, Insert
  <2> QED
    BY <1>2, <1>3, <1>4, <1>5, <1>7, <2>1 DEF Authenticate
<1>8. ASSUME NEW p \in Calls, Access(p) PROVE Goal
  BY <1>2, <1>6, <1>8 DEF Access, SetAccess
<1>9. ASSUME NEW p \in Calls, GiveUp(p) PROVE Goal
  BY <1>2, <1>9 DEF GiveUp
<1>10. ASSUME NEW by \in Ids, NEW i \in Ids, NEW role \in Roles,
              Login(i) \/ DeleteUser(by, role, i) \/ \E body \in Bodies : UpdateUser(by, role, i, body)
       PROVE  Goal
  BY <1>1, <1>10 DEF Login, DeleteUser, UpdateUser
<1>11. (\E i \in Ids : Login(i)) \/ UNCHANGED accountVars => Goal
  BY <1>1 DEF Login, accountVars
<1> QED
  BY <1>7, <1>8, <1>9, <1>10, <1>11 DEF AccountsNext, Goal

LEMMA InitAccountsShape == AccountsInit => AccountsShape
  BY QuietFacts, AccountsAssumption DEF AccountsInit, AccountsShape, AccountsTypeOK

LEMMA NextAccountsShape == AccountsShape /\ [AccountsNext]_accountVars => AccountsShape'
  BY AccountStep, NextAccountsType, TokensStep, CallsStep DEF AccountsShape, AccountsTypeOK

LEMMA AccountsShapeInvariant == AccountsSpec => []AccountsShape
  BY InitAccountsShape, NextAccountsShape, PTL DEF AccountsSpec

(* Whatever the endpoints are called with, an account stays an account: an   *)
(* edit empties no field that its body leaves out, and a token only ever     *)
(* signs a role that there is.                                               *)
THEOREM AccountsAreTyped == AccountsSpec => []AccountsTypeOK
  BY AccountsShapeInvariant, PTL DEF AccountsShape

-------------------------------------------------------------------------------
\* One account per identity

\* The collection that the program finds has no two accounts of one identity:
\* it is empty, or the program's own indexes have kept it so.
OpensWithOneEach ==
    \A i, k \in Ids :
        i # k /\ OpeningAccounts[i] # Null /\ OpeningAccounts[k] # Null
            => /\ OpeningAccounts[i].email # OpeningAccounts[k].email
               /\ OpeningAccounts[i].googleId = OpeningAccounts[k].googleId
                    => OpeningAccounts[i].googleId = Null

LEMMA OneEachStep ==
    ASSUME AccountsShape, OneAccountPerIdentity, NextAccounts
    PROVE  OneAccountPerIdentity'
<1>1. accounts \in [Ids -> AccountType \cup {Null}]
  BY DEF AccountsShape, AccountsTypeOK
<1>2. ASSUME NEW i \in Ids, NEW doc \in AccountType, accounts' = [accounts EXCEPT ![i] = doc],
             ~Taken(i, doc)
      PROVE  OneAccountPerIdentity'
  <2>1. \A k \in Ids \ {i} : Exists(k) => /\ accounts[k].email # doc.email
                                          /\ accounts[k].googleId # doc.googleId
    BY <1>2 DEF Taken, SameEmail, SameGoogleId, WithEmail, WithSubject
  <2> QED
    BY <1>1, <1>2, <2>1 DEF OneAccountPerIdentity, Exists
<1>3. ASSUME NEW i \in Ids, NEW doc \in AccountType, accounts' = [accounts EXCEPT ![i] = doc],
             IsSwitched(i, doc)
      PROVE  OneAccountPerIdentity'
  BY <1>1, <1>3 DEF IsSwitched, OneAccountPerIdentity, Exists
<1>4. ASSUME NEW i \in Ids, Removed(i) PROVE OneAccountPerIdentity'
  BY <1>1, <1>4 DEF Removed, OneAccountPerIdentity, Exists
<1>5. accounts' = accounts => OneAccountPerIdentity'
  BY DEF OneAccountPerIdentity, Exists
<1> QED
  BY <1>2, <1>3, <1>4, <1>5 DEF NextAccounts, Changed, IsAdded, IsEdited

(* However registrations, Google logins, the edits of administrators and     *)
(* removals overlap, between the look-ups of one and the writes of another,  *)
(* no email and no Google account ever has two accounts.                     *)
THEOREM OneAccountEach ==
    ASSUME OpensWithOneEach
    PROVE  AccountsSpec => []OneAccountPerIdentity
<1>1. AccountsInit => OneAccountPerIdentity
  BY DEF AccountsInit, OpensWithOneEach, OneAccountPerIdentity, Exists
<1>2. AccountsShape /\ OneAccountPerIdentity /\ [AccountsNext]_accountVars => OneAccountPerIdentity'
  BY AccountStep, OneEachStep
<1> QED
  BY <1>1, <1>2, AccountsShapeInvariant, PTL DEF AccountsSpec

-------------------------------------------------------------------------------
\* The history of the booking access

\* A history h that tells the truth of an access that is blocked or not
Truth(h, blocked) ==
    /\ blocked <=> h # <<>> /\ h[Len(h)]
    /\ \A n \in 1..Len(h) : h[n] <=> n % 2 = 1

OpensWithTrueHistories ==
    \A i \in Ids :
        OpeningAccounts[i] # Null => Truth(OpeningAccounts[i].history, OpeningAccounts[i].blocked)

(* Of two numbers in a row, one is odd. *)
LEMMA OddAlternates == \A n \in Nat : (n + 1) % 2 = 1 <=> ~(n % 2 = 1)
  OBVIOUS

(* What the update of the access appends is a change. *)
LEMMA AppendTellsTheTruth ==
    ASSUME NEW h \in Seq(BOOLEAN), NEW blocked \in BOOLEAN, NEW to \in BOOLEAN,
           to # blocked, Truth(h, blocked)
    PROVE  Truth(Append(h, to), to)
<1> DEFINE g == Append(h, to)
           m == Len(h)
<1>1. m \in Nat /\ Len(g) = m + 1 /\ g # <<>> /\ g[m + 1] = to
  OBVIOUS
<1>2. \A n \in 1..m : g[n] = h[n]
  OBVIOUS
<1>3. h = <<>> <=> m = 0
  OBVIOUS
<1>4. blocked <=> m % 2 = 1
  <2>1. CASE m = 0
    BY <1>3, <2>1 DEF Truth
  <2>2. CASE m # 0
    <3>1. m \in 1..m
      BY <1>1, <2>2
    <3> QED
      BY <1>3, <2>2, <3>1 DEF Truth
  <2> QED
    BY <2>1, <2>2
<1>5. to <=> (m + 1) % 2 = 1
  BY <1>1, <1>4, OddAlternates
<1>6. \A n \in 1..m : g[n] <=> n % 2 = 1
  BY <1>2 DEF Truth
<1>7. 1..Len(g) = 1..m \cup {m + 1}
  BY <1>1
<1> HIDE DEF g, m
<1> QED
  BY <1>1, <1>5, <1>6, <1>7 DEF Truth, g

LEMMA HistoryIsTruth ==
    /\ AccessHistoryIsTrue
          <=> \A i \in Ids : accounts[i] # Null => Truth(accounts[i].history, accounts[i].blocked)
    /\ AccessHistoryIsTrue'
          <=> \A i \in Ids : accounts'[i] # Null => Truth(accounts'[i].history, accounts'[i].blocked)
  BY DEF AccessHistoryIsTrue, Exists, Truth

LEMMA HistoryStep ==
    ASSUME AccountsShape, AccessHistoryIsTrue, NextAccounts
    PROVE  AccessHistoryIsTrue'
<1>1. accounts \in [Ids -> AccountType \cup {Null}]
  BY DEF AccountsShape, AccountsTypeOK
<1>2. \A i \in Ids : accounts[i] # Null => Truth(accounts[i].history, accounts[i].blocked)
  BY HistoryIsTruth
<1>3. ASSUME NEW i \in Ids, NEW doc \in AccountType, accounts' = [accounts EXCEPT ![i] = doc],
             Truth(doc.history, doc.blocked)
      PROVE  AccessHistoryIsTrue'
  BY <1>1, <1>2, <1>3, HistoryIsTruth
<1>4. ASSUME NEW i \in Ids, NEW doc \in AccountType,
             IsAdded(i, doc) \/ IsEdited(i, doc) \/ IsSwitched(i, doc)
      PROVE  Truth(doc.history, doc.blocked)
  <2>1. CASE IsAdded(i, doc)
    BY <2>1 DEF IsAdded, Truth
  <2>2. CASE IsEdited(i, doc)
    BY <1>2, <2>2 DEF IsEdited, Exists
  <2>3. CASE IsSwitched(i, doc)
    <3>1. /\ accounts[i].history \in Seq(BOOLEAN) /\ accounts[i].blocked \in BOOLEAN
          /\ doc.blocked \in BOOLEAN
      BY <2>3, AccountFacts DEF IsSwitched, AccountType
    <3> QED
      BY <1>2, <2>3, <3>1, AppendTellsTheTruth DEF IsSwitched, Exists
  <2> QED
    BY <1>4, <2>1, <2>2, <2>3
<1>5. ASSUME NEW i \in Ids, Removed(i) PROVE AccessHistoryIsTrue'
  BY <1>1, <1>2, <1>5, HistoryIsTruth DEF Removed
<1>6. accounts' = accounts => AccessHistoryIsTrue'
  BY <1>2, HistoryIsTruth
<1> QED
  BY <1>3, <1>4, <1>5, <1>6 DEF NextAccounts, Changed

(* Whichever administrators block and unblock a client at the same time, and *)
(* whatever else is edited meanwhile, the history has every change of the    *)
(* access once, in the order they took effect, and ends with what is so.     *)
THEOREM HistoryTellsTheTruth ==
    ASSUME OpensWithTrueHistories
    PROVE  AccountsSpec => []AccessHistoryIsTrue
<1>1. AccountsInit => AccessHistoryIsTrue
  BY HistoryIsTruth DEF AccountsInit, OpensWithTrueHistories
<1>2. AccountsShape /\ AccessHistoryIsTrue /\ [AccountsNext]_accountVars => AccessHistoryIsTrue'
  BY AccountStep, HistoryStep
<1> QED
  BY <1>1, <1>2, AccountsShapeInvariant, PTL DEF AccountsSpec

-------------------------------------------------------------------------------
\* What the reservations see of the accounts

Seeing(doc) ==
    IF doc = Null THEN Null
    ELSE [role |-> IF doc.role = "admin" THEN "admin" ELSE "user", blocked |-> doc.blocked]

LEMMA ViewIsSeeing ==
    /\ View = [i \in Ids |-> Seeing(accounts[i])]
    /\ View' = [i \in Ids |-> Seeing(accounts'[i])]
  BY DEF View, Seeing, Exists

(* What is seen of an account is a client, and never nothing. *)
LEMMA SeeingType ==
    ASSUME NEW doc \in AccountType
    PROVE  Seeing(doc) \in Seen!ClientType /\ Seeing(doc) # Null
<1>1. doc # Null
  BY AccountsNull
<1>2. doc.blocked \in BOOLEAN
  BY DEF AccountType
<1>3. Seeing(doc) \in [role: {"user", "admin"}, blocked: BOOLEAN]
  BY <1>1, <1>2 DEF Seeing
<1> QED
  BY <1>3, AccountsAssumption DEF Seen!ClientType

LEMMA ViewChanges ==
    ASSUME accounts \in [Ids -> AccountType \cup {Null}], NEW i \in Ids, NEW doc,
           accounts' = [accounts EXCEPT ![i] = doc]
    PROVE  View' = [View EXCEPT ![i] = Seeing(doc)]
  BY ViewIsSeeing

(* Every step of the accounts is a step of the directory, or is not seen. *)
LEMMA ClientsKept ==
    ASSUME AccountsShape, NextAccounts
    PROVE  [Seen!ClientsNext]_View
<1>1. accounts \in [Ids -> AccountType \cup {Null}] /\ Null \notin AccountType
  BY AccountsNull DEF AccountsShape, AccountsTypeOK
<1>2. ASSUME NEW i \in Ids, NEW doc \in AccountType, accounts' = [accounts EXCEPT ![i] = doc],
             IsAdded(i, doc)
      PROVE  Seen!Register(i)
  <2>1. Seeing(doc) = Seen!NewClient
    BY <1>1, <1>2 DEF IsAdded, Seeing, Seen!NewClient
  <2>2. View[i] = Null
    BY <1>2, ViewIsSeeing DEF IsAdded, Exists, Seeing
  <2> QED
    BY <1>1, <1>2, <2>1, <2>2, ViewChanges DEF Seen!Register
<1>3. ASSUME NEW i \in Ids, NEW doc \in AccountType, accounts' = [accounts EXCEPT ![i] = doc],
             IsEdited(i, doc)
      PROVE  Seen!SwitchRole(i) \/ View' = View
  <2> DEFINE old == accounts[i]
  <2>1. old \in AccountType /\ old # Null /\ doc # Null /\ old.blocked = doc.blocked
    BY <1>1, <1>3, AccountFacts DEF IsEdited, Exists
  <2>2. View[i] = Seeing(old) /\ View' = [View EXCEPT ![i] = Seeing(doc)]
    BY <1>1, <1>3, ViewIsSeeing, ViewChanges
  <2> HIDE DEF old
  <2>3. CASE Seeing(doc) = Seeing(old)
    BY <2>2, <2>3, ViewIsSeeing
  <2>4. CASE Seeing(doc) # Seeing(old)
    <3>1. Seeing(doc) = [Seeing(old) EXCEPT !.role = IF @ = "admin" THEN "user" ELSE "admin"]
      BY <2>1, <2>4 DEF Seeing
    <3>2. Seeing(old) # Null
      BY <2>1, SeeingType
    <3> QED
      BY <2>2, <3>1, <3>2 DEF Seen!SwitchRole
  <2> QED
    BY <2>3, <2>4
<1>4. ASSUME NEW i \in Ids, NEW doc \in AccountType, accounts' = [accounts EXCEPT ![i] = doc],
             IsSwitched(i, doc)
      PROVE  Seen!SwitchAccess(i)
  <2> DEFINE old == accounts[i]
  <2>1. /\ old \in AccountType /\ old # Null /\ doc # Null
        /\ old.role = "user" /\ doc.role = "user" /\ doc.blocked # old.blocked
    BY <1>1, <1>4, AccountFacts DEF IsSwitched, Exists
  <2>2. View[i] = Seeing(old) /\ View' = [View EXCEPT ![i] = Seeing(doc)]
    BY <1>1, <1>4, ViewIsSeeing, ViewChanges
  <2> HIDE DEF old
  <2>3. doc.blocked \in BOOLEAN /\ old.blocked \in BOOLEAN
    BY <2>1 DEF AccountType
  <2>4. doc.blocked = ~old.blocked
    BY <2>1, <2>3
  <2>5. Seeing(doc) = [Seeing(old) EXCEPT !.blocked = ~@] /\ Seeing(old).role = "user"
    BY <2>1, <2>4 DEF Seeing
  <2>6. Seeing(old) # Null
    BY <2>1, SeeingType
  <2> QED
    BY <2>2, <2>5, <2>6 DEF Seen!SwitchAccess
<1>5. ASSUME NEW i \in Ids, Removed(i) PROVE Seen!Unregister(i) \/ View' = View
  <2>1. View' = [View EXCEPT ![i] = Null]
    BY <1>1, <1>5, ViewChanges DEF Removed, Seeing
  <2>2. View[i] = Null => View' = View
    BY <2>1, ViewIsSeeing
  <2> QED
    BY <2>1, <2>2 DEF Seen!Unregister
<1>6. accounts' = accounts => View' = View
  BY ViewIsSeeing
<1> QED
  BY <1>2, <1>3, <1>4, <1>5, <1>6, Zenon DEF NextAccounts, Changed, Seen!ClientsNext

LEMMA ClientsStart == ASSUME AccountsInit PROVE Seen!ClientsInit
<1>1. \A i \in Ids : OpeningAccounts[i] # Null => OpeningAccounts[i] \in AccountType
  BY AccountsAssumption
<1>2. \A i \in Ids : Seeing(OpeningAccounts[i]) \in Seen!ClientType \cup {Null}
  BY <1>1, SeeingType DEF Seeing
<1> QED
  BY <1>2, ViewIsSeeing DEF AccountsInit, Seen!ClientsInit

(* To the reservations the accounts are the directory of module Clients: a   *)
(* step of theirs adds a client who may book, makes one an administrator or  *)
(* the reverse, blocks or unblocks one who is no administrator at that       *)
(* moment, removes one, or is not seen at all.                               *)
THEOREM ClientsAreKept == AccountsSpec => KeepsTheClients
<1>1. AccountsInit => Seen!ClientsInit
  BY ClientsStart
<1>2. AccountsShape /\ [AccountsNext]_accountVars => [Seen!ClientsNext]_View
  BY AccountStep, ClientsKept
<1> QED
  BY <1>1, <1>2, AccountsShapeInvariant, PTL DEF AccountsSpec, KeepsTheClients, Seen!ClientsSpec

===============================================================================
