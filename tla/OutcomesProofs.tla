---------------------------- MODULE OutcomesProofs ----------------------------
(***************************************************************************)
(* What becomes of a reservation, its keys, its announcements and its      *)
(* links, without any assumption on how handlers overlap.  A step changes  *)
(* a document in one of few ways; what a handler knows of its document     *)
(* past a filter that compared the status is enough for the rest.          *)
(***************************************************************************)
EXTENDS AppointmentsProofs

-------------------------------------------------------------------------------
\* What becomes of a reservation in one step

\* The kinds of write: by a release of keys, the archive, a creation, an update,
\* and the completion job
IsReleased(a) == \E c \in Users : appts'[a] = Released(appts[a], c)

IsArchived(a) == appts'[a] = [appts[a] EXCEPT !.archived = TRUE]

IsSaved(a) ==
    \E p \in Requests :
        /\ req[p].pc = "save" /\ appts[a].status = "absent"
        /\ ~Duplicate(a, NewAppt(req[p]))
        /\ appts'[a] = NewAppt(req[p])

IsWritten(a) ==
    \E p \in Requests :
        /\ req[p].pc = "write" /\ req[p].appt = a
        /\ FilterMatches(req[p], appts[a]) /\ ~Duplicate(a, Updated(req[p], appts[a]))
        /\ appts'[a] = Updated(req[p], appts[a])
        /\ req'[p] # req[p]

IsCompleted(a) ==
    \E w \in todo :
        /\ w.appt = a /\ JobMatches(w, appts[a])
        /\ appts'[a] = Completed(appts[a])
        /\ UNCHANGED req

LEMMA ReleaseKeysWrites ==
    ASSUME Shape, NEW p \in Requests, ReleaseKeys(p), NEW a \in Appts
    PROVE  IsReleased(a)
<1>1. req[p].client \in Users
  BY ShapeFacts DEF ReleaseKeys, HandlerOK
<1>2. appts'[a] = Released(appts[a], req[p].client)
  BY DEF ReleaseKeys
<1> QED
  BY <1>1, <1>2 DEF IsReleased

LEMMA SaveWrites ==
    ASSUME Shape, NEW p \in Requests, NEW b \in Appts, Save(p, b), NEW a \in Appts
    PROVE  appts'[a] = appts[a] \/ IsSaved(a)
  BY ShapeFacts DEF Save, IsSaved

LEMMA WriteWrites ==
    ASSUME Shape, NEW p \in Requests, Write(p), NEW a \in Appts
    PROVE  appts'[a] = appts[a] \/ IsWritten(a)
<1>1. req[p].appt \in Appts
  BY ShapeFacts DEF Write, HandlerOK
<1>2. req'[p] # req[p]
  <2> DEFINE told == [req[p] EXCEPT !.pc = "mail", !.slot = Updated(req[p], appts[req[p].appt]).slot]
  <2>1. told.pc = "mail" /\ req[p].pc = "write" /\ Idle.pc = "idle"
    BY ShapeFacts, IdleFacts DEF Write, RequestType
  <2>2. req' = [req EXCEPT ![p] = Idle] \/ req' = [req EXCEPT ![p] = told]
    BY DEF Write, Become, Finish
  <2> HIDE DEF told
  <2>3. req'[p] = Idle \/ req'[p] = told
    BY <2>2 DEF Shape, TypeOK
  <2> QED
    BY <2>1, <2>3
<1> QED
  BY <1>1, <1>2, ShapeFacts DEF Write, IsWritten

LEMMA ArchiveWrites ==
    ASSUME Shape, NEW p \in Requests, Archive(p), NEW a \in Appts
    PROVE  appts'[a] = appts[a] \/ IsArchived(a)
<1>1. req[p].appt \in Appts
  BY ShapeFacts DEF Archive, HandlerOK
<1> QED
  BY <1>1, ShapeFacts DEF Archive, IsArchived

LEMMA JobWrites ==
    ASSUME Shape, Job, NEW a \in Appts
    PROVE  appts'[a] = appts[a] \/ IsCompleted(a)
<1>1. CASE \E w \in todo : JobWrite(w)
  <2>1. PICK w \in todo : JobWrite(w)
    BY <1>1
  <2>2. w.appt \in Appts
    BY DEF Shape, TypeOK
  <2> QED
    BY <2>1, <2>2 DEF JobWrite, IsCompleted, Shape, TypeOK
<1> QED
  BY <1>1 DEF Job, JobFind, JobFail

(* Every step leaves a reservation as it is, or is one of these writes. *)
LEMMA DocStep ==
    ASSUME Shape, [Next]_vars, NEW a \in Appts
    PROVE  \/ appts'[a] = appts[a]
           \/ IsReleased(a) \/ IsArchived(a) \/ IsSaved(a) \/ IsWritten(a) \/ IsCompleted(a)
<1>1. ASSUME NEW p \in Requests, Create(p) PROVE appts'[a] = appts[a] \/ IsSaved(a)
  BY <1>1, SaveWrites DEF Create, StartCreate, EmailPending, Notify
<1>2. ASSUME NEW p \in Requests, Update(p) PROVE appts'[a] = appts[a] \/ IsWritten(a)
  BY <1>2, WriteWrites DEF Update, StartPatch, StartCancelMine, StartLink, Load, ReadClient, Mail
<1>3. ASSUME NEW p \in Requests, Shared(p) PROVE appts'[a] = appts[a] \/ IsReleased(a)
  BY <1>3, ReleaseKeysWrites DEF Shared, CheckActive, ReadBarber, ReadSchedule, CheckSlot
<1>4. ASSUME NEW p \in Requests, Archiving(p) PROVE appts'[a] = appts[a] \/ IsArchived(a)
  BY <1>4, ArchiveWrites DEF Archiving, StartArchive
<1>5. ASSUME NEW p \in Requests, Abandon(p) PROVE appts'[a] = appts[a]
  BY <1>5 DEF Abandon
<1>6. CASE Directory \/ Restart \/ Tick \/ UNCHANGED vars
  BY <1>6 DEF Directory, People, ChangeRole, SetBookingAccess, RemoveUser, AddUser, AddBarber,
              SetBarber, EditSchedule, Restart, Tick, vars
<1> QED
  BY <1>1, <1>2, <1>3, <1>4, <1>5, <1>6, JobWrites DEF Next

-------------------------------------------------------------------------------
\* What becomes of a handler in one step

\* A creation begins.
Starts(p) ==
    \E c \in Users, slot \in Slots :
        /\ users[c] # Null
        /\ req'[p] = [Idle EXCEPT !.op = "create", !.client = c, !.slot = slot,
                                  !.admin = (users[c].role = "admin"),
                                  !.pc = IF users[c].role = "admin" THEN "barber" ELSE "release"]

\* A creation has saved its reservation.
Saves(p) ==
    \E a \in Appts :
        /\ req[p].pc = "save" /\ appts[a].status = "absent"
        /\ appts' = [appts EXCEPT ![a] = NewAppt(req[p])]
        /\ req' = [req EXCEPT ![p] = [Idle EXCEPT !.op = "create", !.pc = "email",
                                                  !.appt = a, !.slot = req[p].slot]]

\* An update is asked for whose document is still to be read.
Asks(p) ==
    \E a \in Appts, dto \in DtoType, actor \in {"user", "admin"} :
        /\ dto \in {StatusDto("confirmed"), StatusDto("cancelled")}
        /\ actor = "user" => dto = StatusDto("cancelled")
        /\ \/ req'[p] = UpdateRequest(a, dto, actor)
           \/ /\ actor = "admin" /\ links[a] # Null
              /\ req'[p] = [UpdateRequest(a, dto, "admin") EXCEPT !.link = links[a]]

\* The document is read, by a handler that waited for it or one that begins.
Reads(p) ==
    \E r \in RequestType :
        /\ HandlerOK(r) /\ r.op = "update" /\ r.pc = "load"
        /\ r = req[p] \/ \E a \in Appts, dto \in Dtos : r = UpdateRequest(a, dto, "admin")
        /\ CanLoad(r)
        /\ req'[p] = Loaded(r, appts[r.appt])

\* From one stage to another, and nothing else changes
Passes(p, from, to) == req[p].pc = from /\ req'[p] = [req[p] EXCEPT !.pc = to]

\* The stages that a handler passes through whatever it has found out
Proceeds(p) ==
    \/ Passes(p, "release", "active")
    \/ Passes(p, "active", "barber") /\ req[p].op = "create"
    \/ Passes(p, "barber", "schedule")
    \/ Passes(p, "schedule", "slot")
    \/ Passes(p, "email", "whatsapp")

\* The client of an update was read.
Consults(p) ==
    /\ users[req[p].client] # Null
    /\ IF users[req[p].client].role = "admin" THEN Passes(p, "client", "write")
                                              ELSE Passes(p, "client", "release")

\* The slot was found to be free.
Frees(p) == req[p].pc \in {"schedule", "slot"} /\ req'[p] = SlotIsFree(req[p])

\* The client's key was found to be free.
TakesKey(p) ==
    /\ req[p].pc = "active" /\ req[p].op = "update"
    /\ req'[p] = [req[p] EXCEPT !.pc = "write", !.takesKey = TRUE]

\* An update has written its document and goes on to tell the client.
Announces(p) ==
    LET r == req[p]
        doc == appts[r.appt]
    IN  /\ r.pc = "write" /\ Announced(r) /\ FilterMatches(r, doc)
        /\ appts' = [appts EXCEPT ![r.appt] = Updated(r, doc)]
        /\ req' = [req EXCEPT ![p] = [r EXCEPT !.pc = "mail", !.slot = Updated(r, doc).slot]]

\* An archiving begins.
Archives(p) ==
    \E a \in Appts :
        req'[p] = [Idle EXCEPT !.op = "archive", !.pc = "archive", !.appt = a, !.seen = appts[a].status]

Moves(p) ==
    \/ req'[p] = req[p] \/ req'[p] = Idle
    \/ Starts(p) \/ Saves(p) \/ Asks(p) \/ Reads(p) \/ Proceeds(p) \/ Consults(p)
    \/ Frees(p) \/ TakesKey(p) \/ Announces(p) \/ Archives(p)

(* Only the handler of an action moves. *)
LEMMA OneMoves ==
    ASSUME Shape, NEW p \in Requests, NEW s, Become(p, s)
    PROVE  req'[p] = s /\ \A q \in Requests : q # p => req'[q] = req[q]
  BY DEF Shape, TypeOK, Become

LEMMA CreateMoves ==
    ASSUME Shape, NEW p \in Requests, Create(p)
    PROVE  Moves(p) /\ \A q \in Requests : q # p => req'[q] = req[q]
<1>1. CASE \E c \in Users, slot \in Slots : StartCreate(p, c, slot)
  <2>1. PICK c \in Users, slot \in Slots : StartCreate(p, c, slot)
    BY <1>1
  <2> DEFINE s == [Idle EXCEPT !.op = "create", !.client = c, !.slot = slot,
                               !.admin = (users[c].role = "admin"),
                               !.pc = IF users[c].role = "admin" THEN "barber" ELSE "release"]
  <2>2. Become(p, s) /\ users[c] # Null
    BY <2>1 DEF StartCreate
  <2>3. req'[p] = s => Starts(p)
    BY <2>2 DEF Starts
  <2> HIDE DEF s
  <2> QED
    BY <2>2, <2>3, OneMoves DEF Moves
<1>2. CASE \E a \in Appts : Save(p, a)
  <2>1. PICK a \in Appts : Save(p, a)
    BY <1>2
  <2> DEFINE s == [Idle EXCEPT !.op = "create", !.pc = "email", !.appt = a, !.slot = req[p].slot]
  <2>2. Become(p, Idle) \/ (Become(p, s) /\ Saves(p))
    BY <2>1 DEF Save, Saves, Become, Finish
  <2> HIDE DEF s
  <2> QED
    BY <2>2, OneMoves DEF Moves
<1>3. CASE EmailPending(p)
  BY <1>3, OneMoves DEF EmailPending, GoTo, Moves, Proceeds, Passes
<1>4. CASE Notify(p)
  BY <1>4, OneMoves DEF Notify, Finish, Moves
<1> QED
  BY <1>1, <1>2, <1>3, <1>4 DEF Create

LEMMA UpdateMoves ==
    ASSUME Shape, NEW p \in Requests, Update(p)
    PROVE  Moves(p) /\ \A q \in Requests : q # p => req'[q] = req[q]
<1>1. CASE \E a \in Appts, dto \in Dtos : StartPatch(p, a, dto)
  <2>1. PICK a \in Appts, dto \in Dtos : StartPatch(p, a, dto)
    BY <1>1
  <2> DEFINE r == UpdateRequest(a, dto, "admin")
  <2>2. CanLoad(r) /\ Become(p, Loaded(r, appts[a]))
    BY <2>1 DEF StartPatch
  <2>3. r \in RequestType /\ HandlerOK(r) /\ r.op = "update" /\ r.pc = "load" /\ r.appt = a
    BY UpdateRequestType, ConstantsAssumption
  <2>4. req'[p] = Loaded(r, appts[r.appt]) => Reads(p)
    BY <2>2, <2>3 DEF Reads
  <2> HIDE DEF r
  <2> QED
    BY <2>2, <2>3, <2>4, OneMoves DEF Moves
<1>2. CASE \E a \in Appts, c \in Users : StartCancelMine(p, a, c)
  <2>1. PICK a \in Appts, c \in Users : StartCancelMine(p, a, c)
    BY <1>2
  <2> DEFINE r == UpdateRequest(a, StatusDto("cancelled"), "user")
  <2>2. Become(p, r)
    BY <2>1 DEF StartCancelMine
  <2>3. req'[p] = r => Asks(p)
    BY NoDtoFacts DEF Asks, Statuses, FinalStatuses
  <2> HIDE DEF r
  <2> QED
    BY <2>2, <2>3, OneMoves DEF Moves
<1>3. CASE \E a \in Appts, status \in {"confirmed", "cancelled"} : StartLink(p, a, status)
  <2>1. PICK a \in Appts, status \in {"confirmed", "cancelled"} : StartLink(p, a, status)
    BY <1>3
  <2> DEFINE r == [UpdateRequest(a, StatusDto(status), "admin") EXCEPT !.link = links[a]]
  <2>2. Become(p, r) /\ links[a] # Null
    BY <2>1 DEF StartLink
  <2>3. StatusDto(status) \in DtoType /\ StatusDto(status) \in {StatusDto("confirmed"), StatusDto("cancelled")}
    BY NoDtoFacts DEF Statuses, FinalStatuses, ActiveStatuses
  <2>4. req'[p] = r => Asks(p)
    BY <2>2, <2>3 DEF Asks
  <2> HIDE DEF r
  <2> QED
    BY <2>2, <2>4, OneMoves DEF Moves
<1>4. CASE Load(p)
  <2> DEFINE r == req[p]
  <2>1. r \in RequestType /\ HandlerOK(r) /\ r.op = "update" /\ r.pc = "load"
    BY <1>4, ShapeFacts DEF Load, HandlerOK
  <2>2. Become(p, Idle) \/ (CanLoad(r) /\ Become(p, Loaded(r, appts[r.appt])))
    BY <1>4 DEF Load, Finish
  <2>3. CanLoad(r) /\ req'[p] = Loaded(r, appts[r.appt]) => Reads(p)
    BY <2>1 DEF Reads
  <2> HIDE DEF r
  <2> QED
    BY <2>2, <2>3, OneMoves DEF Moves
<1>5. CASE ReadClient(p)
  BY <1>5, OneMoves DEF ReadClient, Finish, GoTo, Consults, Passes, Moves
<1>6. CASE Write(p)
  <2> DEFINE r == req[p]
             doc == appts[r.appt]
             s == [r EXCEPT !.pc = "mail", !.slot = Updated(r, doc).slot]
  <2>1. Become(p, Idle) \/ (Become(p, s) /\ Announces(p))
    BY <1>6 DEF Write, Finish, Become, Announces
  <2> HIDE DEF s
  <2> QED
    BY <2>1, OneMoves DEF Moves
<1>7. CASE Mail(p)
  BY <1>7, OneMoves DEF Mail, Finish, Moves
<1> QED
  BY <1>1, <1>2, <1>3, <1>4, <1>5, <1>6, <1>7 DEF Update

LEMMA SharedMoves ==
    ASSUME Shape, NEW p \in Requests, Shared(p)
    PROVE  Moves(p) /\ \A q \in Requests : q # p => req'[q] = req[q]
<1>1. CASE ReleaseKeys(p)
  BY <1>1, OneMoves DEF ReleaseKeys, GoTo, Proceeds, Passes, Moves
<1>2. CASE CheckActive(p)
  <2>1. req[p].op \in {"create", "update"} /\ req[p].pc = "active"
    BY <1>2, ShapeFacts DEF CheckActive, HandlerOK
  <2>2. \/ Become(p, Idle)
        \/ req[p].op = "update" /\ Become(p, [req[p] EXCEPT !.pc = "write", !.takesKey = TRUE])
        \/ req[p].op = "create" /\ Become(p, [req[p] EXCEPT !.pc = "barber"])
    BY <1>2, <2>1 DEF CheckActive, Finish, GoTo
  <2> QED
    BY <2>1, <2>2, OneMoves DEF TakesKey, Proceeds, Passes, Moves
<1>3. CASE ReadBarber(p)
  BY <1>3, OneMoves DEF ReadBarber, GoTo, Finish, Proceeds, Passes, Moves
<1>4. CASE ReadSchedule(p)
  BY <1>4, OneMoves DEF ReadSchedule, GoTo, Finish, Proceeds, Passes, Frees, Moves
<1>5. CASE CheckSlot(p)
  BY <1>5, OneMoves DEF CheckSlot, Finish, Frees, Moves
<1> QED
  BY <1>1, <1>2, <1>3, <1>4, <1>5 DEF Shared

(* Every step moves one handler, or all of them to rest. *)
LEMMA HandlerMoves ==
    ASSUME Shape, [Next]_vars
    PROVE  \A q \in Requests : Moves(q)
<1>1. ASSUME NEW p \in Requests, Create(p) \/ Update(p) \/ Shared(p)
      PROVE  \A q \in Requests : Moves(q)
  BY <1>1, CreateMoves, UpdateMoves, SharedMoves DEF Moves
<1>2. ASSUME NEW p \in Requests, Archiving(p) PROVE \A q \in Requests : Moves(q)
  <2>1. \/ Become(p, Idle)
        \/ \E a \in Appts : Become(p, [Idle EXCEPT !.op = "archive", !.pc = "archive",
                                                   !.appt = a, !.seen = appts[a].status])
    BY <1>2 DEF Archiving, StartArchive, Archive, Finish
  <2>2. CASE Become(p, Idle)
    BY <2>2, OneMoves DEF Moves
  <2>3. CASE ~Become(p, Idle)
    <3>1. PICK a \in Appts : Become(p, [Idle EXCEPT !.op = "archive", !.pc = "archive",
                                                    !.appt = a, !.seen = appts[a].status])
      BY <2>1, <2>3
    <3> DEFINE s == [Idle EXCEPT !.op = "archive", !.pc = "archive", !.appt = a, !.seen = appts[a].status]
    <3>2. req'[p] = s => Archives(p)
      BY DEF Archives
    <3>3. Become(p, s)
      BY <3>1
    <3> HIDE DEF s
    <3> QED
      BY <3>2, <3>3, OneMoves DEF Moves
  <2> QED
    BY <2>2, <2>3
<1>3. ASSUME NEW p \in Requests, Abandon(p) PROVE \A q \in Requests : Moves(q)
  BY <1>3, OneMoves DEF Abandon, Finish, Moves
<1>4. CASE Job \/ Directory \/ Tick \/ UNCHANGED vars
  <2>1. UNCHANGED req
    BY <1>4 DEF Job, JobFind, JobWrite, JobFail, Directory, People, ChangeRole, SetBookingAccess,
                RemoveUser, AddUser, AddBarber, SetBarber, EditSchedule, Tick, vars
  <2> QED
    BY <2>1 DEF Moves
<1>5. CASE Restart
  BY <1>5 DEF Restart, Moves
<1> QED
  BY <1>1, <1>2, <1>3, <1>4, <1>5 DEF Next

-------------------------------------------------------------------------------
\* What handlers know of the reservations they update

\* A transition that was announced is not undone.
Told(kind, status) ==
    IF kind = "cancelled" THEN status = "cancelled" ELSE status \notin {"absent", "pending"}

\* An update, r, of the collection docs: it is about a reservation of the client
\* it has read, and makes a transition from the status it has read; it takes the
\* client's key for an active reservation only; a link is for a pending one.
Knows(r, docs) ==
    r.op = "update" =>
        /\ r.actor = "user" => r.dto = StatusDto("cancelled")
        /\ r.pc = "load" => ~r.takesKey
        /\ r.pc # "load" =>
              /\ docs[r.appt].status # "absent" /\ docs[r.appt].client = r.client
              /\ NewStatus(r.seen, r.dto) \in Allowed(r.seen) \cup {r.seen}
              /\ r.takesKey \/ r.pc \in {"client", "release", "active"} =>
                     NewStatus(r.seen, r.dto) \in ActiveStatuses
              /\ r.link # Null => r.seen = "pending"
        /\ r.pc = "mail" => Told(r.dto.status, docs[r.appt].status)

KnowInv ==
    /\ Shape
    /\ \A p \in Requests : Knows(req[p], appts)
    /\ KeysAreReleased

\* The handlers that will still tell the client of a reservation, or send a link
Creating(r, a) == r.pc \in {"email", "whatsapp"} /\ r.appt = a
Telling(r, a, kind) == r.pc = "mail" /\ r.appt = a /\ r.dto.status = kind

\* Only the handler that made a reservation sends its links, once, and a link
\* that is being used is the one that was sent.
LinkInv ==
    /\ \A a \in Appts : appts[a].status = "absent" => links[a] = Null /\ mail[a].pending = 0
    /\ \A p \in Requests : \A a \in Appts :
          Creating(req[p], a) =>
              /\ appts[a].status # "absent" /\ links[a] = Null
              /\ req[p].pc = "email" => mail[a].pending = 0
              /\ \A q \in Requests \ {p} : ~Creating(req[q], a)
    /\ \A p \in Requests :
          req[p].op = "update" /\ req[p].link # Null => req[p].link = links[req[p].appt]

Kinds == {"confirmed", "cancelled"}

\* What was told happened, and what is about to be told happened and was not told.
TellInv ==
    \A a \in Appts :
        /\ mail[a].pending \in {0, 1}
        /\ \A kind \in Kinds :
              /\ mail[a][kind] \in {0, 1}
              /\ mail[a][kind] = 1 => Told(kind, appts[a].status)
              /\ \A p \in Requests : Telling(req[p], a, kind) =>
                    /\ mail[a][kind] = 0
                    /\ \A q \in Requests \ {p} : ~Telling(req[q], a, kind)

\* The job completes what started a day before.
TodoInv == \A w \in todo : StartsAt(w) + DayLength <= now

\* The life of a document: see StateMachine
Evolves(old, new) ==
    /\ old.status # new.status => <<old.status, new.status>> \in Legal
    /\ old.status # "absent" => new.client = old.client
    /\ old.status \in FinalStatuses =>
          /\ new.slot = old.slot /\ new.slotKey = old.slotKey
          /\ new.cancelledBy = old.cancelledBy /\ new.cancelledAt = old.cancelledAt

(* The state machine allows what the body of an update may ask for. *)
LEMMA AllowedIsLegal ==
    ASSUME NEW s \in ActiveStatuses, NEW n \in Allowed(s) \cup {s}
    PROVE  s # n => <<s, n>> \in Legal
  BY DEF ActiveStatuses, Allowed, Legal

\* The keys of a document are those that are due: see KeysAreReleased
KeysFit(d) ==
    /\ d.activeClientKey # Null => d.status \in ActiveStatuses /\ d.activeClientKey = d.client
    /\ d.status = "cancelled" => d.slotKey = Null

(* What an update writes is a step of the document's life. *)
LEMMA WriteEvolves ==
    ASSUME KnowInv, NEW a \in Appts, IsWritten(a)
    PROVE  /\ Evolves(appts[a], appts'[a])
           /\ KeysFit(appts'[a])
<1>1. PICK p \in Requests :
          /\ req[p].pc = "write" /\ req[p].appt = a
          /\ FilterMatches(req[p], appts[a])
          /\ appts'[a] = Updated(req[p], appts[a])
  BY DEF IsWritten
<1> DEFINE r == req[p]
           doc == appts[a]
           n == NewStatus(r.seen, r.dto)
<1>2. /\ r \in RequestType /\ r.op = "update" /\ r.seen \in ActiveStatuses
      /\ r.slot \in Slots /\ r.client \in Users
      /\ doc \in ApptType /\ doc.status = r.seen /\ doc.slot \in Slots
  BY <1>1, WriterFacts DEF KnowInv
<1>3. /\ n \in Allowed(r.seen) \cup {r.seen} /\ doc.client = r.client
      /\ r.takesKey => n \in ActiveStatuses
  BY <1>1, <1>2 DEF KnowInv, Knows
<1>4. appts'[a].status = n /\ appts'[a].client = doc.client
  BY <1>1, <1>2, UpdatedType
<1>5. appts'[a].activeClientKey = IF r.takesKey THEN r.client ELSE Null
  BY <1>1, <1>2 DEF Updated, ApptType
<1>8. n = "cancelled" => appts'[a].slotKey = Null
  BY <1>1, <1>2 DEF Updated, ApptType
<1> HIDE DEF n
<1>6. doc.status \notin FinalStatuses
  BY <1>2 DEF ActiveStatuses, FinalStatuses
<1>7. Evolves(doc, appts'[a])
  BY <1>2, <1>3, <1>4, <1>6, AllowedIsLegal DEF Evolves
<1>9. KeysFit(appts'[a])
  BY <1>3, <1>4, <1>5, <1>8 DEF KeysFit
<1> QED
  BY <1>7, <1>9

(* So is every other write, and none leaves a key behind. *)
LEMMA EvolvesStep ==
    ASSUME KnowInv, [Next]_vars, NEW a \in Appts
    PROVE  /\ Evolves(appts[a], appts'[a])
           /\ KeysFit(appts'[a])
<1> DEFINE doc == appts[a]
           new == appts'[a]
<1>1. Shape /\ doc \in ApptType /\ KeysFit(doc)
  BY DEF KnowInv, Shape, TypeOK, KeysAreReleased, Active, KeysFit
<1>2. CASE new = doc
  BY <1>1, <1>2 DEF Evolves, KeysFit
<1>3. CASE IsReleased(a)
  <2>1. PICK c \in Users : new = Released(doc, c)
    BY <1>3 DEF IsReleased
  <2>2. new = doc \/ new = [doc EXCEPT !.activeClientKey = Null]
    BY <2>1 DEF Released
  <2> QED
    BY <1>1, <2>2 DEF Evolves, ApptType, KeysFit
<1>4. CASE IsArchived(a)
  BY <1>1, <1>4 DEF IsArchived, Evolves, ApptType, KeysFit
<1>5. CASE IsSaved(a)
  <2>1. PICK p \in Requests : req[p].pc = "save" /\ doc.status = "absent" /\ new = NewAppt(req[p])
    BY <1>5 DEF IsSaved
  <2>2. req[p] \in RequestType /\ req[p].client \in Users /\ req[p].slot \in Slots
    BY <1>1, <2>1, ShapeFacts DEF HandlerOK
  <2>3. new.status = "pending" /\ new.client = req[p].client
    BY <2>1, <2>2, NewApptType
  <2>4. new.activeClientKey = IF req[p].takesKey THEN req[p].client ELSE Null
    BY <2>1 DEF NewAppt, NoAppt
  <2> QED
    BY <2>1, <2>3, <2>4 DEF Evolves, Legal, ActiveStatuses, FinalStatuses, KeysFit
<1>6. CASE IsCompleted(a)
  <2>1. new = Completed(doc) /\ doc.status = "confirmed"
    BY <1>6 DEF IsCompleted, JobMatches
  <2>2. new.activeClientKey = Null
    BY <1>1, <2>1 DEF Completed, ApptType
  <2> QED
    BY <1>1, <2>1, <2>2, CompletedType DEF Evolves, Legal, FinalStatuses, KeysFit
<1>7. IsWritten(a) => Evolves(doc, new) /\ KeysFit(new)
  BY WriteEvolves
<1> QED
  BY <1>1, <1>2, <1>3, <1>4, <1>5, <1>6, <1>7, DocStep

(* What a handler knows of a collection stays true as its documents evolve. *)
LEMMA KnowsOn ==
    ASSUME NEW r \in RequestType, HandlerOK(r), NEW old, NEW new, Knows(r, old),
           \A a \in Appts : Evolves(old[a], new[a])
    PROVE  Knows(r, new)
<1> SUFFICES ASSUME r.op = "update"
             PROVE  Knows(r, new)
  BY DEF Knows
<1>1. r.appt \in Appts /\ Evolves(old[r.appt], new[r.appt])
  BY DEF HandlerOK
<1>2. old[r.appt].status # "absent" => new[r.appt].status # "absent"
  BY <1>1 DEF Evolves, Legal
<1>3. Told(r.dto.status, old[r.appt].status) => Told(r.dto.status, new[r.appt].status)
  BY <1>1 DEF Evolves, Legal, Told
<1> QED
  BY <1>1, <1>2, <1>3 DEF Knows, Evolves

(* What a handler has found out when it has read its document *)
LEMMA LoadedKnows ==
    ASSUME Shape, NEW r \in RequestType, HandlerOK(r), r.op = "update", r.pc = "load",
           CanLoad(r), Knows(r, appts)
    PROVE  Knows(Loaded(r, appts[r.appt]), appts)
<1> DEFINE cur == appts[r.appt]
           read == [r EXCEPT !.seen = cur.status, !.client = cur.client,
                             !.slot = Merge(cur.slot, r.dto), !.at = now]
           n == NewStatus(cur.status, r.dto)
           s == Loaded(r, cur)
<1>1. /\ cur.status # "absent" /\ LinkAccepted(r, cur) /\ TransitionAllowed(r, cur)
      /\ ~r.takesKey /\ (r.actor = "user" => r.dto = StatusDto("cancelled"))
  BY DEF CanLoad, Accepted, Knows
<1>2. n \in Allowed(cur.status) \cup {cur.status}
  BY <1>1 DEF NewStatus, TransitionAllowed
<1>3. s = IF ChecksSlot(r, cur) THEN [read EXCEPT !.pc = "barber"] ELSE SlotIsFree(read)
  BY DEF Loaded
<1>4. /\ read.op = "update" /\ read.seen = cur.status /\ read.client = cur.client /\ read.appt = r.appt
      /\ read.dto = r.dto /\ read.actor = r.actor /\ read.link = r.link /\ ~read.takesKey
  BY <1>1 DEF RequestType
<1>5. /\ s.op = "update" /\ s.seen = cur.status /\ s.client = cur.client /\ s.appt = r.appt
      /\ s.dto = r.dto /\ s.actor = r.actor /\ s.link = r.link /\ ~s.takesKey
      /\ s.pc \in {"barber", "write"} \/ (s.pc = "client" /\ n \in ActiveStatuses)
  BY <1>1, <1>3, <1>4 DEF RequestType, SlotIsFree, Occupies
<1>6. r.link # Null => cur.status = "pending"
  BY <1>1 DEF LinkAccepted
<1> HIDE DEF s
<1>7. Knows(s, appts)
  BY <1>1, <1>2, <1>5, <1>6 DEF Knows
<1> QED
  BY <1>7 DEF s

(* What a handler has found out by another stage of the same update *)
LEMMA AdvanceKnows ==
    ASSUME NEW r \in RequestType, NEW docs, Knows(r, docs), r.pc \notin {"load", "mail"},
           NEW s, s.op = r.op, s.actor = r.actor, s.dto = r.dto, s.appt = r.appt, s.client = r.client,
           s.seen = r.seen, s.link = r.link, s.pc \notin {"load", "mail"},
           s.takesKey \/ s.pc \in {"client", "release", "active"} =>
               NewStatus(r.seen, r.dto) \in ActiveStatuses
    PROVE  Knows(s, docs)
  BY DEF Knows

LEMMA SlotIsFreeAdvances ==
    ASSUME NEW r \in RequestType
    PROVE  /\ SlotIsFree(r).op = r.op /\ SlotIsFree(r).appt = r.appt
           /\ SlotIsFree(r).slot = r.slot /\ SlotIsFree(r).dto = r.dto
  BY DEF SlotIsFree, RequestType

LEMMA KnowStep ==
    ASSUME KnowInv, [Next]_vars, NEW p \in Requests
    PROVE  Knows(req'[p], appts')
<1> DEFINE r == req[p]
           n == NewStatus(r.seen, r.dto)
<1>1. /\ Shape /\ r \in RequestType /\ HandlerOK(r) /\ Knows(r, appts) /\ Moves(p)
      /\ req'[p] \in RequestType /\ HandlerOK(req'[p])
  BY NextShape, HandlerMoves DEF KnowInv, Shape, TypeOK
<1>2. \A a \in Appts : Evolves(appts[a], appts'[a])
  BY EvolvesStep
<1>3. Knows(req'[p], appts) => Knows(req'[p], appts')
  BY <1>1, <1>2, KnowsOn
<1>4. CASE req'[p] = r \/ req'[p] = Idle \/ Starts(p) \/ Saves(p) \/ Archives(p)
  <2>1. Starts(p) \/ Archives(p) => req'[p].op # "update"
    BY IdleFacts DEF Starts, Archives, RequestType
  <2>2. Saves(p) => req'[p].op # "update"
    BY <1>1, IdleFacts DEF Saves, RequestType, Shape, TypeOK
  <2> QED
    BY <1>1, <1>3, <1>4, <2>1, <2>2, IdleFacts DEF Knows
<1>5. CASE Asks(p)
  <2>1. req'[p].pc = "load" /\ ~req'[p].takesKey
        /\ (req'[p].actor = "user" => req'[p].dto = StatusDto("cancelled"))
    BY <1>5, IdleFacts DEF Asks, UpdateRequest, Idle
  <2> QED
    BY <2>1 DEF Knows
<1>6. CASE Reads(p)
  <2>1. PICK u \in RequestType :
            /\ HandlerOK(u) /\ u.op = "update" /\ u.pc = "load"
            /\ u = r \/ \E a \in Appts, dto \in Dtos : u = UpdateRequest(a, dto, "admin")
            /\ CanLoad(u)
            /\ req'[p] = Loaded(u, appts[u.appt])
    BY <1>6 DEF Reads
  <2>2. Knows(u, appts)
    BY <1>1, <2>1 DEF Knows, UpdateRequest, Idle
  <2> QED
    BY <1>1, <1>3, <2>1, <2>2, LoadedKnows
<1>7. CASE Proceeds(p) \/ Consults(p) \/ Frees(p) \/ TakesKey(p)
  <2> SUFFICES ASSUME r.op = "update"
               PROVE  Knows(req'[p], appts')
    BY <1>1, <1>7, SlotIsFreeAdvances DEF Proceeds, Consults, Frees, TakesKey, Passes, Knows, RequestType
  <2> DEFINE s == req'[p]
  <2>1. /\ r.pc \in {"client", "release", "active", "barber", "schedule", "slot", "email"}
        /\ s.op = r.op /\ s.actor = r.actor /\ s.dto = r.dto /\ s.appt = r.appt /\ s.client = r.client
        /\ s.seen = r.seen /\ s.link = r.link /\ s.pc \notin {"load", "mail"}
        /\ s.takesKey => r.takesKey \/ r.pc = "active"
        /\ s.pc \in {"client", "release", "active"} =>
              r.pc \in {"client", "release", "active"} \/ n \in ActiveStatuses
    BY <1>1, <1>7 DEF Proceeds, Consults, Frees, TakesKey, Passes, SlotIsFree, Occupies, RequestType
  <2>2. s.takesKey \/ s.pc \in {"client", "release", "active"} => n \in ActiveStatuses
    BY <1>1, <2>1 DEF Knows
  <2> HIDE DEF s, r, n
  <2> QED
    BY <1>1, <1>3, <2>1, <2>2, AdvanceKnows DEF s, n
<1>8. CASE Announces(p)
  <2>1. /\ r.pc = "write" /\ r.op = "update" /\ r.appt \in Appts
        /\ req'[p] = [r EXCEPT !.pc = "mail", !.slot = Updated(r, appts[r.appt]).slot]
        /\ appts'[r.appt] = Updated(r, appts[r.appt]) /\ Announced(r)
    BY <1>1, <1>8 DEF Announces, HandlerOK, Shape, TypeOK
  <2>2. appts'[r.appt].status = n
    BY <1>1, <1>8, <2>1, WriterFacts, UpdatedType DEF Announces
  <2>3. Told(r.dto.status, n)
    BY <2>1, NullFacts DEF Announced, Told, NewStatus, Statuses, ActiveStatuses, FinalStatuses
  <2>4. Knows(r, appts')
    BY <1>1, <1>2, KnowsOn
  <2>5. /\ req'[p].op = r.op /\ req'[p].actor = r.actor /\ req'[p].dto = r.dto
        /\ req'[p].appt = r.appt /\ req'[p].client = r.client /\ req'[p].seen = r.seen
        /\ req'[p].link = r.link /\ req'[p].takesKey = r.takesKey /\ req'[p].pc = "mail"
    BY <1>1, <2>1 DEF RequestType
  <2> QED
    BY <2>1, <2>2, <2>3, <2>4, <2>5 DEF Knows
<1> QED
  BY <1>1, <1>4, <1>5, <1>6, <1>7, <1>8 DEF Moves

LEMMA InitKnowInv == Init => KnowInv
<1> SUFFICES ASSUME Init PROVE KnowInv
  OBVIOUS
<1>1. \A a \in Appts : appts[a].activeClientKey = Null /\ appts[a].status = "absent"
  BY DEF Init, Opening, NoAppt
<1>2. \A p \in Requests : req[p].op = "none"
  BY IdleFacts DEF Init, Opening
<1> QED
  BY <1>1, <1>2, InitShape DEF KnowInv, Knows, KeysAreReleased

LEMMA NextKnowInv == ASSUME KnowInv, [Next]_vars PROVE KnowInv'
<1>1. Shape'
  BY NextShape DEF KnowInv
<1>2. KeysAreReleased'
  BY EvolvesStep DEF KeysAreReleased, KeysFit, Active
<1> QED
  BY <1>1, <1>2, KnowStep DEF KnowInv

LEMMA KnowInvariant == Spec => []KnowInv
  BY InitKnowInv, NextKnowInv, PTL DEF Spec

(* Whoever decides, moves and closes a reservation and however the handlers  *)
(* overlap, the client's key is gone once it is cancelled, completed or      *)
(* missed, and the key of its slot once it is cancelled: a cancelled         *)
(* reservation keeps nobody from booking by either index.                    *)
THEOREM KeysDoNotOutlive == Spec => []KeysAreReleased
<1>1. KnowInv => KeysAreReleased
  BY DEF KnowInv
<1> QED
  BY <1>1, KnowInvariant, PTL

(* Reservations take the documented transitions only, and final ones keep    *)
(* what they are, whatever handlers and passes of the job overlap: the       *)
(* filter of an update compares the status with the one it decided on.       *)
THEOREM OnlyLegalTransitions == Spec => StateMachine
<1>1. ASSUME KnowInv, [Next]_vars
      PROVE  [\A a \in Appts :
                LET old == appts[a]
                    new == appts'[a]
                IN  /\ old.status # new.status => <<old.status, new.status>> \in Legal
                    /\ old.status \in FinalStatuses =>
                          /\ new.slot = old.slot /\ new.slotKey = old.slotKey
                          /\ new.cancelledBy = old.cancelledBy /\ new.cancelledAt = old.cancelledAt]_vars
  BY <1>1, EvolvesStep DEF Evolves
<1> QED
  BY <1>1, KnowInvariant, PTL DEF Spec, StateMachine

-------------------------------------------------------------------------------
\* The completion job

(* The instant at which the slot of a reservation starts is a number. *)
LEMMA StartIsNat ==
    ASSUME NEW d \in Days, NEW h \in Hours
    PROVE  d * DayLength + h \in Nat
<1>1. d \in Nat /\ h \in Nat /\ DayLength \in Nat
  BY ConstantsAssumption, DayLengthAssumption
<1> QED
  BY <1>1

LEMMA SlotStart ==
    ASSUME NEW slot \in Slots
    PROVE  slot.date \in Nat /\ slot.timeSlot \in 0..(DayLength - 1) /\ StartsAt(slot) \in Nat
  BY StartIsNat, ConstantsAssumption DEF Slots, StartsAt

(* The clock only advances. *)
LEMMA ClockAdvances ==
    ASSUME Shape, [Next]_vars
    PROVE  now \in Nat /\ now' \in Nat /\ now <= now' /\ (now' # now => UNCHANGED <<appts, req, todo, users>>)
<1>1. now \in Nat
  BY ConstantsAssumption DEF Shape, TypeOK, Instants
<1>2. ASSUME NEW p \in Requests, Create(p) PROVE now' = now
  BY <1>2 DEF Create, StartCreate, Save, EmailPending, Notify
<1>3. ASSUME NEW p \in Requests, Update(p) PROVE now' = now
  BY <1>3 DEF Update, StartPatch, StartCancelMine, StartLink, Load, ReadClient, Write, Mail
<1>4. ASSUME NEW p \in Requests, Shared(p) PROVE now' = now
  BY <1>4 DEF Shared, ReleaseKeys, CheckActive, ReadBarber, ReadSchedule, CheckSlot
<1>5. ASSUME NEW p \in Requests, Archiving(p) \/ Abandon(p) PROVE now' = now
  BY <1>5 DEF Archiving, StartArchive, Archive, Abandon
<1>6. CASE Job \/ Directory \/ Restart \/ UNCHANGED vars
  BY <1>1, <1>6 DEF Job, JobFind, JobWrite, JobFail, Directory, People, ChangeRole, SetBookingAccess,
              RemoveUser, AddUser, AddBarber, SetBarber, EditSchedule, Restart, vars
<1>7. CASE Tick
  BY <1>1, <1>7 DEF Tick, directory
<1> QED
  BY <1>1, <1>2, <1>3, <1>4, <1>5, <1>6, <1>7 DEF Next

(* Only the job changes what it has to write; a restart forgets it. *)
LEMMA TodoStep ==
    ASSUME Shape, [Next]_vars
    PROVE  todo' = todo \/ Job \/ (Restart /\ todo' = {})
<1>1. ASSUME NEW p \in Requests, Create(p) \/ Update(p) PROVE todo' = todo
  BY <1>1 DEF Create, StartCreate, Save, EmailPending, Notify,
              Update, StartPatch, StartCancelMine, StartLink, Load, ReadClient, Write, Mail
<1>2. ASSUME NEW p \in Requests, Shared(p) PROVE todo' = todo
  BY <1>2 DEF Shared, ReleaseKeys, CheckActive, ReadBarber, ReadSchedule, CheckSlot
<1>3. ASSUME NEW p \in Requests, Archiving(p) \/ Abandon(p) PROVE todo' = todo
  BY <1>3 DEF Archiving, StartArchive, Archive, Abandon
<1>4. CASE Directory \/ Tick \/ UNCHANGED vars
  BY <1>4 DEF Directory, People, ChangeRole, SetBookingAccess,
              RemoveUser, AddUser, AddBarber, SetBarber, EditSchedule, Tick, vars
<1>5. CASE Restart
  BY <1>5 DEF Restart
<1> QED
  BY <1>1, <1>2, <1>3, <1>4, <1>5 DEF Next

LEMMA NextTodoInv == ASSUME Shape, TodoInv, [Next]_vars PROVE TodoInv'
<1>1. \A w \in todo : StartsAt(w) \in Nat
  <2> SUFFICES ASSUME NEW w \in todo PROVE StartsAt(w) \in Nat
    OBVIOUS
  <2>1. w.date \in Days /\ w.timeSlot \in Hours
    BY DEF Shape, TypeOK
  <2> QED
    BY <2>1, StartIsNat DEF StartsAt
<1>2. CASE todo' \subseteq todo
  BY <1>1, <1>2, ClockAdvances, DayLengthAssumption DEF TodoInv
<1>3. CASE JobFind
  <2> SUFFICES ASSUME NEW w \in todo' PROVE StartsAt(w) + DayLength <= now'
    BY DEF TodoInv
  <2>1. PICK a \in Appts : /\ Due(appts[a])
                           /\ w = [appt |-> a, date |-> appts[a].slot.date,
                                   timeSlot |-> appts[a].slot.timeSlot]
    BY <1>3 DEF JobFind
  <2>2. appts[a].slot \in Slots
    BY <2>1 DEF Due, Shape, DocsOK
  <2>3. StartsAt(w) = StartsAt(appts[a].slot) /\ StartsAt(w) \in Nat
    BY <2>1, <2>2, SlotStart DEF StartsAt
  <2>4. StartsAt(appts[a].slot) <= now - DayLength
    BY <2>1 DEF Due, Cutoff
  <2>5. now' = now /\ now \in Nat
    BY <1>3, ClockAdvances DEF JobFind
  <2> QED
    BY <2>3, <2>4, <2>5, DayLengthAssumption
<1>4. CASE Job /\ ~JobFind
  BY <1>2, <1>4 DEF Job, JobWrite, JobFail
<1> QED
  BY <1>2, <1>3, <1>4, TodoStep

LEMMA TodoInvariant == Spec => [](Shape /\ TodoInv)
<1>1. Init => Shape /\ TodoInv
  BY InitShape DEF Init, Opening, TodoInv
<1>2. (Shape /\ TodoInv) /\ [Next]_vars => (Shape /\ TodoInv)'
  BY NextShape, NextTodoInv
<1> QED
  BY <1>1, <1>2, PTL DEF Spec

(* The job closes no reservation that did not start a day before, also when *)
(* the reservation was moved between the query and the bulk write.          *)
THEOREM JobClosesWhatIsDue == Spec => ClosedByJobIsDue
<1>1. ASSUME Shape, TodoInv, [Next]_vars, NEW a \in Appts,
             todo' # todo, appts[a].status # "completed", appts'[a].status = "completed"
      PROVE  StartsAt(appts[a].slot) + DayLength <= now
  <2>1. Job
    BY <1>1, TodoStep DEF Restart
  <2>2. IsCompleted(a)
    BY <1>1, <2>1, JobWrites
  <2>3. PICK w \in todo : w.appt = a /\ JobMatches(w, appts[a])
    BY <2>2 DEF IsCompleted
  <2>4. StartsAt(w) = StartsAt(appts[a].slot)
    BY <2>3 DEF JobMatches, StartsAt
  <2> QED
    BY <1>1, <2>3, <2>4 DEF TodoInv
<1>2. ASSUME Shape /\ TodoInv, [Next]_vars
      PROVE  [\A a \in Appts :
                todo' # todo /\ appts[a].status # "completed" /\ appts'[a].status = "completed"
                    => StartsAt(appts[a].slot) + DayLength <= now]_vars
  BY <1>1, <1>2
<1> QED
  BY <1>2, TodoInvariant, PTL DEF Spec, ClosedByJobIsDue

-------------------------------------------------------------------------------
\* The WhatsApp links

(* Only the end of a creation tells of a pending reservation and sends links. *)
LEMMA LinksStep ==
    ASSUME Shape, [Next]_vars
    PROVE  \/ links' = links /\ \A a \in Appts : mail'[a].pending = mail[a].pending
           \/ \E p \in Requests : EmailPending(p) \/ Notify(p)
<1>1. ASSUME NEW p \in Requests, Create(p) \/ Shared(p)
      PROVE  (links' = links /\ mail' = mail) \/ EmailPending(p) \/ Notify(p)
  BY <1>1 DEF Create, StartCreate, Save, Shared, ReleaseKeys, CheckActive, ReadBarber, ReadSchedule, CheckSlot
<1>2. ASSUME NEW p \in Requests, Update(p), ~Mail(p) PROVE links' = links /\ mail' = mail
  BY <1>2 DEF Update, StartPatch, StartCancelMine, StartLink, Load, ReadClient, Write
<1>3. ASSUME NEW p \in Requests, Archiving(p) \/ Abandon(p) PROVE links' = links /\ mail' = mail
  BY <1>3 DEF Archiving, StartArchive, Archive, Abandon
<1>4. CASE Job \/ Directory \/ Restart \/ Tick \/ UNCHANGED vars
  BY <1>4 DEF Job, JobFind, JobWrite, JobFail, Directory, People, ChangeRole, SetBookingAccess,
              RemoveUser, AddUser, AddBarber, SetBarber, EditSchedule, Restart, Tick, vars
<1>5. ASSUME NEW p \in Requests, Mail(p)
      PROVE  links' = links /\ \A a \in Appts : mail'[a].pending = mail[a].pending
  <2> DEFINE b == req[p].appt
             kind == req[p].dto.status
  <2>1. b \in Appts /\ kind \in {"confirmed", "cancelled"} /\ mail \in [Appts -> MailType]
    BY <1>5, ShapeFacts DEF Mail, HandlerOK
  <2>2. links' = links /\ (mail' = [mail EXCEPT ![b][kind] = @ + 1] \/ mail' = mail)
    BY <1>5 DEF Mail
  <2> HIDE DEF b, kind
  <2> QED
    BY <2>1, <2>2 DEF MailType
<1> QED
  BY <1>1, <1>2, <1>3, <1>4, <1>5 DEF Next

(* What a handler is after it has saved, or written and announced *)
LEMMA AfterWriting ==
    ASSUME Shape, NEW q \in Requests
    PROVE  /\ Saves(q) => /\ req'[q].op = "create" /\ req'[q].pc = "email"
                          /\ \A p \in Requests \ {q} : req'[p] = req[p]
           /\ Announces(q) =>
                 /\ req'[q] = [req[q] EXCEPT !.pc = "mail",
                                             !.slot = Updated(req[q], appts[req[q].appt]).slot]
                 /\ \A p \in Requests \ {q} : req'[p] = req[p]
<1>1. req \in [Requests -> RequestType] /\ Idle \in RequestType
  BY IdleFacts DEF Shape, TypeOK
<1>2. CASE Saves(q)
  <2>1. PICK a \in Appts :
            req' = [req EXCEPT ![q] = [Idle EXCEPT !.op = "create", !.pc = "email",
                                                   !.appt = a, !.slot = req[q].slot]]
    BY <1>2 DEF Saves
  <2> DEFINE s == [Idle EXCEPT !.op = "create", !.pc = "email", !.appt = a, !.slot = req[q].slot]
  <2>2. s.op = "create" /\ s.pc = "email"
    BY <1>1 DEF RequestType
  <2> HIDE DEF s
  <2>3. req'[q] = s /\ \A p \in Requests \ {q} : req'[p] = req[p]
    BY <1>1, <2>1 DEF s
  <2>4. ~Announces(q)
    BY <2>2, <2>3, <1>1, <1>2 DEF Announces, Saves
  <2> QED
    BY <2>2, <2>3, <2>4
<1>3. Announces(q) =>
         /\ req'[q] = [req[q] EXCEPT !.pc = "mail",
                                     !.slot = Updated(req[q], appts[req[q].appt]).slot]
         /\ \A p \in Requests \ {q} : req'[p] = req[p]
  BY <1>1 DEF Announces
<1> QED
  BY <1>2, <1>3

(* Only the handler that saves a reservation goes on to announce it. *)
LEMMA CreatingStep ==
    ASSUME Shape, NEW q \in Requests, Moves(q), ~Saves(q), NEW a \in Appts, Creating(req'[q], a)
    PROVE  Creating(req[q], a) /\ (req'[q].pc = "email" => req[q].pc = "email")
<1> DEFINE r == req[q]
<1>1. r \in RequestType /\ HandlerOK(r)
  BY ShapeFacts
<1>2. ~(req'[q] = Idle) /\ ~Starts(q) /\ ~Asks(q) /\ ~Archives(q)
  BY IdleFacts DEF Starts, Asks, Archives, UpdateRequest, Idle, Creating
<1>3. ~Reads(q)
  <2>1. \A u \in RequestType : \A cur : u.op = "update" =>
            Loaded(u, cur).pc \notin {"email", "whatsapp"}
    BY DEF Loaded, SlotIsFree, RequestType
  <2> QED
    BY <2>1 DEF Reads, Creating
<1>4. ~Consults(q) /\ ~Frees(q) /\ ~TakesKey(q) /\ ~Announces(q)
  BY <1>1, AfterWriting DEF Consults, Passes, Frees, SlotIsFree, TakesKey, RequestType, Creating
<1>5. CASE Proceeds(q)
  BY <1>1, <1>5 DEF Proceeds, Passes, RequestType, Creating
<1>6. CASE req'[q] = r
  BY <1>6 DEF Creating
<1> QED
  BY <1>2, <1>3, <1>4, <1>5, <1>6 DEF Moves

(* A handler keeps the link it came with. *)
LEMMA LinkKept ==
    ASSUME Shape, NEW q \in Requests, Moves(q),
           req[q].op = "update" /\ req[q].link # Null => req[q].link = links[req[q].appt],
           req'[q].op = "update", req'[q].link # Null
    PROVE  req'[q].link = links[req'[q].appt]
<1> DEFINE r == req[q]
<1>1. r \in RequestType /\ HandlerOK(r)
  BY ShapeFacts
<1>2. ~(req'[q] = Idle) /\ ~Starts(q) /\ ~Archives(q)
  BY IdleFacts DEF Starts, Archives, RequestType
<1>3. ~Saves(q)
  BY AfterWriting
<1>4. CASE Asks(q)
  BY <1>4 DEF Asks, UpdateRequest, Idle
<1>5. CASE Reads(q)
  <2>1. PICK u \in RequestType :
            /\ u.op = "update"
            /\ u = r \/ \E a \in Appts, dto \in Dtos : u = UpdateRequest(a, dto, "admin")
            /\ req'[q] = Loaded(u, appts[u.appt])
    BY <1>5 DEF Reads
  <2>2. req'[q].link = u.link /\ req'[q].appt = u.appt
    BY <2>1 DEF Loaded, SlotIsFree, RequestType
  <2>3. u.link # Null => u = r
    BY <2>1 DEF UpdateRequest, Idle
  <2> QED
    BY <2>1, <2>2, <2>3
<1>6. CASE req'[q] = r \/ Proceeds(q) \/ Consults(q) \/ Frees(q) \/ TakesKey(q) \/ Announces(q)
  <2>1. req'[q].op = r.op /\ req'[q].link = r.link /\ req'[q].appt = r.appt
    BY <1>1, <1>6, AfterWriting DEF Proceeds, Consults, Passes, Frees, SlotIsFree, TakesKey, RequestType
  <2> QED
    BY <2>1
<1> QED
  BY <1>2, <1>3, <1>4, <1>5, <1>6 DEF Moves

LEMMA NextLinkInv ==
    ASSUME KnowInv, LinkInv, [Next]_vars
    PROVE  LinkInv' /\ \A a \in Appts : links[a] # Null => links'[a] = links[a]
<1>0. Shape /\ (\A q \in Requests : Moves(q)) /\ links \in [Appts -> LinkType \cup {Null}]
      /\ appts \in [Appts -> ApptType]
  BY HandlerMoves DEF KnowInv, Shape, TypeOK
<1>1. \A a \in Appts : appts'[a].status = "absent" => appts[a].status = "absent"
  BY EvolvesStep DEF Evolves, Legal
<1>2. \A q \in Requests : req'[q].op = "update" /\ req'[q].link # Null =>
          req'[q].appt \in Appts /\ req'[q].link = links[req'[q].appt]
  <2>1. Shape'
    BY NextShape DEF KnowInv
  <2> QED
    BY <1>0, <2>1, LinkKept DEF LinkInv, Shape, HandlerOK
<1>3. \A q \in Requests : \A a \in Appts : ~Saves(q) /\ Creating(req'[q], a) =>
          Creating(req[q], a) /\ (req'[q].pc = "email" => req[q].pc = "email")
  BY <1>0, CreatingStep
<1>4. CASE \E p \in Requests : Saves(p)
  <2>1. PICK p \in Requests : Saves(p)
    BY <1>4
  <2>2. PICK a \in Appts :
            /\ req[p].pc = "save" /\ appts[a].status = "absent"
            /\ appts' = [appts EXCEPT ![a] = NewAppt(req[p])]
            /\ req' = [req EXCEPT ![p] = [Idle EXCEPT !.op = "create", !.pc = "email",
                                                      !.appt = a, !.slot = req[p].slot]]
    BY <2>1 DEF Saves
  <2>3. appts'[a].status = "pending"
    BY <1>0, <2>2 DEF NewAppt, NoAppt
  <2>4. links' = links /\ \A b \in Appts : mail'[b].pending = mail[b].pending
    BY <1>0, <2>2, <2>3, LinksStep DEF EmailPending, Notify
  <2>5. \A b \in Appts : b # a => appts'[b] = appts[b]
    BY <2>2
  <2>6. \A b \in Appts : Creating(req'[p], b) <=> b = a
    BY <1>0, <2>2, IdleFacts DEF Creating, RequestType, Shape, TypeOK
  <2>7. \A q \in Requests \ {p} : req'[q] = req[q] /\ ~Creating(req[q], a)
    BY <1>0, <2>1, <2>2, AfterWriting DEF LinkInv
  <2>8. links[a] = Null /\ mail[a].pending = 0
    BY <2>2 DEF LinkInv
  <2>9. \A q \in Requests : \A b \in Appts : Creating(req'[q], b) =>
            /\ appts'[b].status # "absent" /\ links'[b] = Null
            /\ req'[q].pc = "email" => mail'[b].pending = 0
            /\ \A o \in Requests \ {q} : ~Creating(req'[o], b)
    BY <2>3, <2>4, <2>5, <2>6, <2>7, <2>8 DEF LinkInv
  <2>10. \A b \in Appts : appts'[b].status = "absent" => links'[b] = Null /\ mail'[b].pending = 0
    BY <1>1, <2>4 DEF LinkInv
  <2> QED
    BY <1>2, <2>4, <2>9, <2>10 DEF LinkInv
<1>5. CASE (\A p \in Requests : ~Saves(p)) /\ links' = links
             /\ \A a \in Appts : mail'[a].pending = mail[a].pending
  BY <1>1, <1>2, <1>3, <1>5 DEF LinkInv
<1>6. CASE (\A p \in Requests : ~Saves(p)) /\ \E p \in Requests : EmailPending(p)
  <2>1. PICK p \in Requests : EmailPending(p)
    BY <1>6
  <2> DEFINE a == req[p].appt
  <2>2. /\ a \in Appts /\ Creating(req[p], a) /\ links' = links
        /\ req' = [req EXCEPT ![p] = [req[p] EXCEPT !.pc = "whatsapp"]]
        /\ mail' = [mail EXCEPT ![a].pending = @ + 1]
    BY <1>0, <2>1, ShapeFacts DEF EmailPending, HandlerOK, Creating, GoTo, Become
  <2>3. req'[p].pc = "whatsapp"
    BY <1>0, <2>2 DEF Shape, TypeOK, RequestType
  <2>4. \A b \in Appts : b # a => mail'[b] = mail[b]
    BY <2>2
  <2>5. \A q \in Requests \ {p} : ~Creating(req[q], a)
    BY <2>2 DEF LinkInv
  <2>6. appts[a].status # "absent"
    BY <2>2 DEF LinkInv
  <2> HIDE DEF a
  <2> QED
    BY <1>1, <1>2, <1>3, <1>6, <2>2, <2>3, <2>4, <2>5, <2>6 DEF LinkInv
<1>7. CASE (\A p \in Requests : ~Saves(p)) /\ \E p \in Requests : Notify(p)
  <2>1. PICK p \in Requests : Notify(p)
    BY <1>7
  <2> DEFINE a == req[p].appt
  <2>2. /\ a \in Appts /\ Creating(req[p], a) /\ mail' = mail /\ req' = [req EXCEPT ![p] = Idle]
        /\ links' = links \/ links' = [links EXCEPT ![a] = LinkFor(req[p].slot)]
    BY <1>0, <2>1, ShapeFacts DEF Notify, HandlerOK, Creating, Finish, Become
  <2>3. ~Creating(req'[p], a) /\ \A b \in Appts : ~Creating(req'[p], b)
    BY <1>0, <2>2, IdleFacts DEF Creating, Shape, TypeOK
  <2>4. \A b \in Appts : b # a => links'[b] = links[b]
    BY <1>0, <2>2
  <2>5. /\ \A q \in Requests \ {p} : ~Creating(req[q], a)
        /\ links[a] = Null /\ appts[a].status # "absent"
    BY <2>2 DEF LinkInv
  <2> HIDE DEF a
  <2> QED
    BY <1>1, <1>2, <1>3, <1>7, <2>2, <2>3, <2>4, <2>5 DEF LinkInv
<1> QED
  BY <1>0, <1>4, <1>5, <1>6, <1>7, LinksStep

LEMMA InitLinkInv == Init => LinkInv
  BY IdleFacts DEF Init, Opening, LinkInv, Creating, NoAppt

LEMMA LinkInvariant == Spec => [](KnowInv /\ LinkInv)
<1>1. (KnowInv /\ LinkInv) /\ [Next]_vars => (KnowInv /\ LinkInv)'
  BY NextKnowInv, NextLinkInv
<1> QED
  BY <1>1, InitKnowInv, InitLinkInv, PTL DEF Spec

(* A handler that is at its write, and moves while the collection changes, *)
(* has written.                                                            *)
LEMMA WriterWrites ==
    ASSUME Shape, [Next]_vars, NEW p \in Requests, req[p].pc = "write", appts' # appts, req'[p] # req[p]
    PROVE  Write(p) /\ FilterMatches(req[p], appts[req[p].appt])
<1>1. ASSUME NEW q \in Requests, Create(q) PROVE FALSE
  <2>1. q = p
    BY <1>1, CreateMoves
  <2> QED
    BY <1>1, <2>1 DEF Create, StartCreate, Save, EmailPending, Notify
<1>2. ASSUME NEW q \in Requests, Update(q) PROVE Write(p)
  <2>1. q = p
    BY <1>2, UpdateMoves
  <2> QED
    BY <1>2, <2>1 DEF Update, StartPatch, StartCancelMine, StartLink, Load, ReadClient, Mail
<1>3. ASSUME NEW q \in Requests, Shared(q) PROVE FALSE
  <2>1. q = p
    BY <1>3, SharedMoves
  <2> QED
    BY <1>3, <2>1 DEF Shared, ReleaseKeys, CheckActive, ReadBarber, ReadSchedule, CheckSlot
<1>4. ASSUME NEW q \in Requests, Archiving(q) PROVE FALSE
  <2>1. Archive(q) /\ q # p
    BY <1>4 DEF Archiving, StartArchive, Archive
  <2> QED
    BY <2>1, OneMoves DEF Archive, Finish
<1>5. CASE (\E q \in Requests : Abandon(q)) \/ Job \/ Directory \/ Restart \/ Tick \/ UNCHANGED vars
  BY <1>5 DEF Abandon, Job, JobFind, JobWrite, JobFail, Directory, People, ChangeRole, SetBookingAccess,
              RemoveUser, AddUser, AddBarber, SetBarber, EditSchedule, Restart, Tick, vars
<1>6. Write(p)
  BY <1>1, <1>2, <1>3, <1>4, <1>5 DEF Next
<1> QED
  BY <1>6 DEF Write

(* A link acts on the reservation it was sent for, while that is pending and *)
(* at the date and time it signs: the filter of the write compares them with *)
(* the document as it is, whatever happened since the link was opened.       *)
THEOREM LinksActAsSigned == Spec => LinkActsOnWhatItSigns
<1>1. ASSUME KnowInv, LinkInv, [Next]_vars, NEW p \in Requests,
             req[p].pc = "write", req[p].link # Null, appts' # appts, req'[p] # req[p]
      PROVE  /\ appts[req[p].appt].status = "pending"
             /\ links[req[p].appt] = req[p].link
             /\ LinkMatches(req[p].link, appts[req[p].appt])
  <2>1. FilterMatches(req[p], appts[req[p].appt]) /\ req[p].op = "update"
    BY <1>1, WriterWrites, ShapeFacts DEF KnowInv, HandlerOK
  <2>2. req[p].seen = "pending"
    BY <1>1, <2>1 DEF KnowInv, Knows
  <2> QED
    BY <1>1, <2>1, <2>2 DEF FilterMatches, LinkInv
<1>2. ASSUME KnowInv /\ LinkInv, [Next]_vars
      PROVE  [\A p \in Requests :
                req[p].pc = "write" /\ req[p].link # Null /\ appts' # appts /\ req'[p] # req[p]
                    => /\ appts[req[p].appt].status = "pending"
                       /\ links[req[p].appt] = req[p].link
                       /\ LinkMatches(req[p].link, appts[req[p].appt])]_vars
  BY <1>1, <1>2
<1> QED
  BY <1>2, LinkInvariant, PTL DEF Spec, LinkActsOnWhatItSigns

-------------------------------------------------------------------------------
\* The emails

(* Only the end of an update tells of a decision. *)
LEMMA MailStep ==
    ASSUME Shape, [Next]_vars
    PROVE  \/ \A a \in Appts : \A kind \in Kinds : mail'[a][kind] = mail[a][kind]
           \/ \E p \in Requests : Mail(p)
<1>1. ASSUME NEW p \in Requests, Create(p) \/ Shared(p)
      PROVE  mail' = mail \/ EmailPending(p)
  BY <1>1 DEF Create, StartCreate, Save, Notify, Shared, ReleaseKeys, CheckActive, ReadBarber, ReadSchedule, CheckSlot
<1>2. ASSUME NEW p \in Requests, Update(p), ~Mail(p) PROVE mail' = mail
  BY <1>2 DEF Update, StartPatch, StartCancelMine, StartLink, Load, ReadClient, Write
<1>3. ASSUME NEW p \in Requests, Archiving(p) \/ Abandon(p) PROVE mail' = mail
  BY <1>3 DEF Archiving, StartArchive, Archive, Abandon
<1>4. CASE Job \/ Directory \/ Restart \/ Tick \/ UNCHANGED vars
  BY <1>4 DEF Job, JobFind, JobWrite, JobFail, Directory, People, ChangeRole, SetBookingAccess,
              RemoveUser, AddUser, AddBarber, SetBarber, EditSchedule, Restart, Tick, vars
<1>5. ASSUME NEW p \in Requests, EmailPending(p)
      PROVE  \A a \in Appts : \A kind \in Kinds : mail'[a][kind] = mail[a][kind]
  <2>1. mail \in [Appts -> MailType] /\ mail' = [mail EXCEPT ![req[p].appt].pending = @ + 1]
    BY <1>5, ShapeFacts DEF EmailPending
  <2> QED
    BY <2>1 DEF MailType, Kinds
<1> QED
  BY <1>1, <1>2, <1>3, <1>4, <1>5 DEF Next

(* Only the handler that made the transition goes on to tell of it. *)
LEMMA TellingStep ==
    ASSUME Shape, NEW q \in Requests, Moves(q), ~Announces(q), NEW a \in Appts, NEW kind,
           Telling(req'[q], a, kind)
    PROVE  Telling(req[q], a, kind)
<1> DEFINE r == req[q]
<1>1. r \in RequestType /\ HandlerOK(r)
  BY ShapeFacts
<1>2. ~(req'[q] = Idle) /\ ~Starts(q) /\ ~Asks(q) /\ ~Archives(q) /\ ~Saves(q)
  BY IdleFacts, AfterWriting DEF Starts, Asks, Archives, UpdateRequest, Idle, Telling
<1>3. ~Reads(q)
  <2>1. \A u \in RequestType : \A cur : u.op = "update" => Loaded(u, cur).pc # "mail"
    BY DEF Loaded, SlotIsFree, RequestType
  <2> QED
    BY <2>1 DEF Reads, Telling
<1>4. ~Consults(q) /\ ~Frees(q) /\ ~TakesKey(q) /\ ~Proceeds(q)
  BY <1>1 DEF Consults, Passes, Frees, SlotIsFree, TakesKey, Proceeds, RequestType, Telling
<1>5. req'[q] = r
  BY <1>2, <1>3, <1>4 DEF Moves
<1> QED
  BY <1>5

(* What one update announces, nobody announced before or is about to. *)
LEMMA AnnouncesOnce ==
    ASSUME KnowInv, TellInv, NEW p \in Requests, Announces(p)
    PROVE  LET a == req[p].appt
               kind == req[p].dto.status
           IN  /\ a \in Appts /\ kind \in Kinds /\ mail[a][kind] = 0
               /\ \A q \in Requests : ~Telling(req[q], a, kind)
<1> DEFINE r == req[p]
           a == r.appt
           kind == r.dto.status
           doc == appts[a]
<1>1. r.pc = "write" /\ Announced(r) /\ FilterMatches(r, doc) /\ Shape
  BY DEF Announces, KnowInv
<1>2. /\ a \in Appts /\ doc.status = r.seen /\ r.seen \in ActiveStatuses
  BY <1>1, WriterFacts
<1>3. kind \in Kinds /\ ~Told(kind, doc.status)
  BY <1>1, <1>2 DEF Announced, Told, Kinds, ActiveStatuses
<1>4. mail[a][kind] = 0
  BY <1>2, <1>3 DEF TellInv
<1>5. ASSUME NEW q \in Requests, Telling(req[q], a, kind) PROVE FALSE
  <2>1. req[q].op = "update" /\ req[q].pc = "mail" /\ req[q].appt = a /\ req[q].dto.status = kind
    BY <1>1, <1>5, ShapeFacts DEF Telling, HandlerOK
  <2> QED
    BY <1>3, <2>1 DEF KnowInv, Knows
<1> QED
  BY <1>2, <1>3, <1>4, <1>5

LEMMA NextTellInv ==
    ASSUME KnowInv, LinkInv, TellInv, [Next]_vars
    PROVE  TellInv'
<1>0. Shape /\ (\A q \in Requests : Moves(q)) /\ mail \in [Appts -> MailType]
  BY HandlerMoves DEF KnowInv, Shape, TypeOK
<1>1. \A a \in Appts : \A kind \in Kinds : Told(kind, appts[a].status) => Told(kind, appts'[a].status)
  BY EvolvesStep DEF Evolves, Legal, Told, Kinds
<1>2. \A q \in Requests : \A a \in Appts : \A kind \in Kinds :
          ~Announces(q) /\ Telling(req'[q], a, kind) => Telling(req[q], a, kind)
  BY <1>0, TellingStep
<1>3. \A a \in Appts : mail'[a].pending \in {0, 1}
  <2>1. CASE \E p \in Requests : EmailPending(p)
    <3>1. PICK p \in Requests : EmailPending(p)
      BY <2>1
    <3>2. req[p].appt \in Appts /\ mail[req[p].appt].pending = 0
      BY <1>0, <3>1, ShapeFacts DEF EmailPending, LinkInv, Creating, HandlerOK
    <3>3. mail' = [mail EXCEPT ![req[p].appt].pending = @ + 1]
      BY <3>1 DEF EmailPending
    <3> QED
      BY <1>0, <3>2, <3>3 DEF MailType, TellInv
  <2>2. CASE \E p \in Requests : Notify(p)
    BY <2>2 DEF Notify, TellInv
  <2> QED
    BY <1>0, <2>1, <2>2, LinksStep DEF TellInv
<1>4. CASE \E p \in Requests : Mail(p)
  <2>1. PICK p \in Requests : Mail(p)
    BY <1>4
  <2> DEFINE b == req[p].appt
             k == req[p].dto.status
  <2>2. /\ b \in Appts /\ k \in Kinds /\ Telling(req[p], b, k)
        /\ req' = [req EXCEPT ![p] = Idle]
        /\ mail' = [mail EXCEPT ![b][k] = @ + 1] \/ mail' = mail
    BY <1>0, <2>1, ShapeFacts DEF Mail, HandlerOK, Kinds, Telling, Finish, Become
  <2>3. \A q \in Requests \ {p} : req'[q] = req[q] /\ ~Telling(req[q], b, k)
    BY <1>0, <2>2 DEF TellInv
  <2>4. \A a \in Appts : \A kind \in Kinds : ~Telling(req'[p], a, kind)
    BY <1>0, <2>2, IdleFacts DEF Telling, Shape, TypeOK
  <2>5. mail[b][k] = 0
    BY <2>2 DEF TellInv
  <2>6. Told(k, appts[b].status)
    BY <1>0, <2>2, ShapeFacts DEF Telling, KnowInv, Knows, HandlerOK
  <2> HIDE DEF b, k
  <2>7. \A a \in Appts : \A kind \in Kinds :
            mail'[a][kind] = mail[a][kind] \/ (a = b /\ kind = k /\ mail'[a][kind] = 1)
    BY <1>0, <2>2, <2>5 DEF MailType, Kinds
  <2> QED
    BY <1>1, <1>3, <2>2, <2>3, <2>4, <2>6, <2>7 DEF TellInv
<1>5. CASE (\A a \in Appts : \A kind \in Kinds : mail'[a][kind] = mail[a][kind])
           /\ \E p \in Requests : Announces(p)
  <2>1. PICK p \in Requests : Announces(p)
    BY <1>5
  <2> DEFINE b == req[p].appt
             k == req[p].dto.status
  <2>2. b \in Appts /\ k \in Kinds /\ mail[b][k] = 0 /\ \A q \in Requests : ~Telling(req[q], b, k)
    BY <2>1, AnnouncesOnce
  <2>3. \A a \in Appts : \A kind \in Kinds : Telling(req'[p], a, kind) => a = b /\ kind = k
    BY <1>0, <2>1, AfterWriting DEF Telling, Shape, TypeOK, RequestType
  <2>4. \A q \in Requests \ {p} : req'[q] = req[q]
    BY <1>0, <2>1, AfterWriting
  <2> HIDE DEF b, k
  <2> QED
    BY <1>1, <1>3, <1>5, <2>2, <2>3, <2>4 DEF TellInv
<1>6. CASE (\A a \in Appts : \A kind \in Kinds : mail'[a][kind] = mail[a][kind])
           /\ \A p \in Requests : ~Announces(p)
  BY <1>1, <1>2, <1>3, <1>6 DEF TellInv
<1> QED
  BY <1>0, <1>4, <1>5, <1>6, MailStep

LEMMA TellInvariant == Spec => [](KnowInv /\ LinkInv /\ TellInv)
<1>1. Init => TellInv
  BY IdleFacts DEF Init, Opening, TellInv, Telling, Kinds
<1>2. (KnowInv /\ LinkInv /\ TellInv) /\ [Next]_vars => (KnowInv /\ LinkInv /\ TellInv)'
  BY NextKnowInv, NextLinkInv, NextTellInv
<1> QED
  BY <1>1, <1>2, InitKnowInv, InitLinkInv, PTL DEF Spec

(* A client hears of a booking, a confirmation and a cancellation at most    *)
(* once, and only of what happened, with any number of handlers that try to  *)
(* make the same transition.                                                 *)
THEOREM NothingIsToldTwice == Spec => []AnnouncedOnce
<1>1. ASSUME KnowInv, LinkInv, TellInv PROVE AnnouncedOnce
  <2> SUFFICES ASSUME NEW a \in Appts
               PROVE  /\ \A kind \in DOMAIN mail[a] : mail[a][kind] <= 1
                      /\ mail[a].pending = 1 => appts[a].status # "absent"
                      /\ mail[a].confirmed = 1 => appts[a].status \notin {"absent", "pending"}
                      /\ mail[a].cancelled = 1 => appts[a].status = "cancelled"
    BY DEF AnnouncedOnce
  <2>1. DOMAIN mail[a] = {"pending", "confirmed", "cancelled"}
    BY <1>1 DEF KnowInv, Shape, TypeOK, MailType
  <2>2. /\ mail[a].pending \in {0, 1}
        /\ mail[a].confirmed \in {0, 1} /\ mail[a].cancelled \in {0, 1}
        /\ mail[a].confirmed = 1 => Told("confirmed", appts[a].status)
        /\ mail[a].cancelled = 1 => Told("cancelled", appts[a].status)
    BY <1>1 DEF TellInv, Kinds
  <2>3. mail[a].pending = 1 => appts[a].status # "absent"
    BY <1>1 DEF LinkInv
  <2> QED
    BY <2>1, <2>2, <2>3 DEF Told
<1> QED
  BY <1>1, TellInvariant, PTL

===============================================================================
