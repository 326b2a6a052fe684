----------------------------- MODULE Appointments -----------------------------
(***************************************************************************)
(* The reservations of the barber shop: the handlers of                    *)
(* appointments.service.ts as the controllers call them, the job of        *)
(* appointment-completion.service.ts, and the one collection they share.   *)
(*                                                                         *)
(* Handlers run concurrently: a step is what one handler does between two  *)
(* awaits, that is one operation of the database and the code that looks   *)
(* at its result.  A handler that is refused or fails simply stops.  The   *)
(* collection is updated one document at a time, and its two unique sparse *)
(* indexes are the only thing that two handlers cannot both get past.      *)
(***************************************************************************)
EXTENDS Calendar, Clients, FiniteSets

CONSTANTS
    Barbers,
    Appts,              \* identifiers of reservations: a bound on how many are ever made
    Requests,           \* handlers that may be running at the same time (a bound)
    Days, Hours,        \* the dates and the times of day that can be reserved
    Notice,             \* the 12 hours a client must give to cancel
    WindowDays,         \* the 7 days ahead a client may reserve
    MaxNow,             \* the clock stops here (a bound)
    Dtos,               \* the bodies of PATCH /appointments/:id that are sent
    Admins,             \* the users that are administrators at the beginning
    OpeningAgenda,      \* the slots that the schedules offer at the beginning
    Endpoints           \* what is called, see EndpointNames (a bound)

Slots == [barber: Barbers, date: Days, timeSlot: Hours]
Instants == 0..MaxNow

ActiveStatuses == {"pending", "confirmed"}
FinalStatuses == {"cancelled", "completed", "no_show"}
HeldStatuses == {"pending", "confirmed", "completed", "no_show"}
Statuses == ActiveStatuses \cup FinalStatuses

DtoType == [status: Statuses \cup {Null}, barber: Barbers \cup {Null},
            date: Days \cup {Null}, timeSlot: Hours \cup {Null}]

\* The endpoints, and the changes of the directory that other services make.
EndpointNames == {"create", "patch", "cancelMine", "link", "archive",
                  "role", "access", "account", "barber", "schedule"}

ASSUME ConstantsAssumption ==
    /\ Hours \subseteq 0..(DayLength - 1)
    /\ Days \subseteq Nat
    /\ Notice \in Nat /\ WindowDays \in Nat /\ MaxNow \in Nat
    /\ Dtos \subseteq DtoType
    /\ Admins \subseteq Users
    /\ OpeningAgenda \subseteq Slots
    /\ Endpoints \subseteq EndpointNames

ASSUME NullAssumption ==
    Null \notin Slots \cup Users \cup Barbers \cup Appts \cup Days \cup Hours \cup Statuses

VARIABLES
    now,        \* the clock
    appts,      \* the collection of reservations
    req,        \* the handlers in progress
    todo,       \* the updates the completion job has prepared and not yet written
    mail,       \* how many emails of each kind were sent about a reservation
    links,      \* the WhatsApp links of a reservation: what they sign
    barbers,    \* whether a barber takes reservations, was removed, or is yet to come
    agenda      \* the slots that the schedules offer (getScheduleSlots)

directory == <<users, barbers, agenda>>
vars == <<now, appts, req, todo, mail, links, users, barbers, agenda>>

-------------------------------------------------------------------------------
\* Documents and handlers

ApptType ==
    [status: Statuses \cup {"absent"}, client: Users \cup {Null}, slot: Slots \cup {Null},
     slotKey: Slots \cup {Null}, activeClientKey: Users \cup {Null},
     cancelledBy: {"user", "admin", Null}, cancelledAt: Instants \cup {Null}, archived: BOOLEAN]

NoAppt ==
    [status |-> "absent", client |-> Null, slot |-> Null, slotKey |-> Null,
     activeClientKey |-> Null, cancelledBy |-> Null, cancelledAt |-> Null, archived |-> FALSE]

NoDto == [status |-> Null, barber |-> Null, date |-> Null, timeSlot |-> Null]
StatusDto(s) == [NoDto EXCEPT !.status = s]

LinkType == [date: Days, timeSlot: Hours, exp: Nat]

\* How often each kind of email was sent about a reservation
MailType == [pending: Nat, confirmed: Nat, cancelled: Nat]

\* Where a handler is: the operation of the database it is waiting for.
Stages == {"idle", "load", "client", "release", "active", "barber", "schedule",
           "slot", "save", "write", "mail", "email", "whatsapp", "archive"}

RequestType ==
    [pc: Stages, op: {"none", "create", "update", "archive"},
     client: Users \cup {Null}, admin: BOOLEAN, slot: Slots \cup {Null},
     appt: Appts \cup {Null}, dto: DtoType, actor: {"user", "admin", Null},
     link: LinkType \cup {Null}, seen: Statuses \cup {Null},
     takesKey: BOOLEAN, at: Instants]

Idle ==
    [pc |-> "idle", op |-> "none", client |-> Null, admin |-> FALSE, slot |-> Null,
     appt |-> Null, dto |-> NoDto, actor |-> Null, link |-> Null, seen |-> Null,
     takesKey |-> FALSE, at |-> 0]

Become(p, r) == req' = [req EXCEPT ![p] = r]
Finish(p) == Become(p, Idle)
GoTo(p, stage) == Become(p, [req[p] EXCEPT !.pc = stage])

BarberExists(b) == barbers[b] \in {"active", "inactive"}

Held(a) == appts[a].status \in HeldStatuses
Active(a) == appts[a].status \in ActiveStatuses

\* The slot that a PATCH asks for: what the body leaves out stays.
Merge(slot, dto) ==
    [barber   |-> IF dto.barber = Null THEN slot.barber ELSE dto.barber,
     date     |-> IF dto.date = Null THEN slot.date ELSE dto.date,
     timeSlot |-> IF dto.timeSlot = Null THEN slot.timeSlot ELSE dto.timeSlot]

ChangesSlot(dto) == dto.barber # Null \/ dto.date # Null \/ dto.timeSlot # Null
NewStatus(status, dto) == IF dto.status = Null THEN status ELSE dto.status

\* occupiesClientKey: a reservation of a client holds the client's key until it starts
Occupies(slot, status, t) == status \in ActiveStatuses /\ IsFuture(slot, t)

\* The unique sparse indexes of the collection: writing doc at a is a duplicate.
TakenSlotKey(a, doc) == doc.slotKey # Null /\ \E b \in Appts \ {a} : appts[b].slotKey = doc.slotKey
TakenClientKey(a, doc) ==
    doc.activeClientKey # Null /\ \E b \in Appts \ {a} : appts[b].activeClientKey = doc.activeClientKey
\* mutants: one of the two indexes is missing
OnlyClientIndex(a, doc) == TakenClientKey(a, doc)
OnlySlotIndex(a, doc) == TakenSlotKey(a, doc)
Duplicate(a, doc) == TakenSlotKey(a, doc) \/ TakenClientKey(a, doc)

-------------------------------------------------------------------------------
\* Steps that creating and updating a reservation share

\* releaseExpiredClientKeys: the client's key goes from every reservation of
\* the client that has started or is no longer active.
\* mutant: the filter forgets the date and the time
ReleasedAlways(doc, c) ==
    IF doc.activeClientKey = c THEN [doc EXCEPT !.activeClientKey = Null] ELSE doc

Released(doc, c) ==
    IF doc.activeClientKey = c /\ ~Occupies(doc.slot, doc.status, now)
    THEN [doc EXCEPT !.activeClientKey = Null] ELSE doc

ReleaseKeys(p) ==
    /\ req[p].pc = "release"
    /\ appts' = [a \in Appts |-> Released(appts[a], req[p].client)]
    /\ GoTo(p, "active")
    /\ UNCHANGED <<now, todo, mail, links, directory>>

\* getNonExpiredActiveAppointmentFilter: another future active reservation of the client
HasActive(c, except) ==
    \E a \in Appts \ {except} : appts[a].client = c /\ Active(a) /\ IsFuture(appts[a].slot, now)

CheckActive(p) ==
    LET r == req[p] IN
    /\ r.pc = "active"
    /\ IF HasActive(r.client, r.appt) THEN Finish(p)
       ELSE IF r.op = "update"
            THEN Become(p, [r EXCEPT !.pc = "write", !.takesKey = TRUE])
            ELSE IF IsExpired(r.slot, now) THEN Finish(p) ELSE GoTo(p, "barber")
    /\ UNCHANGED <<now, appts, todo, mail, links, directory>>

\* validateBarberAvailabilityForSlot reads the barber, then the schedule.
ReadBarber(p) ==
    LET r == req[p] IN
    /\ r.pc = "barber"
    /\ IF barbers[r.slot.barber] = "active" THEN GoTo(p, "schedule") ELSE Finish(p)
    /\ UNCHANGED <<now, appts, todo, mail, links, directory>>

\* What a handler does once its slot is known to be free: a creation builds
\* its document, an update asks whether the reservation holds the client's key.
SlotIsFree(r) ==
    IF r.op = "create"
    THEN [r EXCEPT !.pc = "save", !.takesKey = ~r.admin /\ Occupies(r.slot, "pending", now)]
    ELSE [r EXCEPT !.pc = IF Occupies(r.slot, NewStatus(r.seen, r.dto), now)
                          THEN "client" ELSE "write"]

\* When the slot of a creation expired on the way its conflict filter is
\* empty and no reservation is looked up (getNonExpiredDateTimeFilter).
ReadSchedule(p) ==
    LET r == req[p] IN
    /\ r.pc = "schedule"
    /\ IF r.slot \notin agenda THEN Finish(p)
       ELSE IF r.op = "create" /\ IsExpired(r.slot, now)
            THEN Become(p, SlotIsFree(r))
            ELSE GoTo(p, "slot")
    /\ UNCHANGED <<now, appts, todo, mail, links, directory>>

SlotTaken(slot, except) == \E a \in Appts \ {except} : Held(a) /\ appts[a].slot = slot

CheckSlot(p) ==
    LET r == req[p] IN
    /\ r.pc = "slot"
    /\ IF SlotTaken(r.slot, r.appt) THEN Finish(p)
       ELSE Become(p, SlotIsFree(r))
    /\ UNCHANGED <<now, appts, todo, mail, links, directory>>

-------------------------------------------------------------------------------
\* POST /appointments

\* Bound: a creation starts only while an identifier is left for it.
Room == Cardinality({p \in Requests : req[p].op = "create" /\ req[p].appt = Null})
          < Cardinality({a \in Appts : appts[a].status = "absent"})

\* The user is read.  A client books at most WindowDays ahead; the key and the
\* active reservation of an administrator are not looked at.
StartCreate(p, c, slot) ==
    /\ "create" \in Endpoints
    /\ req[p].pc = "idle" /\ Room
    /\ users[c] # Null
    /\ ~users[c].blocked
    /\ IF users[c].role = "admin"
       THEN ~IsExpired(slot, now)
       ELSE slot.date <= Today(now) + WindowDays
    /\ Become(p, [Idle EXCEPT !.op = "create", !.client = c, !.slot = slot,
                              !.admin = (users[c].role = "admin"),
                              !.pc = IF users[c].role = "admin" THEN "barber" ELSE "release"])
    /\ UNCHANGED <<now, appts, todo, mail, links, directory>>

\* mutant: the condition for the key is stored in its place
NewApptWithFlag(r) ==
    [NoAppt EXCEPT !.status = "pending", !.client = r.client, !.slot = r.slot,
                   !.slotKey = r.slot, !.activeClientKey = r.takesKey]

NewAppt(r) ==
    [NoAppt EXCEPT !.status = "pending", !.client = r.client, !.slot = r.slot,
                   !.slotKey = r.slot,
                   !.activeClientKey = IF r.takesKey THEN r.client ELSE Null]

Save(p, a) ==
    LET r == req[p] IN
    /\ r.pc = "save"
    /\ appts[a].status = "absent"
    /\ IF Duplicate(a, NewAppt(r))
       THEN Finish(p) /\ UNCHANGED appts
       ELSE /\ appts' = [appts EXCEPT ![a] = NewAppt(r)]
            /\ Become(p, [Idle EXCEPT !.op = "create", !.pc = "email",
                                      !.appt = a, !.slot = r.slot])
    /\ UNCHANGED <<now, todo, mail, links, directory>>

\* AppointmentLinksService.create: the links sign the slot that was asked for
\* and live for 24 hours, or until the reservation starts.
LinkFor(slot) ==
    LET start == StartsAt(slot) IN
    [date |-> slot.date, timeSlot |-> slot.timeSlot,
     exp |-> IF now + DayLength < start THEN now + DayLength ELSE start]

\* The email to the client, after the reservation is saved; whether it gets
\* through or times out, the creation goes on.
EmailPending(p) ==
    LET r == req[p] IN
    /\ r.pc = "email"
    /\ mail' = [mail EXCEPT ![r.appt].pending = @ + 1]
    /\ GoTo(p, "whatsapp")
    /\ UNCHANGED <<now, appts, todo, links, directory>>

\* The WhatsApp message to the shop, after the email.  Unless the links are
\* exercised WhatsApp is not configured; a message that fails is a link that
\* nobody opens.
Notify(p) ==
    LET r == req[p] IN
    /\ r.pc = "whatsapp"
    /\ links' = IF "link" \in Endpoints
                THEN [links EXCEPT ![r.appt] = LinkFor(r.slot)] ELSE links
    /\ Finish(p)
    /\ UNCHANGED <<now, appts, todo, mail, directory>>

-------------------------------------------------------------------------------
\* AppointmentsService.update: PATCH /appointments/:id by an administrator,
\* PATCH /appointments/me/:id/cancel by the client, and the WhatsApp links

Allowed(status) ==
    IF status = "pending" THEN {"confirmed", "cancelled"}
    ELSE {"completed", "cancelled", "no_show"}

\* The link is for a pending reservation that has not moved or started.
LinkMatches(link, doc) ==
    link # Null => doc.slot.date = link.date /\ doc.slot.timeSlot = link.timeSlot

LinkAccepted(r, cur) ==
    r.link # Null => /\ cur.status = "pending"
                     /\ LinkMatches(r.link, cur)
                     /\ StartsAt(cur.slot) > now

\* mutant: the time of the appointment is not compared at all
NoNotice(r, cur) == TRUE

\* A client cancels at least Notice before the start.
NoticeGiven(r, cur) ==
    r.dto.status = "cancelled" /\ r.actor = "user" => StartsAt(cur.slot) - now >= Notice

\* mutant: the start of the appointment is not looked at
ClosableBefore(r, cur) ==
    r.dto.status \notin {Null, cur.status} =>
        /\ r.dto.status \in Allowed(cur.status)
        /\ r.dto.status \in {"completed", "no_show"} => r.actor = "admin"

\* The transition that the body asks for is one of the state machine's.
TransitionAllowed(r, cur) ==
    r.dto.status \notin {Null, cur.status} =>
        /\ r.dto.status \in Allowed(cur.status)
        /\ r.dto.status \in {"completed", "no_show"} =>
               r.actor = "admin" /\ now >= StartsAt(cur.slot)

\* What update() looks at in the document it has read before it goes on.
Accepted(r, cur) ==
    /\ LinkAccepted(r, cur)
    /\ cur.status \in ActiveStatuses
    /\ r.dto.status = "no_show" => Merge(cur.slot, r.dto) = cur.slot
    /\ TransitionAllowed(r, cur)
    /\ NoticeGiven(r, cur)

ChecksSlot(r, cur) == ChangesSlot(r.dto) /\ NewStatus(cur.status, r.dto) # "cancelled"

\* The document is read: r is the handler with what it keeps of it, the slot
\* it asks for being completed from it.
Loaded(r, cur) ==
    LET read == [r EXCEPT !.seen = cur.status, !.client = cur.client,
                          !.slot = Merge(cur.slot, r.dto), !.at = now]
    IN  IF ChecksSlot(r, cur) THEN [read EXCEPT !.pc = "barber"] ELSE SlotIsFree(read)

CanLoad(r) ==
    LET cur == appts[r.appt] IN
    /\ cur.status # "absent"
    /\ Accepted(r, cur)
    /\ ChecksSlot(r, cur) => ~IsExpired(Merge(cur.slot, r.dto), now)

UpdateRequest(a, dto, actor) ==
    [Idle EXCEPT !.op = "update", !.pc = "load", !.appt = a, !.dto = dto, !.actor = actor]

\* The controller of the administrator's PATCH calls update() at once.
StartPatch(p, a, dto) ==
    LET r == UpdateRequest(a, dto, "admin") IN
    /\ "patch" \in Endpoints
    /\ req[p].pc = "idle"
    /\ CanLoad(r)
    /\ Become(p, Loaded(r, appts[a]))
    /\ UNCHANGED <<now, appts, todo, mail, links, directory>>

\* The controller reads the reservation first: it must be the client's own,
\* the client still exist, and the reservation be active.
StartCancelMine(p, a, c) ==
    /\ "cancelMine" \in Endpoints
    /\ req[p].pc = "idle"
    /\ Active(a) /\ appts[a].client = c /\ users[c] # Null
    /\ Become(p, UpdateRequest(a, StatusDto("cancelled"), "user"))
    /\ UNCHANGED <<now, appts, todo, mail, links, directory>>

\* The link has not expired, and the reservation it names is still pending at
\* the date and time it signs.
StartLink(p, a, status) ==
    /\ "link" \in Endpoints
    /\ req[p].pc = "idle"
    /\ links[a] # Null /\ links[a].exp > now
    /\ appts[a].status = "pending" /\ LinkMatches(links[a], appts[a])
    /\ Become(p, [UpdateRequest(a, StatusDto(status), "admin") EXCEPT !.link = links[a]])
    /\ UNCHANGED <<now, appts, todo, mail, links, directory>>

\* The second read, inside update()
Load(p) ==
    LET r == req[p] IN
    /\ r.pc = "load"
    /\ IF CanLoad(r) THEN Become(p, Loaded(r, appts[r.appt])) ELSE Finish(p)
    /\ UNCHANGED <<now, appts, todo, mail, links, directory>>

\* The client of the reservation decides who looks after the key.
ReadClient(p) ==
    LET r == req[p] IN
    /\ r.pc = "client"
    /\ IF users[r.client] = Null THEN Finish(p)
       ELSE GoTo(p, IF users[r.client].role = "admin" THEN "write" ELSE "release")
    /\ UNCHANGED <<now, appts, todo, mail, links, directory>>

\* mutants: a filter that forgets the status, and one that forgets the link
FilterWithoutStatus(r, doc) == LinkMatches(r.link, doc)
FilterWithoutLink(r, doc) == doc.status = r.seen

\* The filter of findOneAndUpdate: the status is still the one that was read
\* and, for a link, the date and the time are still the ones it signs.
FilterMatches(r, doc) == doc.status = r.seen /\ LinkMatches(r.link, doc)

\* mutant: the slot key of a moved reservation is left as it was
UpdatedKeepingSlotKey(r, doc) ==
    LET status == NewStatus(r.seen, r.dto)
        cancelling == status = "cancelled"
    IN  [doc EXCEPT !.status = status,
                    !.slot = Merge(doc.slot, r.dto),
                    !.slotKey = IF cancelling THEN Null ELSE @,
                    !.activeClientKey = IF r.takesKey THEN r.client ELSE Null,
                    !.cancelledBy = IF cancelling THEN r.actor ELSE @,
                    !.cancelledAt = IF cancelling THEN r.at ELSE @]

\* The document it writes: the body, the slot key of the slot that was asked
\* for, and the client's key.
Updated(r, doc) ==
    LET status == NewStatus(r.seen, r.dto)
        cancelling == status = "cancelled"
    IN  [doc EXCEPT !.status = status,
                    !.slot = Merge(doc.slot, r.dto),
                    !.slotKey = IF cancelling THEN Null ELSE r.slot,
                    !.activeClientKey = IF r.takesKey THEN r.client ELSE Null,
                    !.cancelledBy = IF cancelling THEN r.actor ELSE @,
                    !.cancelledAt = IF cancelling THEN r.at ELSE @]

\* The transitions that are announced to the client
Announced(r) ==
    \/ r.seen = "pending" /\ r.dto.status = "confirmed"
    \/ r.dto.status = "cancelled"

Write(p) ==
    LET r == req[p]
        new == Updated(r, appts[r.appt])
    IN
    /\ r.pc = "write"
    /\ IF FilterMatches(r, appts[r.appt]) /\ ~Duplicate(r.appt, new)
       THEN /\ appts' = [appts EXCEPT ![r.appt] = new]
            /\ IF Announced(r)
               THEN Become(p, [r EXCEPT !.pc = "mail", !.slot = new.slot]) ELSE Finish(p)
       ELSE Finish(p) /\ UNCHANGED appts
    /\ UNCHANGED <<now, todo, mail, links, directory>>

\* notifyAppointmentConfirmed, notifyAppointmentCancelled: the email service is
\* called once, whether or not the email gets through, and not at all if the
\* client or the barber of the document that was written is gone.
Mail(p) ==
    LET r == req[p] IN
    /\ r.pc = "mail"
    /\ mail' = IF users[r.client] # Null /\ BarberExists(r.slot.barber)
               THEN [mail EXCEPT ![r.appt][r.dto.status] = @ + 1] ELSE mail
    /\ Finish(p)
    /\ UNCHANGED <<now, appts, todo, links, directory>>

-------------------------------------------------------------------------------
\* DELETE /appointments/:id archives a reservation that is final

StartArchive(p, a) ==
    /\ "archive" \in Endpoints
    /\ req[p].pc = "idle"
    /\ appts[a].status \in FinalStatuses
    /\ Become(p, [Idle EXCEPT !.op = "archive", !.pc = "archive",
                              !.appt = a, !.seen = appts[a].status])
    /\ UNCHANGED <<now, appts, todo, mail, links, directory>>

Archive(p) ==
    LET r == req[p] IN
    /\ r.pc = "archive"
    /\ IF appts[r.appt].status = r.seen /\ ~appts[r.appt].archived
       THEN appts' = [appts EXCEPT ![r.appt].archived = TRUE]
       ELSE UNCHANGED appts
    /\ Finish(p)
    /\ UNCHANGED <<now, todo, mail, links, directory>>

-------------------------------------------------------------------------------
\* AppointmentCompletionService: one pass reads the candidates and writes them
\* in one unordered bulk.  A pass does not start while another runs.

Cutoff == now - DayLength

\* mutant: only what started exactly 24 hours ago is due
DueNow(doc) ==
    /\ doc.status = "confirmed"
    /\ doc.slot.date <= Today(Cutoff)
    /\ StartsAt(doc.slot) = Cutoff

\* The start of the reservation is 24 hours ago; the query narrows by date first.
Due(doc) ==
    /\ doc.status = "confirmed"
    /\ doc.slot.date <= Today(Cutoff)
    /\ StartsAt(doc.slot) <= Cutoff

JobFind ==
    /\ todo = {}
    /\ \E a \in Appts : Due(appts[a])
    /\ todo' = {[appt |-> a, date |-> appts[a].slot.date, timeSlot |-> appts[a].slot.timeSlot] :
                    a \in {b \in Appts : Due(appts[b])}}
    /\ UNCHANGED <<now, appts, req, mail, links, directory>>

\* mutant: only the state is rechecked
JobMatchesStatus(w, doc) == doc.status = "confirmed"

\* "Recheck state and schedule atomically"
JobMatches(w, doc) ==
    /\ doc.status = "confirmed"
    /\ doc.slot.date = w.date /\ doc.slot.timeSlot = w.timeSlot

\* mutant: the completed reservation keeps the client's key
CompletedWithKey(doc) == [doc EXCEPT !.status = "completed"]

Completed(doc) == [doc EXCEPT !.status = "completed", !.activeClientKey = Null]

JobWrite(w) ==
    /\ appts' = IF JobMatches(w, appts[w.appt])
                THEN [appts EXCEPT ![w.appt] = Completed(@)] ELSE appts
    /\ todo' = todo \ {w}
    /\ UNCHANGED <<now, req, mail, links, directory>>

\* The pass fails before it has written everything; the next minute retries.
JobFail ==
    /\ todo # {}
    /\ todo' = {}
    /\ UNCHANGED <<now, appts, req, mail, links, directory>>

-------------------------------------------------------------------------------
\* The directory: what users, barbers and schedules let an administrator do

\* PATCH /users/:id changes the role.
ChangeRole(c) ==
    /\ "role" \in Endpoints
    /\ SwitchRole(c)
    /\ UNCHANGED <<now, appts, req, todo, mail, links, barbers, agenda>>

\* PATCH /clients/:id/booking-access
SetBookingAccess(c) ==
    /\ "access" \in Endpoints
    /\ SwitchAccess(c)
    /\ UNCHANGED <<now, appts, req, todo, mail, links, barbers, agenda>>

\* DELETE /users/:id leaves the reservations of the user behind.
RemoveUser(c) ==
    /\ "account" \in Endpoints
    /\ Unregister(c)
    /\ UNCHANGED <<now, appts, req, todo, mail, links, barbers, agenda>>

\* A new account has an identifier that nothing refers to yet.
Unused(c) == (\A a \in Appts : appts[a].client # c) /\ (\A p \in Requests : req[p].client # c)

AddUser(c) ==
    /\ "account" \in Endpoints
    /\ Unused(c)
    /\ Register(c)
    /\ UNCHANGED <<now, appts, req, todo, mail, links, barbers, agenda>>

\* POST /barbers
AddBarber(b, state) ==
    /\ "barber" \in Endpoints
    /\ barbers[b] = "absent"
    /\ barbers' = [barbers EXCEPT ![b] = state]
    /\ UNCHANGED <<now, appts, req, todo, mail, links, users, agenda>>

\* PATCH and DELETE /barbers/:id
SetBarber(b, state) ==
    /\ "barber" \in Endpoints
    /\ BarberExists(b)
    /\ barbers' = [barbers EXCEPT ![b] = state]
    /\ UNCHANGED <<now, appts, req, todo, mail, links, users, agenda>>

\* The schedule endpoints change what is offered, whatever is reserved; module
\* Schedules has them in detail.
EditSchedule ==
    /\ "schedule" \in Endpoints
    /\ agenda' \in SUBSET Slots
    /\ UNCHANGED <<now, appts, req, todo, mail, links, users, barbers>>

-------------------------------------------------------------------------------
\* The clock, and what ends handlers early

Tick ==
    /\ now < MaxNow
    /\ now' = now + 1
    /\ UNCHANGED <<appts, req, todo, mail, links, directory>>

\* An await rejects, or the connection of the handler is lost.
Abandon(p) ==
    /\ req[p].pc # "idle"
    /\ Finish(p)
    /\ UNCHANGED <<now, appts, todo, mail, links, directory>>

\* The process stops and starts again: nothing but the database survives.
Restart ==
    /\ req' = [p \in Requests |-> Idle]
    /\ todo' = {}
    /\ UNCHANGED <<now, appts, mail, links, directory>>

-------------------------------------------------------------------------------
\* The program starts with a collection of reservations.
Opening(collection) ==
    /\ now = 0
    /\ appts = collection
    /\ req = [p \in Requests |-> Idle]
    /\ todo = {}
    /\ mail = [a \in Appts |-> [pending |-> 0, confirmed |-> 0, cancelled |-> 0]]
    /\ links = [a \in Appts |-> Null]
    /\ users = [c \in Users |-> [role |-> IF c \in Admins THEN "admin" ELSE "user",
                                 blocked |-> FALSE]]
    /\ barbers = [b \in Barbers |-> IF \E s \in OpeningAgenda : s.barber = b
                                    THEN "active" ELSE "absent"]
    /\ agenda = OpeningAgenda

Init == Opening([a \in Appts |-> NoAppt])

Create(p) ==
    \/ \E c \in Users, slot \in Slots : StartCreate(p, c, slot)
    \/ \E a \in Appts : Save(p, a)
    \/ EmailPending(p)
    \/ Notify(p)

Update(p) ==
    \/ \E a \in Appts, dto \in Dtos : StartPatch(p, a, dto)
    \/ \E a \in Appts, c \in Users : StartCancelMine(p, a, c)
    \/ \E a \in Appts, status \in {"confirmed", "cancelled"} : StartLink(p, a, status)
    \/ Load(p)
    \/ ReadClient(p)
    \/ Write(p)
    \/ Mail(p)

Shared(p) ==
    \/ ReleaseKeys(p)
    \/ CheckActive(p)
    \/ ReadBarber(p)
    \/ ReadSchedule(p)
    \/ CheckSlot(p)

Archiving(p) ==
    \/ \E a \in Appts : StartArchive(p, a)
    \/ Archive(p)

Job ==
    \/ JobFind
    \/ \E w \in todo : JobWrite(w)
    \/ JobFail

People ==
    \/ \E c \in Users : ChangeRole(c) \/ SetBookingAccess(c) \/ RemoveUser(c) \/ AddUser(c)
    \/ \E b \in Barbers, state \in {"active", "inactive"} : AddBarber(b, state)
    \/ \E b \in Barbers, state \in {"active", "inactive", "removed"} : SetBarber(b, state)

Directory == People \/ EditSchedule

Next ==
    \/ \E p \in Requests : Create(p) \/ Update(p) \/ Shared(p) \/ Archiving(p) \/ Abandon(p)
    \/ Job
    \/ Directory
    \/ Restart
    \/ Tick

Spec == Init /\ [][Next]_vars

-------------------------------------------------------------------------------
\* Properties

\* Every variable keeps to the values its part of the program can hold.
TypeOK ==
    /\ now \in Instants
    /\ appts \in [Appts -> ApptType]
    /\ req \in [Requests -> RequestType]
    /\ todo \subseteq [appt : Appts, date : Days, timeSlot : Hours]
    /\ mail \in [Appts -> MailType]
    /\ links \in [Appts -> LinkType \cup {Null}]
    /\ users \in [Users -> ClientType \cup {Null}]
    /\ barbers \in [Barbers -> {"absent", "active", "inactive", "removed"}]
    /\ agenda \subseteq Slots

\* No barber is promised to two clients: of the reservations that are not
\* cancelled, no two have the same barber, date and time (README: "slotKey
\* independently protects each barber slot").
OneHolderPerSlot ==
    \A a, b \in Appts : a # b /\ Held(a) /\ Held(b) => appts[a].slot # appts[b].slot

\* No key outlives what it protects: the client's key goes when a reservation
\* is cancelled, completed or missed, the key of the slot when it is cancelled,
\* so that neither index ever refuses a booking for its sake (README:
\* "Cancellation and completion remove it").
KeysAreReleased ==
    \A a \in Appts :
        /\ appts[a].activeClientKey # Null =>
               Active(a) /\ appts[a].activeClientKey = appts[a].client
        /\ appts[a].status = "cancelled" => appts[a].slotKey = Null

Legal == {<<"absent", "pending">>, <<"pending", "confirmed">>, <<"pending", "cancelled">>,
          <<"confirmed", "completed">>, <<"confirmed", "cancelled">>, <<"confirmed", "no_show">>}

\* Whatever handlers and passes of the job overlap, a reservation only takes
\* the transitions of the state machine, and one that is final keeps its
\* status, its slot, its slot key and the record of its cancellation (README:
\* "final and cannot be edited or reactivated").
StateMachine ==
    [][\A a \in Appts :
         LET old == appts[a]
             new == appts'[a]
         IN  /\ old.status # new.status => <<old.status, new.status>> \in Legal
             /\ old.status \in FinalStatuses =>
                   /\ new.slot = old.slot /\ new.slotKey = old.slotKey
                   /\ new.cancelledBy = old.cancelledBy /\ new.cancelledAt = old.cancelledAt
      ]_vars

\* The client hears of a confirmation and of a cancellation at most once, and
\* only of what happened, however many handlers make the same transition
\* (README: "concurrent confirmations cannot both trigger the email").
AnnouncedOnce ==
    \A a \in Appts :
        /\ \A kind \in DOMAIN mail[a] : mail[a][kind] <= 1
        /\ mail[a].pending = 1 => appts[a].status # "absent"
        /\ mail[a].confirmed = 1 => appts[a].status \notin {"absent", "pending"}
        /\ mail[a].cancelled = 1 => appts[a].status = "cancelled"

\* The job only closes a reservation that started 24 hours ago, even when the
\* reservation was moved after the job read it.
ClosedByJobIsDue ==
    [][\A a \in Appts :
         todo' # todo /\ appts[a].status # "completed" /\ appts'[a].status = "completed"
             => StartsAt(appts[a].slot) + DayLength <= now
      ]_vars

\* A reservation is completed or missed only once it has started (README:
\* "completed by administration from their start time onward").
CompletedHasStarted ==
    \A a \in Appts :
        appts[a].status \in {"completed", "no_show"} => StartsAt(appts[a].slot) <= now

\* A link acts on the reservation it was sent for, as pending and at the date
\* and time it signs, and not on one that was moved since it was opened.
LinkActsOnWhatItSigns ==
    [][\A p \in Requests :
         req[p].pc = "write" /\ req[p].link # Null /\ appts' # appts /\ req'[p] # req[p]
             => /\ appts[req[p].appt].status = "pending"
                /\ links[req[p].appt] = req[p].link
                /\ LinkMatches(req[p].link, appts[req[p].appt])
      ]_vars

\* The job is fair, and the clock advances.  A pass may fail, but not for ever.
FairSpec ==
    /\ Spec
    /\ WF_vars(Tick)
    /\ WF_vars(JobFind)
    /\ SF_vars(\E w \in todo : JobWrite(w))

\* A confirmed reservation does not stay confirmed: the job completes it, if
\* nobody closes it before, despite failed passes and restarts.
ConfirmedIsClosed ==
    \A a \in Appts : appts[a].status = "confirmed" ~> appts[a].status # "confirmed"

-------------------------------------------------------------------------------
\* What the proofs build on

\* What a handler has found out by the time it reaches a stage
HandlerOK(r) ==
    /\ r.pc \in {"load", "client", "write", "mail"} => r.op = "update"
    /\ r.pc \in {"save", "email", "whatsapp"} => r.op = "create"
    /\ r.pc \in {"release", "active", "barber", "schedule", "slot"} => r.op \in {"create", "update"}
    /\ r.pc = "archive" => r.op = "archive"
    /\ r.op \in {"update", "archive"} \/ r.pc \in {"email", "whatsapp"} => r.appt \in Appts
    /\ r.op = "create" => r.slot \in Slots /\ (r.pc \notin {"email", "whatsapp"} => r.client \in Users)
    /\ r.op = "update" /\ r.pc # "load" =>
           r.slot \in Slots /\ r.client \in Users /\ r.seen \in ActiveStatuses
    /\ r.op = "update" => r.dto \in Dtos \/ ~ChangesSlot(r.dto)
    /\ r.pc = "mail" => r.dto.status \in {"confirmed", "cancelled"}

DocsOK ==
    \A a \in Appts : appts[a].status # "absent" => appts[a].slot \in Slots /\ appts[a].client \in Users

Shape == TypeOK /\ DocsOK /\ \A p \in Requests : HandlerOK(req[p])

KeysAreUnique ==
    \A a, b \in Appts : a # b /\ appts[a].slotKey # Null => appts[a].slotKey # appts[b].slotKey

===============================================================================
