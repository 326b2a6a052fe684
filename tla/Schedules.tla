------------------------------ MODULE Schedules ------------------------------
(***************************************************************************)
(* The working days of the barbers: the handlers of                        *)
(* barber-schedules.service.ts, composed with the reservations.            *)
(*                                                                         *)
(* A handler of this module is a task.  Like a request it steps from one   *)
(* database operation to the next; to cancel a reservation it calls        *)
(* AppointmentsService.update, which is a request of Appointments that the *)
(* task waits for.  The variable agenda of Appointments is what the        *)
(* documents of this module offer.  The history of Overlaps is kept along. *)
(***************************************************************************)
EXTENDS Overlaps

CONSTANTS
    SlotLength,         \* 60 minutes
    ScheduleIds,        \* identifiers of documents: a bound on how many there are
    Tasks,              \* schedule handlers that may be running at once (a bound)
    OpeningDays,        \* the documents at the beginning
    NewDays,            \* the bodies of POST and PATCH /barber-schedules that are sent
    Blocks,             \* the blocks that are added and removed
    ScheduleEndpoints   \* what is called, see ScheduleEndpointNames (a bound)

Range == [start: 0..DayLength, end: 0..DayLength]
DayType == [barber: Barbers, date: Days, isDayOff: BOOLEAN,
            workingHours: SUBSET Range, breakTimes: SUBSET Range]

ScheduleEndpointNames == {"newDay", "patchDay", "addBlock", "removeBlock", "removeDay"}

ASSUME ScheduleAssumption ==
    /\ SlotLength \in Nat \ {0}
    /\ Hours = 0..(DayLength - 1)
    /\ OpeningDays \in [ScheduleIds -> DayType \cup {Null}]
    /\ NewDays \subseteq DayType
    /\ Blocks \subseteq Range
    /\ ScheduleEndpoints \subseteq ScheduleEndpointNames
    /\ {"patch", "schedule"} \subseteq Endpoints
    /\ StatusDto("cancelled") \in Dtos
    /\ Null \notin Requests

VARIABLES
    schedules,  \* the collection of working days
    task        \* the handlers in progress

shopVars == <<vars, schedules, task, history>>
reservations == <<now, appts, req, todo, mail, links, users, barbers>>

-------------------------------------------------------------------------------
\* What a day offers

Overlap(r, s) == r.start < s.end /\ r.end > s.start
Crosses(r, ranges) == \E s \in ranges : Overlap(r, s)
TimeOf(h) == [start |-> h, end |-> h + SlotLength]

\* getScheduleSlots: every working block is cut into slots from its own start
\* on; a slot that crosses a break is left out.
StartsIn(w) == {h \in Hours : /\ h >= w.start /\ h + SlotLength <= w.end
                              /\ (h - w.start) % SlotLength = 0}

ScheduleSlots(day) ==
    {h \in UNION {StartsIn(w) : w \in day.workingHours} : ~Crosses(TimeOf(h), day.breakTimes)}

Offer(days) ==
    UNION {{[barber |-> days[k].barber, date |-> days[k].date, timeSlot |-> h] :
               h \in ScheduleSlots(days[k])} :
           k \in {i \in ScheduleIds : days[i] # Null /\ ~days[i].isDayOff}}

\* No two documents are of one barber and one date.
DatesDiffer(days) ==
    \A i, k \in ScheduleIds :
        i # k /\ days[i] # Null /\ days[k] # Null
            => days[i].barber # days[k].barber \/ days[i].date # days[k].date

\* A block crosses no other block and no break of the day.
Fits(w, day) == ~Crosses(w, (day.workingHours \ {w}) \cup day.breakTimes)

\* The unique index of the collection: writing day at k is a duplicate.
\* mutant: no index
NoDayIndex(k, day) == FALSE

DuplicateDay(k, day) ==
    \E i \in ScheduleIds \ {k} :
        schedules[i] # Null /\ schedules[i].barber = day.barber /\ schedules[i].date = day.date

-------------------------------------------------------------------------------
\* GET /appointments/availability and GET /barber-schedules/availability

\* mutant: a reservation that is closed is not looked up
BookedWhileActive(b, d) ==
    {appts[a].slot.timeSlot :
        a \in {i \in Appts : /\ Active(i)
                             /\ appts[i].slot.barber = b /\ appts[i].slot.date = d
                             /\ ~IsExpired(appts[i].slot, now)}}

\* getNonExpiredBarberAppointmentFilter without a time
Booked(b, d) ==
    {appts[a].slot.timeSlot :
        a \in {i \in Appts : /\ Held(i)
                             /\ appts[i].slot.barber = b /\ appts[i].slot.date = d
                             /\ ~IsExpired(appts[i].slot, now)}}

\* availableSlots of getAvailableSlots: nothing is asked about the barber but
\* that there is one.
AvailableSlots(b, d) ==
    {h \in {s.timeSlot : s \in {x \in agenda : x.barber = b /\ x.date = d}} :
        h \notin Booked(b, d) /\ ~IsExpired([barber |-> b, date |-> d, timeSlot |-> h], now)}

\* getAvailability: the slots that are reported as busy for a range of dates
BusySlots(first, last) ==
    {appts[a].slot : a \in {i \in Appts : /\ appts[i].status # "absent"
                                          /\ appts[i].slot.date \in first..last}}

-------------------------------------------------------------------------------
\* Handlers

Free == [pc |-> "free", op |-> "none", id |-> Null, day |-> Null, block |-> Null,
         consent |-> FALSE, affected |-> {}, found |-> {}, waits |-> Null]

TaskType ==
    [pc: {"free", "check", "save", "push", "find", "cancel"},
     op: {"none", "newDay", "addBlock", "removeBlock", "removeDay"},
     id: ScheduleIds \cup {Null}, day: DayType \cup {Null}, block: Range \cup {Null},
     consent: BOOLEAN,
     affected: SUBSET Appts,    \* the reservations that are still to be cancelled
     found: SUBSET Appts,       \* the reservations that were affected when it looked
     waits: Requests \cup {Null}]

Continue(t, next) == task' = [task EXCEPT ![t] = next]
Stop(t) == Continue(t, Free)

\* The collection is written: what it offers changes with it.
Store(k, day) ==
    LET days == [schedules EXCEPT ![k] = day]
    IN  schedules' = days /\ agenda' = Offer(days)

\* POST /barber-schedules: the barber, then the day are looked up.
StartDay(t, day) ==
    /\ "newDay" \in ScheduleEndpoints
    /\ task[t] = Free
    /\ BarberExists(day.barber)
    /\ Continue(t, [Free EXCEPT !.op = "newDay", !.pc = "check", !.day = day])
    /\ UNCHANGED <<vars, schedules>>

CheckDay(t) ==
    LET day == task[t].day IN
    /\ task[t].pc = "check"
    /\ IF \E k \in ScheduleIds : /\ schedules[k] # Null
                                 /\ schedules[k].barber = day.barber
                                 /\ schedules[k].date = day.date
       THEN Stop(t) ELSE Continue(t, [task[t] EXCEPT !.pc = "save"])
    /\ UNCHANGED <<vars, schedules>>

SaveDay(t, k) ==
    LET day == task[t].day IN
    /\ task[t].pc = "save"
    /\ schedules[k] = Null
    /\ IF DuplicateDay(k, day) THEN UNCHANGED <<schedules, agenda>> ELSE Store(k, day)
    /\ Stop(t)
    /\ UNCHANGED reservations

\* mutant: a body without a date unsets it
PatchUnsettingDate(t, k, body, fields) ==
    LET day == [f \in DOMAIN body |-> IF f \in fields THEN body[f]
                                      ELSE IF f = "date" THEN Null ELSE schedules[k][f]] IN
    /\ "patchDay" \in ScheduleEndpoints
    /\ task[t] = Free
    /\ schedules[k] # Null
    /\ ~DuplicateDay(k, day)
    /\ Store(k, day)
    /\ UNCHANGED <<reservations, task>>

\* PATCH /barber-schedules/:id replaces the fields of the body, unseen.
PatchDay(t, k, body, fields) ==
    LET day == [f \in DOMAIN body |-> IF f \in fields THEN body[f] ELSE schedules[k][f]] IN
    /\ "patchDay" \in ScheduleEndpoints
    /\ task[t] = Free
    /\ schedules[k] # Null
    /\ ~DuplicateDay(k, day)
    /\ Store(k, day)
    /\ UNCHANGED <<reservations, task>>

\* PATCH /barber-schedules/:id/add-block
StartAdd(t, k, block) ==
    /\ "addBlock" \in ScheduleEndpoints
    /\ task[t] = Free
    /\ block.end - block.start >= SlotLength
    /\ schedules[k] # Null /\ ~schedules[k].isDayOff
    /\ StartsAt([date |-> schedules[k].date, timeSlot |-> block.start]) > now
    /\ ~Crosses(block, schedules[k].workingHours) /\ ~Crosses(block, schedules[k].breakTimes)
    /\ Continue(t, [Free EXCEPT !.op = "addBlock", !.pc = "push", !.id = k,
                                !.day = schedules[k], !.block = block])
    /\ UNCHANGED <<vars, schedules>>

\* mutant: the block is pushed whatever the day has become
DayExists(seen, day) == day # Null

\* The filter of the write: the day is still the one that was read.
SameDay(seen, day) ==
    /\ day # Null
    /\ day.date = seen.date /\ ~day.isDayOff
    /\ day.workingHours = seen.workingHours /\ day.breakTimes = seen.breakTimes

Push(t) ==
    LET k == task[t].id IN
    /\ task[t].pc = "push"
    /\ IF SameDay(task[t].day, schedules[k])
       THEN Store(k, [schedules[k] EXCEPT !.workingHours = @ \cup {task[t].block}])
       ELSE UNCHANGED <<schedules, agenda>>
    /\ Stop(t)
    /\ UNCHANGED reservations

\* PATCH /barber-schedules/:id/remove-block
StartRemoveBlock(t, k, block, consent) ==
    /\ "removeBlock" \in ScheduleEndpoints
    /\ task[t] = Free
    /\ block.start < block.end
    /\ schedules[k] # Null /\ ~schedules[k].isDayOff /\ block \in schedules[k].workingHours
    /\ StartsAt([date |-> schedules[k].date, timeSlot |-> block.start]) > now
    /\ Continue(t, [Free EXCEPT !.op = "removeBlock", !.pc = "find", !.id = k, !.block = block,
                                !.day = schedules[k], !.consent = consent])
    /\ UNCHANGED <<vars, schedules>>

\* DELETE /barber-schedules/:id
StartRemoveDay(t, k, consent) ==
    LET day == schedules[k] IN
    /\ "removeDay" \in ScheduleEndpoints
    /\ task[t] = Free
    /\ day # Null
    /\ day.date >= Today(now)
    /\ \A w \in day.workingHours : StartsAt([date |-> day.date, timeSlot |-> w.start]) > now
    /\ Continue(t, [Free EXCEPT !.op = "removeDay", !.pc = "find", !.id = k,
                                !.day = day, !.consent = consent])
    /\ UNCHANGED <<vars, schedules>>

\* cancelReservationsForRemoval: the reservations of the day, or those that
\* reach into the block
Affected(day, op, block) ==
    {a \in Appts : /\ Held(a)
                   /\ appts[a].slot.barber = day.barber /\ appts[a].slot.date = day.date
                   /\ op = "removeBlock" => Overlap(TimeOf(appts[a].slot.timeSlot), block)}

FindAffected(t) ==
    LET r == task[t]
        affected == Affected(r.day, r.op, r.block)
    IN
    /\ r.pc = "find"
    /\ IF \/ \E a \in affected : ~Active(a) \/ StartsAt(appts[a].slot) <= now
          \/ affected # {} /\ ~r.consent
       THEN Stop(t)
       ELSE Continue(t, [r EXCEPT !.pc = "cancel", !.affected = affected, !.found = affected])
    /\ UNCHANGED <<vars, schedules>>

\* The next reservation is cancelled by the administrator's update.
Cancelling(t, a) == task[t].pc = "cancel" /\ task[t].waits = Null /\ a \in task[t].affected

CancelNext(t, a, p) ==
    /\ Cancelling(t, a)
    /\ StartPatch(p, a, StatusDto("cancelled"))
    /\ Continue(t, [task[t] EXCEPT !.waits = p])
    /\ UNCHANGED schedules

\* update() throws at once: the reservation was closed meanwhile.
CancelRefused(t, a) ==
    /\ Cancelling(t, a)
    /\ ~CanLoad(UpdateRequest(a, StatusDto("cancelled"), "admin"))
    /\ Stop(t)
    /\ UNCHANGED <<vars, schedules>>

CanRemove(t) == task[t].pc = "cancel" /\ task[t].affected = {}

RemoveBlock(t) ==
    LET r == task[t]
        day == schedules[r.id]
    IN
    /\ CanRemove(t) /\ r.op = "removeBlock"
    /\ IF /\ day # Null /\ day.date = r.day.date /\ ~day.isDayOff
          /\ day.workingHours = r.day.workingHours
       THEN Store(r.id, [day EXCEPT !.workingHours = @ \ {r.block}])
       ELSE UNCHANGED <<schedules, agenda>>
    /\ Stop(t)
    /\ UNCHANGED reservations

\* mutant: the reservations of the day are deleted with it
RemoveDayAndItsReservations(t) ==
    LET day == schedules[task[t].id] IN
    /\ CanRemove(t) /\ task[t].op = "removeDay"
    /\ Store(task[t].id, Null)
    /\ appts' = [a \in Appts |-> IF Held(a) /\ day # Null /\ appts[a].slot.date = day.date
                                 THEN NoAppt ELSE appts[a]]
    /\ Stop(t)
    /\ UNCHANGED <<now, req, todo, mail, links, users, barbers>>

\* findByIdAndDelete deletes the day, whatever it has become.
RemoveDay(t) ==
    /\ CanRemove(t) /\ task[t].op = "removeDay"
    /\ Store(task[t].id, Null)
    /\ Stop(t)
    /\ UNCHANGED reservations

\* A database operation of the task rejects.
AbandonTask(t) ==
    /\ task[t] # Free /\ task[t].waits = Null
    /\ Stop(t)
    /\ UNCHANGED <<vars, schedules>>

-------------------------------------------------------------------------------
\* Steps of the reservations, and the tasks that wait for one

\* mutant: a cancellation that was refused does not stop the task
GoOn(t, ok) == [task[t] EXCEPT !.waits = Null, !.affected = @ \ {req[task[t].waits].appt}]

\* update() has returned or thrown.
Answered(t, ok) ==
    IF ok THEN [task[t] EXCEPT !.waits = Null, !.affected = @ \ {req[task[t].waits].appt}]
          ELSE Free

\* A request that has ended answers the task that waits for it.
Answer(p, ok) ==
    task' = [t \in Tasks |-> IF task[t].waits = p /\ req'[p] = Idle
                             THEN Answered(t, ok) ELSE task[t]]

\* update() returns once the client was notified; it throws if the client or
\* the barber is gone, although the reservation is cancelled.
Notified(p) == users[req[p].client] # Null /\ BarberExists(req[p].slot.barber)

RequestStep(p) ==
    \/ (Create(p) \/ Shared(p) \/ Archiving(p) \/ Abandon(p)) /\ Answer(p, FALSE)
    \/ Update(p) /\ Answer(p, req[p].pc = "mail" /\ Notified(p))

OtherStep ==
    \/ (Job \/ Tick \/ People) /\ UNCHANGED task
    \/ Restart /\ task' = [t \in Tasks |-> Free]

TaskStep(t) ==
    \/ \E day \in NewDays : StartDay(t, day)
    \/ CheckDay(t)
    \/ \E k \in ScheduleIds : SaveDay(t, k)
    \/ \E k \in ScheduleIds, body \in NewDays : \E fields \in SUBSET DOMAIN body :
           PatchDay(t, k, body, fields)
    \/ \E k \in ScheduleIds, block \in Blocks : StartAdd(t, k, block)
    \/ Push(t)
    \/ \E k \in ScheduleIds, block \in Blocks, consent \in BOOLEAN :
           StartRemoveBlock(t, k, block, consent)
    \/ \E k \in ScheduleIds, consent \in BOOLEAN : StartRemoveDay(t, k, consent)
    \/ FindAffected(t)
    \/ \E a \in Appts, p \in Requests : CancelNext(t, a, p)
    \/ \E a \in Appts : CancelRefused(t, a)
    \/ RemoveBlock(t)
    \/ RemoveDay(t)
    \/ AbandonTask(t)

ShopInit ==
    /\ Init
    /\ schedules = OpeningDays /\ DatesDiffer(OpeningDays)
    /\ task = [t \in Tasks |-> Free]
    /\ OpeningAgenda = Offer(OpeningDays)
    /\ HistoryInit

ShopStep ==
    \/ \E t \in Tasks : TaskStep(t)
    \/ (\E p \in Requests : RequestStep(p)) /\ UNCHANGED schedules
    \/ OtherStep /\ UNCHANGED schedules

ShopNext == ShopStep /\ Remember

ShopSpec == ShopInit /\ [][ShopNext]_shopVars

-------------------------------------------------------------------------------
\* Properties

\* What a task has read by the time it reaches a stage
TaskOK(r) ==
    /\ r.pc \in {"check", "save"} => r.op = "newDay" /\ r.day \in DayType
    /\ r.pc = "push" => r.op = "addBlock" /\ r.id \in ScheduleIds /\ r.day \in DayType
                        /\ r.block \in Range
    /\ r.pc \in {"find", "cancel"} => r.op \in {"removeBlock", "removeDay"}
                                     /\ r.id \in ScheduleIds /\ r.day \in DayType
    /\ r.pc # "cancel" => r.waits = Null

\* Every variable of this module keeps to its type, and what is offered is
\* what the documents offer.
SchedulesTypeOK ==
    /\ schedules \in [ScheduleIds -> DayType \cup {Null}]
    /\ task \in [Tasks -> TaskType]
    /\ \A t \in Tasks : TaskOK(task[t])
    /\ agenda = Offer(schedules)

\* A barber has one working day per date, however many are created and moved
\* at the same time.
OneDayPerDate == DatesDiffer(schedules)

\* A block that is added to a day crosses neither a block nor a break of the
\* day as it stands, whatever several administrators add, remove and replace
\* at the same time (README: "no cruzarse con bloques existentes ni descansos").
\* The hours that POST and PATCH bring are checked for nothing.
AddedBlocksFit ==
    [][\A k \in ScheduleIds :
         task' # task /\ schedules[k] # Null /\ schedules'[k] # Null =>
             \A w \in schedules'[k].workingHours \ schedules[k].workingHours :
                 Fits(w, schedules'[k])]_shopVars

\* The step in which a task removes a block or a day
Removal(t) == CanRemove(t) /\ task'[t] = Free /\ schedules' # schedules /\ req' = req

\* A block or a day is only removed once every reservation that the handler
\* found in it is cancelled, whoever else closes or moves reservations meanwhile
\* (README: "If cancellation fails, the schedule is not removed").
RemovedAfterCancelling ==
    [][\A t \in Tasks : Removal(t) =>
         \A a \in task[t].found : appts[a].status = "cancelled"]_shopVars

\* What a removal takes away holds no reservation (README: "Overlapping pending
\* or confirmed reservations require explicit cancelReservations").
RemovedIsEmpty ==
    [][\A t \in Tasks : Removal(t) => Affected(task[t].day, task[t].op, task[t].block) = {}]_shopVars

\* A slot that the shop shows as free is free, whether it is in the list of
\* available slots or offered and not among the busy ones ("front-end can
\* compute free slots"): no reservation stands at it and none holds its key.
AvailableIsFree ==
    \A s \in agenda :
        s.timeSlot \in AvailableSlots(s.barber, s.date) \/ s \notin BusySlots(s.date, s.date) =>
            \A a \in Fresh : appts[a].slotKey # s /\ ~(Held(a) /\ appts[a].slot = s)

===============================================================================
