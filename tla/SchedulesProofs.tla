--------------------------- MODULE SchedulesProofs ---------------------------
(***************************************************************************)
(* What the schedules' handlers do to the days, to what is offered, and to *)
(* the reservations that they cancel; that composed with the reservations  *)
(* they leave to those what Appointments says of them.                     *)
(***************************************************************************)
EXTENDS Schedules, OverlapsProofs

-------------------------------------------------------------------------------
\* Type correctness

(* Documents only offer slots. *)
LEMMA OfferIsSlots ==
    ASSUME NEW days \in [ScheduleIds -> DayType \cup {Null}]
    PROVE  Offer(days) \subseteq Slots
<1> SUFFICES ASSUME NEW s \in Offer(days) PROVE s \in Slots
  OBVIOUS
<1>1. PICK k \in ScheduleIds :
         /\ days[k] # Null
         /\ \E h \in ScheduleSlots(days[k]) :
               s = [barber |-> days[k].barber, date |-> days[k].date, timeSlot |-> h]
  BY DEF Offer
<1>2. days[k] \in DayType /\ ScheduleSlots(days[k]) \subseteq Hours
  BY <1>1 DEF ScheduleSlots, StartsIn
<1> QED
  BY <1>1, <1>2 DEF DayType, Slots

LEMMA FreeFacts == Free \in TaskType /\ TaskOK(Free)
  BY DEF Free, TaskType, TaskOK

(* A task that becomes a well-formed record leaves the rest as it is. *)
LEMMA TaskStepType ==
    ASSUME SchedulesTypeOK, NEW t \in Tasks, NEW r \in TaskType, TaskOK(r), Continue(t, r),
           UNCHANGED <<schedules, agenda>>
    PROVE  SchedulesTypeOK'
<1>1. task' = [task EXCEPT ![t] = r] /\ task \in [Tasks -> TaskType]
  BY DEF Continue, SchedulesTypeOK
<1>2. \A u \in Tasks : task'[u] = IF u = t THEN r ELSE task[u]
  BY <1>1
<1> QED
  BY <1>1, <1>2 DEF SchedulesTypeOK, Offer

(* Likewise for a task that writes a day. *)
LEMMA StoreType ==
    ASSUME SchedulesTypeOK, NEW k \in ScheduleIds, NEW day \in DayType \cup {Null}, Store(k, day),
           task' \in [Tasks -> TaskType], \A t \in Tasks : TaskOK(task'[t])
    PROVE  SchedulesTypeOK' /\ agenda' \in SUBSET Slots
<1>1. schedules' = [schedules EXCEPT ![k] = day] /\ agenda' = Offer(schedules')
  BY DEF Store
<1>2. schedules' \in [ScheduleIds -> DayType \cup {Null}]
  BY <1>1 DEF SchedulesTypeOK
<1>3. agenda' \subseteq Slots
  BY <1>1, <1>2, OfferIsSlots
<1> QED
  BY <1>1, <1>2, <1>3 DEF SchedulesTypeOK, Offer

LEMMA StopType ==
    ASSUME SchedulesTypeOK, NEW t \in Tasks, Stop(t)
    PROVE  task' \in [Tasks -> TaskType] /\ \A u \in Tasks : TaskOK(task'[u])
<1>1. task' = [task EXCEPT ![t] = Free] /\ task \in [Tasks -> TaskType]
  BY DEF Stop, Continue, SchedulesTypeOK
<1> QED
  BY <1>1, FreeFacts DEF SchedulesTypeOK

(* A step of a task that only changes what the task has read *)
LEMMA TaskOnly ==
    ASSUME SchedulesTypeOK, NEW t \in Tasks, NEW r \in TaskType, TaskOK(r), Continue(t, r),
           UNCHANGED <<vars, schedules>>
    PROVE  SchedulesTypeOK' /\ UNCHANGED vars
  BY TaskStepType DEF vars

LEMMA TaskStops ==
    ASSUME SchedulesTypeOK, NEW t \in Tasks, Stop(t), UNCHANGED <<vars, schedules>>
    PROVE  SchedulesTypeOK' /\ UNCHANGED vars
  BY FreeFacts, TaskOnly DEF Stop

(* A step that writes a day, or does not, and ends the task *)
LEMMA StoresOrNot ==
    ASSUME SchedulesTypeOK, NEW t \in Tasks, NEW k \in ScheduleIds, NEW day \in DayType \cup {Null},
           Store(k, day) \/ UNCHANGED <<schedules, agenda>>,
           Stop(t), UNCHANGED reservations
    PROVE  SchedulesTypeOK' /\ (EditSchedule \/ UNCHANGED vars)
<1>1. task' \in [Tasks -> TaskType] /\ \A u \in Tasks : TaskOK(task'[u])
  BY StopType
<1>2. CASE Store(k, day)
  BY <1>1, <1>2, StoreType, ScheduleAssumption DEF EditSchedule, reservations
<1>3. CASE UNCHANGED <<schedules, agenda>>
  <2>1. UNCHANGED vars
    BY <1>3 DEF reservations, vars
  <2> QED
    BY <1>1, <1>3, <2>1 DEF SchedulesTypeOK, Offer
<1> QED
  BY <1>2, <1>3

LEMMA TaskFacts ==
    ASSUME SchedulesTypeOK, NEW t \in Tasks
    PROVE  /\ task[t] \in TaskType /\ TaskOK(task[t])
           /\ \A k \in ScheduleIds : schedules[k] # Null => schedules[k] \in DayType
  BY DEF SchedulesTypeOK

(* POST /barber-schedules *)
LEMMA NewDayStep ==
    ASSUME SchedulesTypeOK, NEW t \in Tasks,
           \/ \E day \in NewDays : StartDay(t, day)
           \/ CheckDay(t)
           \/ \E k \in ScheduleIds : SaveDay(t, k)
    PROVE  SchedulesTypeOK' /\ (EditSchedule \/ UNCHANGED vars)
<1>1. ASSUME NEW day \in NewDays, StartDay(t, day)
      PROVE  SchedulesTypeOK' /\ UNCHANGED vars
  <2> DEFINE r == [Free EXCEPT !.op = "newDay", !.pc = "check", !.day = day]
  <2>1. r \in TaskType /\ TaskOK(r)
    BY ScheduleAssumption DEF Free, TaskType, TaskOK
  <2>2. Continue(t, r) /\ UNCHANGED <<vars, schedules>>
    BY <1>1 DEF StartDay
  <2> HIDE DEF r
  <2> QED
    BY <2>1, <2>2, TaskOnly
<1>2. ASSUME CheckDay(t)
      PROVE  SchedulesTypeOK' /\ UNCHANGED vars
  <2> DEFINE r == [task[t] EXCEPT !.pc = "save"]
  <2>1. r \in TaskType /\ TaskOK(r)
    BY <1>2, TaskFacts DEF CheckDay, TaskType, TaskOK
  <2>2. (Stop(t) \/ Continue(t, r)) /\ UNCHANGED <<vars, schedules>>
    BY <1>2 DEF CheckDay
  <2> HIDE DEF r
  <2> QED
    BY <2>1, <2>2, TaskOnly, TaskStops
<1>3. ASSUME NEW k \in ScheduleIds, SaveDay(t, k)
      PROVE  SchedulesTypeOK' /\ (EditSchedule \/ UNCHANGED vars)
  <2>1. task[t].day \in DayType
    BY <1>3, TaskFacts DEF SaveDay, TaskOK
  <2>2. Store(k, task[t].day) \/ UNCHANGED <<schedules, agenda>>
    BY <1>3 DEF SaveDay
  <2>3. Stop(t) /\ UNCHANGED reservations
    BY <1>3 DEF SaveDay
  <2> QED
    BY <2>1, <2>2, <2>3, StoresOrNot
<1> QED
  BY <1>1, <1>2, <1>3

(* PATCH /barber-schedules/:id *)
LEMMA PatchDayStep ==
    ASSUME SchedulesTypeOK, NEW t \in Tasks, NEW k \in ScheduleIds, NEW body \in NewDays,
           NEW fields, PatchDay(t, k, body, fields)
    PROVE  SchedulesTypeOK' /\ (EditSchedule \/ UNCHANGED vars)
<1> DEFINE day == [f \in DOMAIN body |-> IF f \in fields THEN body[f] ELSE schedules[k][f]]
<1>1. body \in DayType /\ schedules[k] \in DayType
  BY TaskFacts, ScheduleAssumption DEF PatchDay
<1>2. DOMAIN body = {"barber", "date", "isDayOff", "workingHours", "breakTimes"}
  BY <1>1 DEF DayType
<1>3. day \in DayType
  BY <1>1, <1>2 DEF DayType
<1>4. Store(k, day) /\ UNCHANGED <<reservations, task>>
  BY DEF PatchDay
<1> HIDE DEF day
<1>5. task' \in [Tasks -> TaskType] /\ \A u \in Tasks : TaskOK(task'[u])
  BY <1>4 DEF SchedulesTypeOK
<1> QED
  BY <1>3, <1>4, <1>5, StoreType, ScheduleAssumption DEF EditSchedule, reservations

(* PATCH /barber-schedules/:id/add-block *)
LEMMA AddStep ==
    ASSUME SchedulesTypeOK, NEW t \in Tasks,
           Push(t) \/ \E k \in ScheduleIds, block \in Blocks : StartAdd(t, k, block)
    PROVE  SchedulesTypeOK' /\ (EditSchedule \/ UNCHANGED vars)
<1>1. ASSUME NEW k \in ScheduleIds, NEW block \in Blocks, StartAdd(t, k, block)
      PROVE  SchedulesTypeOK' /\ UNCHANGED vars
  <2> DEFINE r == [Free EXCEPT !.op = "addBlock", !.pc = "push", !.id = k,
                               !.day = schedules[k], !.block = block]
  <2>1. schedules[k] \in DayType /\ block \in Range
    BY <1>1, TaskFacts, ScheduleAssumption DEF StartAdd
  <2>2. r \in TaskType /\ TaskOK(r)
    BY <2>1 DEF Free, TaskType, TaskOK
  <2>3. Continue(t, r) /\ UNCHANGED <<vars, schedules>>
    BY <1>1 DEF StartAdd
  <2> HIDE DEF r
  <2> QED
    BY <2>2, <2>3, TaskOnly
<1>2. ASSUME Push(t)
      PROVE  SchedulesTypeOK' /\ (EditSchedule \/ UNCHANGED vars)
  <2> DEFINE k == task[t].id
             day == [schedules[k] EXCEPT !.workingHours = @ \cup {task[t].block}]
  <2>1. k \in ScheduleIds /\ task[t].block \in Range
    BY <1>2, TaskFacts DEF Push, TaskOK
  <2>2. CASE SameDay(task[t].day, schedules[k])
    <3>1. schedules[k] \in DayType
      BY <2>1, <2>2, TaskFacts DEF SameDay
    <3>2. day \in DayType
      BY <2>1, <3>1 DEF DayType
    <3>3. Store(k, day) /\ Stop(t) /\ UNCHANGED reservations
      BY <1>2, <2>2 DEF Push
    <3> HIDE DEF k, day
    <3> QED
      BY <2>1, <3>2, <3>3, StoresOrNot
  <2>3. CASE ~SameDay(task[t].day, schedules[k])
    <3>1. UNCHANGED <<schedules, agenda>> /\ Stop(t) /\ UNCHANGED reservations
      BY <1>2, <2>3 DEF Push
    <3> QED
      BY <2>1, <3>1, StoresOrNot
  <2> QED
    BY <2>2, <2>3
<1> QED
  BY <1>1, <1>2

(* PATCH /barber-schedules/:id/remove-block and DELETE /barber-schedules/:id *)
LEMMA StartRemovalStep ==
    ASSUME SchedulesTypeOK, NEW t \in Tasks, NEW k \in ScheduleIds, NEW consent \in BOOLEAN,
           StartRemoveDay(t, k, consent) \/ \E block \in Blocks : StartRemoveBlock(t, k, block, consent)
    PROVE  SchedulesTypeOK' /\ UNCHANGED vars
<1>1. schedules[k] \in DayType
  BY TaskFacts DEF StartRemoveDay, StartRemoveBlock
<1>2. ASSUME NEW block \in Blocks, StartRemoveBlock(t, k, block, consent)
      PROVE  SchedulesTypeOK' /\ UNCHANGED vars
  <2> DEFINE r == [Free EXCEPT !.op = "removeBlock", !.pc = "find", !.id = k, !.block = block,
                               !.day = schedules[k], !.consent = consent]
  <2>1. r \in TaskType /\ TaskOK(r)
    BY <1>1, ScheduleAssumption DEF Free, TaskType, TaskOK
  <2>2. Continue(t, r) /\ UNCHANGED <<vars, schedules>>
    BY <1>2 DEF StartRemoveBlock
  <2> HIDE DEF r
  <2> QED
    BY <2>1, <2>2, TaskOnly
<1>3. ASSUME StartRemoveDay(t, k, consent)
      PROVE  SchedulesTypeOK' /\ UNCHANGED vars
  <2> DEFINE r == [Free EXCEPT !.op = "removeDay", !.pc = "find", !.id = k,
                               !.day = schedules[k], !.consent = consent]
  <2>1. r \in TaskType /\ TaskOK(r)
    BY <1>1 DEF Free, TaskType, TaskOK
  <2>2. Continue(t, r) /\ UNCHANGED <<vars, schedules>>
    BY <1>3 DEF StartRemoveDay
  <2> HIDE DEF r
  <2> QED
    BY <2>1, <2>2, TaskOnly
<1> QED
  BY <1>2, <1>3

LEMMA FindStep ==
    ASSUME SchedulesTypeOK, NEW t \in Tasks, FindAffected(t)
    PROVE  SchedulesTypeOK' /\ UNCHANGED vars
<1> DEFINE affected == Affected(task[t].day, task[t].op, task[t].block)
           r == [task[t] EXCEPT !.pc = "cancel", !.affected = affected, !.found = affected]
<1>1. affected \subseteq Appts
  BY DEF Affected
<1>2. (Stop(t) \/ Continue(t, r)) /\ UNCHANGED <<vars, schedules>>
  BY DEF FindAffected
<1>3. task[t] \in TaskType /\ TaskOK(task[t]) /\ task[t].pc = "find"
  BY TaskFacts DEF FindAffected
<1> HIDE DEF affected
<1>4. r \in TaskType /\ TaskOK(r)
  BY <1>1, <1>3 DEF TaskType, TaskOK
<1> HIDE DEF r
<1> QED
  BY <1>2, <1>4, TaskOnly, TaskStops

(* A cancellation that begins is a step of the reservations. *)
LEMMA CancelStep ==
    ASSUME SchedulesTypeOK, NEW t \in Tasks, NEW a \in Appts, NEW p \in Requests, CancelNext(t, a, p)
    PROVE  SchedulesTypeOK' /\ Update(p)
<1> DEFINE r == [task[t] EXCEPT !.waits = p]
<1>1. task[t] \in TaskType /\ TaskOK(task[t]) /\ task[t].pc = "cancel"
  BY TaskFacts DEF CancelNext, Cancelling
<1>2. r \in TaskType /\ TaskOK(r)
  BY <1>1 DEF TaskType, TaskOK
<1>3. Continue(t, r) /\ UNCHANGED schedules /\ StartPatch(p, a, StatusDto("cancelled"))
  BY DEF CancelNext
<1>4. UNCHANGED agenda
  BY <1>3 DEF StartPatch, Load, directory
<1>5. Update(p)
  BY <1>3, ScheduleAssumption DEF Update
<1> HIDE DEF r
<1> QED
  BY <1>2, <1>3, <1>4, <1>5, TaskStepType

LEMMA RemoveStep ==
    ASSUME SchedulesTypeOK, NEW t \in Tasks, RemoveBlock(t) \/ RemoveDay(t)
    PROVE  SchedulesTypeOK' /\ (EditSchedule \/ UNCHANGED vars)
<1>1. task[t].id \in ScheduleIds
  BY TaskFacts DEF RemoveBlock, RemoveDay, CanRemove, TaskOK
<1>2. Stop(t) /\ UNCHANGED reservations
  BY DEF RemoveBlock, RemoveDay
<1>3. CASE RemoveDay(t)
  BY <1>1, <1>2, <1>3, StoresOrNot DEF RemoveDay
<1>4. CASE RemoveBlock(t)
  <2> DEFINE k == task[t].id
             day == [schedules[k] EXCEPT !.workingHours = @ \ {task[t].block}]
  <2>1. CASE Store(k, day) /\ schedules[k] # Null
    <3>1. schedules[k] \in DayType
      BY <1>1, <2>1, TaskFacts
    <3>2. day \in DayType
      BY <3>1 DEF DayType
    <3> HIDE DEF day
    <3> QED
      BY <1>1, <1>2, <2>1, <3>2, StoresOrNot
  <2>2. CASE UNCHANGED <<schedules, agenda>>
    BY <1>1, <1>2, <2>2, StoresOrNot
  <2> QED
    BY <1>4, <2>1, <2>2 DEF RemoveBlock
<1> QED
  BY <1>3, <1>4

(* Every step of a task *)
LEMMA TaskStepOK ==
    ASSUME SchedulesTypeOK, NEW t \in Tasks, TaskStep(t)
    PROVE  SchedulesTypeOK' /\ [Next]_vars
<1>1. ASSUME AbandonTask(t) PROVE SchedulesTypeOK' /\ UNCHANGED vars
  BY <1>1, TaskStops DEF AbandonTask
<1>2. ASSUME NEW a \in Appts, CancelRefused(t, a) PROVE SchedulesTypeOK' /\ UNCHANGED vars
  BY <1>2, TaskStops DEF CancelRefused
<1>3. ASSUME NEW a \in Appts, NEW p \in Requests, CancelNext(t, a, p)
      PROVE  SchedulesTypeOK' /\ Next
  BY <1>3, CancelStep DEF Next
<1>4. EditSchedule => Next
  BY DEF Next, Directory
<1> QED
  BY <1>1, <1>2, <1>3, <1>4, NewDayStep, PatchDayStep, AddStep, StartRemovalStep, FindStep, RemoveStep
     DEF TaskStep

-------------------------------------------------------------------------------
\* Steps of the reservations

(* A request that ends leaves its tasks in shape. *)
LEMMA AnswerType ==
    ASSUME SchedulesTypeOK, Shape, NEW p \in Requests, NEW ok \in BOOLEAN, Answer(p, ok),
           UNCHANGED <<schedules, agenda>>
    PROVE  SchedulesTypeOK'
<1>1. ASSUME NEW t \in Tasks
      PROVE  Answered(t, ok) \in TaskType /\ TaskOK(Answered(t, ok))
  <2>1. task[t] \in TaskType /\ TaskOK(task[t])
    BY TaskFacts
  <2> DEFINE done == req[task[t].waits].appt
             r == [task[t] EXCEPT !.waits = Null, !.affected = @ \ {done}]
  <2> HIDE DEF done
  <2>2. r \in TaskType /\ TaskOK(r)
    BY <2>1 DEF TaskType, TaskOK
  <2>3. Answered(t, ok) = r \/ Answered(t, ok) = Free
    BY DEF Answered, done
  <2> HIDE DEF r
  <2> QED
    BY <2>2, <2>3, FreeFacts
<1>2. \A t \in Tasks : task'[t] \in TaskType /\ TaskOK(task'[t])
  BY <1>1, TaskFacts DEF Answer
<1>3. task' \in [Tasks -> TaskType]
  BY <1>2 DEF Answer
<1> QED
  BY <1>2, <1>3 DEF SchedulesTypeOK, Offer

LEMMA RequestKeepsAgenda ==
    ASSUME NEW p \in Requests, Create(p) \/ Update(p) \/ Shared(p) \/ Archiving(p) \/ Abandon(p)
    PROVE  UNCHANGED agenda
<1>1. Update(p) => UNCHANGED agenda
  BY DEF Update, StartPatch, StartCancelMine, StartLink, Load, ReadClient, Write, Mail, directory
<1>2. Create(p) => UNCHANGED agenda
  BY DEF Create, StartCreate, Save, EmailPending, Notify, directory
<1>3. Shared(p) => UNCHANGED agenda
  BY DEF Shared, ReleaseKeys, CheckActive, ReadBarber, ReadSchedule, CheckSlot, directory
<1>4. Archiving(p) \/ Abandon(p) => UNCHANGED agenda
  BY DEF Archiving, StartArchive, Archive, Abandon, directory
<1> QED
  BY <1>1, <1>2, <1>3, <1>4

LEMMA RequestStepOK ==
    ASSUME SchedulesTypeOK, Shape, NEW p \in Requests, RequestStep(p), UNCHANGED schedules
    PROVE  SchedulesTypeOK' /\ Next
<1>1. Create(p) \/ Update(p) \/ Shared(p) \/ Archiving(p) \/ Abandon(p)
  BY DEF RequestStep
<1>2. UNCHANGED agenda
  BY <1>1, RequestKeepsAgenda
<1>3. PICK ok \in BOOLEAN : Answer(p, ok)
  <2>1. (req[p].pc = "mail" /\ Notified(p)) \in BOOLEAN
    OBVIOUS
  <2> QED
    BY <2>1 DEF RequestStep
<1> QED
  BY <1>1, <1>2, <1>3, AnswerType DEF Next

LEMMA OtherStepOK ==
    ASSUME SchedulesTypeOK, OtherStep, UNCHANGED schedules
    PROVE  SchedulesTypeOK' /\ Next
<1>1. Next
  BY DEF OtherStep, Next, Directory
<1>2. UNCHANGED agenda
  BY DEF OtherStep, Job, JobFind, JobWrite, JobFail, Tick, Restart, People, ChangeRole,
         SetBookingAccess, RemoveUser, AddUser, AddBarber, SetBarber, directory
<1>3. UNCHANGED task \/ task' = [t \in Tasks |-> Free]
  BY DEF OtherStep
<1>4. task' \in [Tasks -> TaskType] /\ \A t \in Tasks : TaskOK(task'[t])
  BY <1>3, FreeFacts DEF SchedulesTypeOK
<1> QED
  BY <1>1, <1>2, <1>4 DEF SchedulesTypeOK, Offer

(* The composed system takes the steps of the reservations. *)
LEMMA ShopStepOK ==
    ASSUME SchedulesTypeOK, Shape, [ShopNext]_shopVars
    PROVE  SchedulesTypeOK' /\ [Next]_vars
<1>1. CASE UNCHANGED shopVars
  <2>1. UNCHANGED vars /\ UNCHANGED <<schedules, task, agenda>>
    BY <1>1 DEF shopVars, vars
  <2> QED
    BY <2>1 DEF SchedulesTypeOK, Offer
<1>2. CASE ShopNext
  BY <1>2, TaskStepOK, RequestStepOK, OtherStepOK DEF ShopNext, ShopStep
<1> QED
  BY <1>1, <1>2

LEMMA ShopInitOK == ShopInit => SchedulesTypeOK
  BY FreeFacts, ScheduleAssumption DEF ShopInit, Init, Opening, SchedulesTypeOK

ShopShape == SchedulesTypeOK /\ Shape

LEMMA ShopShapeInvariant == ShopSpec => []ShopShape
<1>1. ShopInit => ShopShape
  BY ShopInitOK, InitShape DEF ShopInit, ShopShape
<1>2. ShopShape /\ [ShopNext]_shopVars => ShopShape'
  BY ShopStepOK, NextShape DEF ShopShape
<1> QED
  BY <1>1, <1>2, PTL DEF ShopSpec

-------------------------------------------------------------------------------
\* Theorems

(* The working days, the tasks and what is offered keep to their types: the  *)
(* slots that can be reserved are those of the stored documents.             *)
THEOREM SchedulesAreWellFormed == ShopSpec => []SchedulesTypeOK
<1>1. ShopShape => SchedulesTypeOK
  BY DEF ShopShape
<1> QED
  BY <1>1, ShopShapeInvariant, PTL

(* The shop implements the reservations: what holds of every behaviour of    *)
(* Appointments also holds with administrators who add and remove working    *)
(* days and blocks and cancel reservations by doing so.                      *)
THEOREM ShopImplementsReservations == ShopSpec => Spec
<1>1. ShopInit => Init
  BY DEF ShopInit
<1>2. ShopShape /\ [ShopNext]_shopVars => [Next]_vars
  BY ShopStepOK DEF ShopShape
<1> QED
  BY <1>1, <1>2, ShopShapeInvariant, PTL DEF ShopSpec, Spec

(* The history of the overlaps is kept along with the steps. *)
LEMMA ShopRecalls ==
    ASSUME [ShopNext]_shopVars
    PROVE  Recalls
  BY DEF ShopNext, shopVars, Recalls

ShopSlotsInv == SchedulesTypeOK /\ SlotsInv

LEMMA ShopSlotsInvariant == ShopSpec => []ShopSlotsInv
<1>1. ShopInit => ShopSlotsInv
  BY ShopInitOK, InitSlotsInv DEF ShopInit, ShopSlotsInv
<1>2. ShopSlotsInv /\ [ShopNext]_shopVars => ShopSlotsInv'
  BY ShopStepOK, ShopRecalls, NextSlotsInv DEF ShopSlotsInv, SlotsInv, KnowInv
<1> QED
  BY <1>1, <1>2, PTL DEF ShopSpec

(* No barber is promised to two clients, whatever administrators do to the   *)
(* working days meanwhile, but where one of the two reservations was once    *)
(* moved on what another update had made of it: the theorem of the           *)
(* reservations carries over.                                                *)
THEOREM ShopSlotsAreExclusive == ShopSpec => []OneHolderEach
<1>1. ShopSlotsInv => OneHolderEach
  BY SlotsInvGivesOneHolder DEF ShopSlotsInv
<1> QED
  BY <1>1, ShopSlotsInvariant, PTL

-------------------------------------------------------------------------------
\* One working day per barber and date

LEMMA StoreKeepsDates ==
    ASSUME SchedulesTypeOK, OneDayPerDate, NEW k \in ScheduleIds, NEW day, Store(k, day),
           day = Null \/ ~DuplicateDay(k, day)
    PROVE  OneDayPerDate'
<1>1. schedules' = [schedules EXCEPT ![k] = day] /\ schedules \in [ScheduleIds -> DayType \cup {Null}]
  BY DEF Store, SchedulesTypeOK
<1>2. schedules'[k] = day /\ \A i \in ScheduleIds : i # k => schedules'[i] = schedules[i]
  BY <1>1
<1>3. \A i \in ScheduleIds : i # k /\ schedules[i] # Null /\ day # Null
          => schedules[i].barber # day.barber \/ schedules[i].date # day.date
  BY DEF DuplicateDay
<1> QED
  BY <1>2, <1>3 DEF OneDayPerDate, DatesDiffer

(* Changing the hours of a day keeps its barber and its date. *)
LEMMA HoursKeepDate ==
    ASSUME SchedulesTypeOK, OneDayPerDate, NEW k \in ScheduleIds, NEW hours, schedules[k] # Null
    PROVE  ~DuplicateDay(k, [schedules[k] EXCEPT !.workingHours = hours])
<1>1. schedules[k] \in DayType
  BY DEF SchedulesTypeOK
<1> DEFINE day == [schedules[k] EXCEPT !.workingHours = hours]
<1>2. day.barber = schedules[k].barber /\ day.date = schedules[k].date
  BY <1>1 DEF DayType
<1> HIDE DEF day
<1> QED
  BY <1>2 DEF DuplicateDay, OneDayPerDate, DatesDiffer

LEMMA DatesStep ==
    ASSUME SchedulesTypeOK, OneDayPerDate, [ShopNext]_shopVars
    PROVE  OneDayPerDate'
<1>1. CASE UNCHANGED schedules
  BY <1>1 DEF OneDayPerDate
<1>2. ASSUME NEW t \in Tasks, NEW k \in ScheduleIds, SaveDay(t, k) PROVE OneDayPerDate'
  BY <1>1, <1>2, StoreKeepsDates DEF SaveDay
<1>3. ASSUME NEW t \in Tasks, NEW k \in ScheduleIds, NEW body, NEW fields, PatchDay(t, k, body, fields)
      PROVE  OneDayPerDate'
  BY <1>3, StoreKeepsDates DEF PatchDay
<1>4. ASSUME NEW t \in Tasks, Push(t) PROVE OneDayPerDate'
  <2>1. task[t].id \in ScheduleIds
    BY <1>4, TaskFacts DEF Push, TaskOK
  <2>2. CASE SameDay(task[t].day, schedules[task[t].id])
    BY <1>4, <2>1, <2>2, StoreKeepsDates, HoursKeepDate DEF Push, SameDay
  <2>3. CASE ~SameDay(task[t].day, schedules[task[t].id])
    BY <1>1, <1>4, <2>3 DEF Push
  <2> QED
    BY <2>2, <2>3
<1>5. ASSUME NEW t \in Tasks, RemoveBlock(t) PROVE OneDayPerDate'
  <2>1. task[t].id \in ScheduleIds
    BY <1>5, TaskFacts DEF RemoveBlock, CanRemove, TaskOK
  <2> QED
    BY <1>1, <1>5, <2>1, StoreKeepsDates, HoursKeepDate DEF RemoveBlock
<1>6. ASSUME NEW t \in Tasks, RemoveDay(t) PROVE OneDayPerDate'
  <2>1. task[t].id \in ScheduleIds
    BY <1>6, TaskFacts DEF RemoveDay, CanRemove, TaskOK
  <2> QED
    BY <1>6, <2>1, StoreKeepsDates DEF RemoveDay
<1>7. ASSUME NEW t \in Tasks, TaskStep(t) PROVE OneDayPerDate'
  BY <1>1, <1>2, <1>3, <1>4, <1>5, <1>6, <1>7
     DEF TaskStep, StartDay, CheckDay, StartAdd, StartRemoveBlock, StartRemoveDay, FindAffected,
         CancelNext, CancelRefused, AbandonTask
<1> QED
  BY <1>1, <1>7 DEF ShopNext, ShopStep, shopVars

(* A barber never has two working days on a date, however many handlers      *)
(* create, move and delete days: the check of create is not needed for it,   *)
(* the index is.                                                             *)
THEOREM DaysStayDistinct == ShopSpec => []OneDayPerDate
<1>1. ShopInit => OneDayPerDate
  BY DEF ShopInit, OneDayPerDate, DatesDiffer
<1>2. ShopShape /\ OneDayPerDate /\ [ShopNext]_shopVars => OneDayPerDate'
  BY DatesStep DEF ShopShape
<1> QED
  BY <1>1, <1>2, ShopShapeInvariant, PTL DEF ShopSpec

-------------------------------------------------------------------------------
\* The blocks that are added

\* A block that is about to be added crosses nothing of the day as it was read.
PushInv ==
    \A t \in Tasks :
        LET r == task[t] IN
        r.pc = "push" => /\ ~Crosses(r.block, r.day.workingHours)
                         /\ ~Crosses(r.block, r.day.breakTimes)

\* What a step may do to a task as far as that is concerned
PushMoves(t) ==
    LET r == task[t]
        s == task'[t]
    IN  \/ s.pc # "push"
        \/ s.pc = r.pc /\ s.block = r.block /\ s.day = r.day
        \/ ~Crosses(s.block, s.day.workingHours) /\ ~Crosses(s.block, s.day.breakTimes)

LEMMA PushMovesOne ==
    ASSUME SchedulesTypeOK, NEW t \in Tasks, NEW s, Continue(t, s),
           \/ s.pc # "push"
           \/ ~Crosses(s.block, s.day.workingHours) /\ ~Crosses(s.block, s.day.breakTimes)
    PROVE  \A u \in Tasks : PushMoves(u)
<1>1. task' = [task EXCEPT ![t] = s] /\ task \in [Tasks -> TaskType]
  BY DEF Continue, SchedulesTypeOK
<1>2. task'[t] = s /\ \A u \in Tasks \ {t} : task'[u] = task[u]
  BY <1>1
<1> QED
  BY <1>2 DEF PushMoves

LEMMA PushStep ==
    ASSUME SchedulesTypeOK, NEW t \in Tasks, TaskStep(t)
    PROVE  \A u \in Tasks : PushMoves(u)
<1>0. task \in [Tasks -> TaskType] /\ task[t] \in TaskType
  BY DEF SchedulesTypeOK
<1>1. ASSUME NEW s, Continue(t, s), s.pc # "push" PROVE \A u \in Tasks : PushMoves(u)
  BY <1>1, PushMovesOne
<1>2. Stop(t) => \A u \in Tasks : PushMoves(u)
  <2>1. Free.pc # "push"
    BY DEF Free
  <2> QED
    BY <1>1, <2>1 DEF Stop
<1>3. ASSUME NEW day \in NewDays, StartDay(t, day) PROVE \A u \in Tasks : PushMoves(u)
  <2> DEFINE s == [Free EXCEPT !.op = "newDay", !.pc = "check", !.day = day]
  <2>1. s.pc # "push"
    BY DEF Free
  <2>2. Continue(t, s)
    BY <1>3 DEF StartDay
  <2> HIDE DEF s
  <2> QED
    BY <1>1, <2>1, <2>2
<1>4. ASSUME CheckDay(t) PROVE \A u \in Tasks : PushMoves(u)
  <2> DEFINE s == [task[t] EXCEPT !.pc = "save"]
  <2>1. s.pc # "push"
    BY <1>0 DEF TaskType
  <2>2. Stop(t) \/ Continue(t, s)
    BY <1>4 DEF CheckDay
  <2> HIDE DEF s
  <2> QED
    BY <1>1, <1>2, <2>1, <2>2
<1>5. ASSUME NEW k \in ScheduleIds, NEW block \in Blocks, StartAdd(t, k, block)
      PROVE  \A u \in Tasks : PushMoves(u)
  <2> DEFINE s == [Free EXCEPT !.op = "addBlock", !.pc = "push", !.id = k,
                               !.day = schedules[k], !.block = block]
  <2>1. ~Crosses(s.block, s.day.workingHours) /\ ~Crosses(s.block, s.day.breakTimes)
    BY <1>5 DEF StartAdd, Free
  <2>2. Continue(t, s)
    BY <1>5 DEF StartAdd
  <2> HIDE DEF s
  <2> QED
    BY <2>1, <2>2, PushMovesOne
<1>6. ASSUME NEW k \in ScheduleIds, NEW block \in Blocks, NEW consent \in BOOLEAN,
             StartRemoveBlock(t, k, block, consent)
      PROVE  \A u \in Tasks : PushMoves(u)
  <2> DEFINE s == [Free EXCEPT !.op = "removeBlock", !.pc = "find", !.id = k, !.block = block,
                               !.day = schedules[k], !.consent = consent]
  <2>1. s.pc # "push"
    BY DEF Free
  <2>2. Continue(t, s)
    BY <1>6 DEF StartRemoveBlock
  <2> HIDE DEF s
  <2> QED
    BY <1>1, <2>1, <2>2
<1>7. ASSUME NEW k \in ScheduleIds, NEW consent \in BOOLEAN, StartRemoveDay(t, k, consent)
      PROVE  \A u \in Tasks : PushMoves(u)
  <2> DEFINE s == [Free EXCEPT !.op = "removeDay", !.pc = "find", !.id = k,
                               !.day = schedules[k], !.consent = consent]
  <2>1. s.pc # "push"
    BY DEF Free
  <2>2. Continue(t, s)
    BY <1>7 DEF StartRemoveDay
  <2> HIDE DEF s
  <2> QED
    BY <1>1, <2>1, <2>2
<1>8. ASSUME FindAffected(t) PROVE \A u \in Tasks : PushMoves(u)
  <2> DEFINE affected == Affected(task[t].day, task[t].op, task[t].block)
             s == [task[t] EXCEPT !.pc = "cancel", !.affected = affected, !.found = affected]
  <2>1. s.pc # "push"
    BY <1>0 DEF TaskType
  <2>2. Stop(t) \/ Continue(t, s)
    BY <1>8 DEF FindAffected
  <2> HIDE DEF s
  <2> QED
    BY <1>1, <1>2, <2>1, <2>2
<1>9. ASSUME NEW a \in Appts, NEW p \in Requests, CancelNext(t, a, p)
      PROVE  \A u \in Tasks : PushMoves(u)
  <2> DEFINE s == [task[t] EXCEPT !.waits = p]
  <2>1. s.pc # "push"
    BY <1>0, <1>9 DEF TaskType, CancelNext, Cancelling
  <2>2. Continue(t, s)
    BY <1>9 DEF CancelNext
  <2> HIDE DEF s
  <2> QED
    BY <1>1, <2>1, <2>2
<1>10. UNCHANGED task => \A u \in Tasks : PushMoves(u)
  BY DEF PushMoves
<1> QED
  BY <1>2, <1>3, <1>4, <1>5, <1>6, <1>7, <1>8, <1>9, <1>10
     DEF TaskStep, SaveDay, PatchDay, Push, CancelRefused, RemoveBlock, RemoveDay, AbandonTask

LEMMA OthersKeepPush ==
    ASSUME SchedulesTypeOK, (\E p \in Requests : RequestStep(p)) \/ OtherStep \/ UNCHANGED shopVars
    PROVE  \A u \in Tasks : PushMoves(u)
<1> TAKE u \in Tasks
<1>1. task[u] \in TaskType /\ Free.pc # "push"
  BY DEF SchedulesTypeOK, Free
<1>2. ASSUME NEW p \in Requests, NEW ok \in BOOLEAN, Answer(p, ok) PROVE PushMoves(u)
  BY <1>1, <1>2 DEF Answer, Answered, TaskType, PushMoves
<1>3. ASSUME NEW p \in Requests, RequestStep(p) PROVE PushMoves(u)
  <2>1. (req[p].pc = "mail" /\ Notified(p)) \in BOOLEAN
    OBVIOUS
  <2> QED
    BY <1>2, <1>3, <2>1 DEF RequestStep
<1>4. OtherStep => task'[u] = task[u] \/ task'[u] = Free
  BY DEF OtherStep
<1>5. UNCHANGED shopVars => task'[u] = task[u]
  BY DEF shopVars
<1> QED
  BY <1>1, <1>3, <1>4, <1>5 DEF PushMoves

LEMMA PushInvariant == ShopSpec => [](ShopShape /\ PushInv)
<1>1. ShopInit => ShopShape /\ PushInv
  BY ShopInitOK, InitShape DEF ShopInit, ShopShape, PushInv, Free
<1>2. ASSUME ShopShape, PushInv, [ShopNext]_shopVars PROVE ShopShape' /\ PushInv'
  <2>1. ShopShape'
    BY <1>2, ShopStepOK, NextShape DEF ShopShape
  <2>2. \A u \in Tasks : PushMoves(u)
    BY <1>2, PushStep, OthersKeepPush DEF ShopShape, ShopNext, ShopStep
  <2> QED
    BY <1>2, <2>1, <2>2 DEF PushInv, PushMoves
<1> QED
  BY <1>1, <1>2, PTL DEF ShopSpec

(* What a step of a task leaves at another document *)
LEMMA StoreAt ==
    ASSUME SchedulesTypeOK, NEW k \in ScheduleIds, NEW day, Store(k, day)
    PROVE  schedules'[k] = day /\ \A i \in ScheduleIds \ {k} : schedules'[i] = schedules[i]
<1>1. schedules' = [schedules EXCEPT ![k] = day] /\ schedules \in [ScheduleIds -> DayType \cup {Null}]
  BY DEF Store, SchedulesTypeOK
<1> QED
  BY <1>1

\* The step adds no block to document k but one that fits.
AddsWhatFits(k) ==
    schedules[k] # Null /\ schedules'[k] # Null =>
        \A w \in schedules'[k].workingHours \ schedules[k].workingHours : Fits(w, schedules'[k])

(* The write of add-block is filtered on the hours and the breaks that the   *)
(* block was compared with: it fits the day that it is added to.             *)
LEMMA PushFits ==
    ASSUME SchedulesTypeOK, PushInv, NEW t \in Tasks, Push(t), NEW k \in ScheduleIds
    PROVE  AddsWhatFits(k)
<1> DEFINE i == task[t].id
           block == task[t].block
           day == [schedules[i] EXCEPT !.workingHours = @ \cup {block}]
<1>1. i \in ScheduleIds
  BY TaskFacts DEF Push, TaskOK
<1>2. UNCHANGED schedules => AddsWhatFits(k)
  BY DEF AddsWhatFits
<1>3. CASE SameDay(task[t].day, schedules[i])
  <2>1. schedules[i] \in DayType
    BY <1>1, <1>3, TaskFacts DEF SameDay
  <2>2. day.workingHours = schedules[i].workingHours \cup {block} /\ day.breakTimes = schedules[i].breakTimes
    BY <2>1 DEF DayType
  <2>3. Store(i, day)
    BY <1>3 DEF Push
  <2>4. ~Crosses(block, schedules[i].workingHours) /\ ~Crosses(block, schedules[i].breakTimes)
    BY <1>3 DEF PushInv, Push, SameDay
  <2> HIDE DEF day
  <2>5. schedules'[i] = day /\ \A x \in ScheduleIds \ {i} : schedules'[x] = schedules[x]
    BY <1>1, <2>3, StoreAt
  <2>6. Fits(block, day)
    BY <2>2, <2>4 DEF Fits, Crosses
  <2> QED
    BY <2>2, <2>5, <2>6 DEF AddsWhatFits
<1>4. CASE ~SameDay(task[t].day, schedules[i])
  BY <1>2, <1>4 DEF Push
<1> QED
  BY <1>3, <1>4

(* The other steps of a task add no hours to a document that is there, but   *)
(* PATCH, which is no task.                                                  *)
LEMMA OtherTasksAddNothing ==
    ASSUME SchedulesTypeOK, NEW t \in Tasks, TaskStep(t), ~Push(t), task' # task,
           NEW k \in ScheduleIds
    PROVE  AddsWhatFits(k)
<1>1. UNCHANGED schedules => AddsWhatFits(k)
  BY DEF AddsWhatFits
<1>2. ASSUME NEW i \in ScheduleIds, SaveDay(t, i) PROVE AddsWhatFits(k)
  BY <1>1, <1>2, StoreAt DEF SaveDay, AddsWhatFits
<1>3. ASSUME NEW i \in ScheduleIds, NEW body, NEW fields, PatchDay(t, i, body, fields) PROVE FALSE
  BY <1>3 DEF PatchDay
<1>4. CASE RemoveDay(t)
  <2>1. task[t].id \in ScheduleIds
    BY <1>4, TaskFacts DEF RemoveDay, CanRemove, TaskOK
  <2> QED
    BY <1>4, <2>1, StoreAt DEF RemoveDay, AddsWhatFits
<1>5. CASE RemoveBlock(t)
  <2> DEFINE i == task[t].id
             day == [schedules[i] EXCEPT !.workingHours = @ \ {task[t].block}]
  <2>1. i \in ScheduleIds
    BY <1>5, TaskFacts DEF RemoveBlock, CanRemove, TaskOK
  <2>2. CASE schedules[i] # Null /\ Store(i, day)
    <3>1. schedules[i] \in DayType
      BY <2>1, <2>2, TaskFacts
    <3>2. day.workingHours \subseteq schedules[i].workingHours
      BY <3>1 DEF DayType
    <3> HIDE DEF day
    <3>3. schedules'[i] = day /\ \A x \in ScheduleIds \ {i} : schedules'[x] = schedules[x]
      BY <2>1, <2>2, StoreAt
    <3> QED
      BY <3>2, <3>3 DEF AddsWhatFits
  <2> QED
    BY <1>1, <1>5, <2>2 DEF RemoveBlock
<1> QED
  BY <1>1, <1>2, <1>3, <1>4, <1>5
     DEF TaskStep, StartDay, CheckDay, StartAdd, StartRemoveBlock, StartRemoveDay, FindAffected,
         CancelNext, CancelRefused, AbandonTask

(* Several administrators may add and remove blocks and replace days at the  *)
(* same time: a block that is added crosses nothing of the day as it then    *)
(* stands, whatever the hours are that POST and PATCH brought in unseen.     *)
THEOREM BlocksAddedFit == ShopSpec => AddedBlocksFit
<1>1. ASSUME ShopShape, PushInv, ShopNext, task' # task, NEW k \in ScheduleIds
      PROVE  AddsWhatFits(k)
  <2>1. UNCHANGED schedules => AddsWhatFits(k)
    BY DEF AddsWhatFits
  <2> QED
    BY <1>1, <2>1, PushFits, OtherTasksAddNothing DEF ShopShape, ShopNext, ShopStep
<1>2. ShopShape /\ PushInv /\ [ShopNext]_shopVars
        => [\A k \in ScheduleIds :
              task' # task /\ schedules[k] # Null /\ schedules'[k] # Null =>
                  \A w \in schedules'[k].workingHours \ schedules[k].workingHours :
                      Fits(w, schedules'[k])]_shopVars
  BY <1>1 DEF AddsWhatFits
<1> QED
  BY <1>2, PushInvariant, PTL DEF ShopSpec, AddedBlocksFit

-------------------------------------------------------------------------------
\* What is shown as free

(* A slot that the shop shows as free, in either of the two ways it has of   *)
(* doing so, is nobody's and has no key: who asks for it is not refused by   *)
(* the index. The reservations that an overtaken move has touched are the    *)
(* exception, and no others.                                                 *)
THEOREM ShownFreeIsFree == ShopSpec => []AvailableIsFree
<1>1. ASSUME ShopSlotsInv PROVE AvailableIsFree
  <2> SUFFICES ASSUME NEW s \in agenda, NEW a \in Fresh,
                      s.timeSlot \in AvailableSlots(s.barber, s.date) \/ s \notin BusySlots(s.date, s.date),
                      appts[a].slotKey = s \/ (Held(a) /\ appts[a].slot = s)
               PROVE  FALSE
    BY DEF AvailableIsFree
  <2>0. Shape /\ KeyedAsShown /\ a \in Appts
    BY <1>1 DEF ShopSlotsInv, SlotsInv, KnowInv, Fresh
  <2>1. s \in Slots /\ s = [barber |-> s.barber, date |-> s.date, timeSlot |-> s.timeSlot]
        /\ s.date \in Nat
    BY <2>0, ConstantsAssumption DEF Shape, TypeOK, Slots
  <2>2. Held(a) /\ appts[a].slot = s
    BY <2>0, <2>1, NullFacts DEF KeyedAsShown
  <2>3. s \in BusySlots(s.date, s.date)
    BY <2>0, <2>1, <2>2 DEF BusySlots, Held, HeldStatuses
  <2>4. s.timeSlot \in AvailableSlots(s.barber, s.date)
    BY <2>3
  <2>5. s.timeSlot \notin Booked(s.barber, s.date) /\ ~IsExpired(s, now)
    BY <2>1, <2>4 DEF AvailableSlots
  <2> QED
    BY <2>0, <2>2, <2>5 DEF Booked
<1> QED
  BY <1>1, ShopSlotsInvariant, PTL

-------------------------------------------------------------------------------
\* The reservations of what is removed

\* A task has cancelled what it no longer lists as affected, and a request that
\* it waits for cancels.
CancelInv ==
    \A t \in Tasks :
        LET r == task[t] IN
        /\ r.pc = "cancel" => \A a \in r.found \ r.affected : appts[a].status = "cancelled"
        /\ r.waits # Null => /\ req[r.waits].op = "update" /\ req[r.waits].pc # "idle"
                             /\ req[r.waits].dto = StatusDto("cancelled")

(* A handler that updates ends, or goes on to update with the same body. *)
LEMMA UpdateGoesOn ==
    ASSUME Shape, [Next]_vars, NEW p \in Requests, req[p].op = "update", req[p].pc # "idle"
    PROVE  \/ req'[p] = Idle
           \/ req'[p].op = "update" /\ req'[p].pc # "idle" /\ req'[p].dto = req[p].dto
<1> DEFINE r == req[p]
           Goal == \/ req'[p] = Idle
                   \/ req'[p].op = "update" /\ req'[p].pc # "idle" /\ req'[p].dto = r.dto
<1>1. r \in RequestType /\ HandlerOK(r)
  BY ShapeFacts
<1>2. req'[p] = r => Goal
  OBVIOUS
<1>3. ASSUME NEW s, Become(p, s) PROVE req'[p] = s
  BY <1>3, OneMoves
<1>4. ASSUME NEW s \in Stages \ {"idle"}, GoTo(p, s) PROVE Goal
  BY <1>1, <1>3, <1>4 DEF GoTo, RequestType
<1>5. Finish(p) => Goal
  BY <1>3 DEF Finish
<1>6. Become(p, SlotIsFree(r)) => Goal
  BY <1>1, <1>3 DEF SlotIsFree, RequestType
<1>7. ASSUME Create(p) PROVE FALSE
  BY <1>1, <1>7 DEF Create, StartCreate, Save, EmailPending, Notify, HandlerOK
<1>8. ASSUME Update(p) PROVE Goal
  <2>1. Load(p) \/ ReadClient(p) \/ Write(p) \/ Mail(p)
    BY <1>8 DEF Update, StartPatch, StartCancelMine, StartLink
  <2>2. CASE Load(p)
    <3>1. Become(p, Loaded(r, appts[r.appt])) => Goal
      BY <1>1, <1>3 DEF Loaded, SlotIsFree, RequestType
    <3> QED
      BY <1>5, <2>2, <3>1 DEF Load
  <2>3. CASE ReadClient(p)
    BY <1>4, <1>5, <2>3 DEF ReadClient, Stages
  <2>4. CASE Write(p)
    <3>1. Finish(p) \/ Become(p, [r EXCEPT !.pc = "mail", !.slot = Updated(r, appts[r.appt]).slot])
      BY <2>4 DEF Write
    <3> QED
      BY <1>1, <1>3, <1>5, <3>1 DEF RequestType
  <2>5. CASE Mail(p)
    BY <1>5, <2>5 DEF Mail
  <2> QED
    BY <2>1, <2>2, <2>3, <2>4, <2>5
<1>9. ASSUME Shared(p) PROVE Goal
  <2>1. CASE ReleaseKeys(p)
    BY <1>4, <2>1 DEF ReleaseKeys, Stages
  <2>2. CASE CheckActive(p)
    <3>1. Become(p, [r EXCEPT !.pc = "write", !.takesKey = TRUE]) => Goal
      BY <1>1, <1>3 DEF RequestType
    <3> QED
      BY <1>4, <1>5, <2>2, <3>1 DEF CheckActive, Stages
  <2>3. CASE ReadBarber(p)
    BY <1>4, <1>5, <2>3 DEF ReadBarber, Stages
  <2>4. CASE ReadSchedule(p)
    BY <1>4, <1>5, <1>6, <2>4 DEF ReadSchedule, Stages
  <2>5. CASE CheckSlot(p)
    BY <1>5, <1>6, <2>5 DEF CheckSlot
  <2> QED
    BY <1>9, <2>1, <2>2, <2>3, <2>4, <2>5 DEF Shared
<1>10. ASSUME Archiving(p) PROVE FALSE
  BY <1>1, <1>10 DEF Archiving, StartArchive, Archive, HandlerOK
<1>11. Abandon(p) => Goal
  BY <1>5 DEF Abandon
<1>12. ASSUME NEW q \in Requests \ {p}, Create(q) \/ Update(q) \/ Shared(q) \/ Archiving(q) \/ Abandon(q)
       PROVE  req'[p] = r
  <2>1. Archiving(q) \/ Abandon(q) => \E s : Become(q, s)
    BY DEF Archiving, StartArchive, Archive, Abandon, Finish
  <2> QED
    BY <1>12, <2>1, CreateMoves, UpdateMoves, SharedMoves, OneMoves
<1>13. ASSUME Job \/ Directory \/ Tick \/ UNCHANGED vars PROVE Goal
  BY <1>2, <1>13 DEF Job, JobFind, JobWrite, JobFail, Directory, People, ChangeRole, SetBookingAccess,
              RemoveUser, AddUser, AddBarber, SetBarber, EditSchedule, Tick, vars
<1>14. Restart => Goal
  BY DEF Restart
<1> HIDE DEF Goal
<1>15. ASSUME NEW q \in Requests, Create(q) \/ Update(q) \/ Shared(q) \/ Archiving(q) \/ Abandon(q)
       PROVE  Goal
  BY <1>2, <1>7, <1>8, <1>9, <1>10, <1>11, <1>12, <1>15
<1> QED
  BY <1>13, <1>14, <1>15 DEF Next, Goal

\* What a step does to a task: nothing, while its request goes on; it starts,
\* ends, or reads what does not matter here; it finds the reservations; it asks
\* for the next cancellation; it is answered that one was made.
TaskMoves(t) ==
    LET r == task[t]
        s == task'[t]
    IN  \/ s = r /\ (r.waits # Null => req'[r.waits] # Idle)
        \/ s.pc # "cancel"
        \/ s.found = s.affected /\ s.waits = Null
        \/ \E p \in Requests :
              /\ s = [r EXCEPT !.waits = p]
              /\ req'[p].op = "update" /\ req'[p].pc # "idle"
              /\ req'[p].dto = StatusDto("cancelled")
        \/ \E p \in Requests :
              /\ r.waits = p /\ r.pc = "cancel" /\ req[p].pc = "mail"
              /\ s = [r EXCEPT !.waits = Null, !.affected = @ \ {req[p].appt}]

(* The task that a step is of moves like this; the others stay as they are. *)
LEMMA TaskStepMoves ==
    ASSUME SchedulesTypeOK, Shape, CancelInv, NEW t \in Tasks, TaskStep(t)
    PROVE  \A u \in Tasks : TaskMoves(u)
<1>0. task \in [Tasks -> TaskType] /\ task[t] \in TaskType /\ TaskOK(task[t])
  BY DEF SchedulesTypeOK
<1>1. ASSUME NEW s, Continue(t, s)
      PROVE  task'[t] = s /\ \A u \in Tasks \ {t} : task'[u] = task[u]
  BY <1>0, <1>1 DEF Continue
<1>2. ASSUME NEW u \in Tasks, UNCHANGED req, task'[u] = task[u] PROVE TaskMoves(u)
  <2>1. ASSUME task[u].waits # Null PROVE req[task[u].waits] # Idle
    BY <2>1, IdleFacts DEF CancelInv
  <2> QED
    BY <1>2, <2>1 DEF TaskMoves
<1>3. ASSUME NEW s, Continue(t, s), s.pc # "cancel", UNCHANGED req
      PROVE  \A u \in Tasks : TaskMoves(u)
  <2>1. task'[t] = s /\ \A u \in Tasks \ {t} : task'[u] = task[u]
    BY <1>1, <1>3
  <2>2. TaskMoves(t)
    BY <1>3, <2>1 DEF TaskMoves
  <2> QED
    BY <1>2, <1>3, <2>1, <2>2
<1>4. ASSUME Stop(t), UNCHANGED req PROVE \A u \in Tasks : TaskMoves(u)
  <2>1. Free.pc # "cancel"
    BY DEF Free
  <2> QED
    BY <1>3, <1>4, <2>1 DEF Stop
<1>5. ASSUME UNCHANGED <<req, task>> PROVE \A u \in Tasks : TaskMoves(u)
  BY <1>2, <1>5
<1>6. UNCHANGED vars \/ UNCHANGED reservations => UNCHANGED req
  BY DEF vars, reservations
<1>7. CASE \/ \E day \in NewDays : StartDay(t, day)
           \/ CheckDay(t)
           \/ \E k \in ScheduleIds : SaveDay(t, k)
           \/ \E k \in ScheduleIds, block \in Blocks : StartAdd(t, k, block)
           \/ Push(t)
  <2>1. ASSUME NEW day \in NewDays, StartDay(t, day)
        PROVE  \E s : Continue(t, s) /\ s.pc # "cancel"
    <3> DEFINE s == [Free EXCEPT !.op = "newDay", !.pc = "check", !.day = day]
    <3>1. s.pc # "cancel"
      BY DEF Free
    <3>2. Continue(t, s)
      BY <2>1 DEF StartDay
    <3> HIDE DEF s
    <3> QED
      BY <3>1, <3>2
  <2>2. ASSUME CheckDay(t) PROVE Stop(t) \/ \E s : Continue(t, s) /\ s.pc # "cancel"
    <3> DEFINE s == [task[t] EXCEPT !.pc = "save"]
    <3>1. s.pc # "cancel"
      BY <1>0 DEF TaskType
    <3>2. Stop(t) \/ Continue(t, s)
      BY <2>2 DEF CheckDay
    <3> HIDE DEF s
    <3> QED
      BY <3>1, <3>2
  <2>3. ASSUME NEW k \in ScheduleIds, NEW block \in Blocks, StartAdd(t, k, block)
        PROVE  \E s : Continue(t, s) /\ s.pc # "cancel"
    <3> DEFINE s == [Free EXCEPT !.op = "addBlock", !.pc = "push", !.id = k,
                                 !.day = schedules[k], !.block = block]
    <3>1. s.pc # "cancel"
      BY DEF Free
    <3>2. Continue(t, s)
      BY <2>3 DEF StartAdd
    <3> HIDE DEF s
    <3> QED
      BY <3>1, <3>2
  <2>4. (\E k \in ScheduleIds : SaveDay(t, k)) \/ Push(t) => Stop(t)
    BY DEF SaveDay, Push
  <2>5. UNCHANGED req
    BY <1>6, <1>7 DEF StartDay, CheckDay, SaveDay, StartAdd, Push
  <2> QED
    BY <1>3, <1>4, <1>7, <2>1, <2>2, <2>3, <2>4, <2>5
<1>8. ASSUME NEW k \in ScheduleIds, NEW body, NEW fields, PatchDay(t, k, body, fields)
      PROVE  \A u \in Tasks : TaskMoves(u)
  BY <1>5, <1>6, <1>8 DEF PatchDay
<1>9. CASE \/ \E k \in ScheduleIds, block \in Blocks, consent \in BOOLEAN :
                  StartRemoveBlock(t, k, block, consent)
           \/ \E k \in ScheduleIds, consent \in BOOLEAN : StartRemoveDay(t, k, consent)
  <2>1. ASSUME NEW k \in ScheduleIds, NEW block \in Blocks, NEW consent \in BOOLEAN,
               StartRemoveBlock(t, k, block, consent)
        PROVE  \E s : Continue(t, s) /\ s.pc # "cancel"
    <3> DEFINE s == [Free EXCEPT !.op = "removeBlock", !.pc = "find", !.id = k, !.block = block,
                                 !.day = schedules[k], !.consent = consent]
    <3>1. s.pc # "cancel"
      BY DEF Free
    <3>2. Continue(t, s)
      BY <2>1 DEF StartRemoveBlock
    <3> HIDE DEF s
    <3> QED
      BY <3>1, <3>2
  <2>2. ASSUME NEW k \in ScheduleIds, NEW consent \in BOOLEAN, StartRemoveDay(t, k, consent)
        PROVE  \E s : Continue(t, s) /\ s.pc # "cancel"
    <3> DEFINE s == [Free EXCEPT !.op = "removeDay", !.pc = "find", !.id = k,
                                 !.day = schedules[k], !.consent = consent]
    <3>1. s.pc # "cancel"
      BY DEF Free
    <3>2. Continue(t, s)
      BY <2>2 DEF StartRemoveDay
    <3> HIDE DEF s
    <3> QED
      BY <3>1, <3>2
  <2>3. UNCHANGED req
    BY <1>6, <1>9 DEF StartRemoveBlock, StartRemoveDay
  <2> QED
    BY <1>3, <1>9, <2>1, <2>2, <2>3
<1>10. CASE FindAffected(t)
  <2> DEFINE affected == Affected(task[t].day, task[t].op, task[t].block)
             s == [task[t] EXCEPT !.pc = "cancel", !.affected = affected, !.found = affected]
  <2>1. UNCHANGED req /\ (Stop(t) \/ Continue(t, s))
    BY <1>6, <1>10 DEF FindAffected
  <2>2. s.found = s.affected /\ s.waits = Null
    BY <1>0, <1>10 DEF FindAffected, TaskType, TaskOK
  <2> HIDE DEF s
  <2>3. ASSUME Continue(t, s) PROVE \A u \in Tasks : TaskMoves(u)
    <3>1. task'[t] = s /\ \A u \in Tasks \ {t} : task'[u] = task[u]
      BY <1>1, <2>3
    <3>2. TaskMoves(t)
      BY <2>2, <3>1 DEF TaskMoves
    <3> QED
      BY <1>2, <2>1, <3>1, <3>2
  <2> QED
    BY <1>4, <2>1, <2>3
<1>11. ASSUME NEW a \in Appts, NEW p \in Requests, CancelNext(t, a, p)
       PROVE  \A u \in Tasks : TaskMoves(u)
  <2> DEFINE w == UpdateRequest(a, StatusDto("cancelled"), "admin")
             s == Loaded(w, appts[a])
  <2>1. /\ Continue(t, [task[t] EXCEPT !.waits = p]) /\ Become(p, s) /\ req[p].pc = "idle"
    BY <1>11 DEF CancelNext, StartPatch
  <2>2. w \in RequestType /\ w.op = "update" /\ w.dto = StatusDto("cancelled")
    BY UpdateRequestType, ScheduleAssumption, ConstantsAssumption DEF UpdateRequest, Idle
  <2> HIDE DEF w
  <2>3. s.op = "update" /\ s.pc # "idle" /\ s.dto = StatusDto("cancelled")
    BY <2>2 DEF Loaded, SlotIsFree, RequestType
  <2> HIDE DEF s
  <2>4. req'[p] = s /\ \A q \in Requests \ {p} : req'[q] = req[q]
    BY <2>1, OneMoves
  <2>5. TaskMoves(t)
    BY <1>1, <2>1, <2>3, <2>4 DEF TaskMoves
  <2>6. ASSUME NEW u \in Tasks \ {t}, task[u].waits # Null PROVE req'[task[u].waits] # Idle
    <3>1. task[u].waits \in Requests /\ req[task[u].waits].op = "update" /\ req[task[u].waits].pc # "idle"
      BY <1>0, <2>6 DEF TaskType, CancelInv
    <3> QED
      BY <2>1, <2>4, <3>1, IdleFacts
  <2> QED
    BY <1>1, <2>1, <2>5, <2>6 DEF TaskMoves
<1>12. CASE (\E a \in Appts : CancelRefused(t, a)) \/ RemoveBlock(t) \/ RemoveDay(t) \/ AbandonTask(t)
  BY <1>4, <1>6, <1>12 DEF CancelRefused, RemoveBlock, RemoveDay, AbandonTask
<1> QED
  BY <1>7, <1>8, <1>9, <1>10, <1>11, <1>12 DEF TaskStep

(* A request that ends answers the task that waits for it, and no other. *)
LEMMA RequestMovesTasks ==
    ASSUME SchedulesTypeOK, Shape, CancelInv, NEW p \in Requests, RequestStep(p)
    PROVE  \A u \in Tasks : TaskMoves(u)
<1>1. PICK ok \in BOOLEAN : Answer(p, ok) /\ (ok => req[p].pc = "mail")
  <2>1. (req[p].pc = "mail" /\ Notified(p)) \in BOOLEAN
    OBVIOUS
  <2> QED
    BY <2>1 DEF RequestStep
<1>2. \A q \in Requests \ {p} : req'[q] = req[q]
  <2>1. Create(p) \/ Update(p) \/ Shared(p) \/ Archiving(p) \/ Abandon(p)
    BY DEF RequestStep
  <2>2. Archiving(p) \/ Abandon(p) => \E s : Become(p, s)
    BY DEF Archiving, StartArchive, Archive, Abandon, Finish
  <2> QED
    BY <2>1, <2>2, CreateMoves, UpdateMoves, SharedMoves, OneMoves
<1> TAKE u \in Tasks
<1>3. /\ task[u] \in TaskType /\ TaskOK(task[u])
      /\ task[u].waits # Null => /\ task[u].waits \in Requests
                                 /\ req[task[u].waits] # Idle
  BY IdleFacts DEF SchedulesTypeOK, CancelInv, TaskType
<1>4. CASE task[u].waits = p /\ req'[p] = Idle
  <2>1. task'[u] = Answered(u, ok)
    BY <1>1, <1>4 DEF Answer
  <2>2. Free.pc # "cancel"
    BY DEF Free
  <2>3. task[u].pc = "cancel"
    BY <1>3, <1>4, ScheduleAssumption DEF TaskOK
  <2> QED
    BY <1>1, <1>4, <2>1, <2>2, <2>3 DEF Answered, TaskMoves
<1>5. CASE ~(task[u].waits = p /\ req'[p] = Idle)
  <2>1. task'[u] = task[u]
    BY <1>1, <1>5 DEF Answer
  <2> QED
    BY <1>2, <1>3, <1>5, <2>1 DEF TaskMoves
<1> QED
  BY <1>4, <1>5

LEMMA ShopMoves ==
    ASSUME SchedulesTypeOK, Shape, CancelInv, [ShopNext]_shopVars
    PROVE  \A u \in Tasks : TaskMoves(u)
<1>1. ASSUME UNCHANGED <<req, task>> PROVE \A u \in Tasks : TaskMoves(u)
  BY <1>1, IdleFacts DEF TaskMoves, CancelInv
<1>2. CASE UNCHANGED shopVars
  BY <1>1, <1>2 DEF shopVars, vars
<1>3. CASE OtherStep
  <2>1. CASE Restart /\ task' = [t \in Tasks |-> Free]
    BY <2>1 DEF TaskMoves, Free
  <2>2. CASE (Job \/ Tick \/ People) /\ UNCHANGED task
    <3>1. UNCHANGED req
      BY <2>2 DEF Job, JobFind, JobWrite, JobFail, Tick, People, ChangeRole, SetBookingAccess,
                  RemoveUser, AddUser, AddBarber, SetBarber
    <3> QED
      BY <1>1, <2>2, <3>1
  <2> QED
    BY <1>3, <2>1, <2>2 DEF OtherStep
<1> QED
  BY <1>2, <1>3, TaskStepMoves, RequestMovesTasks DEF ShopNext, ShopStep

LEMMA CancelInvStep ==
    ASSUME SchedulesTypeOK, KnowInv, CancelInv, [ShopNext]_shopVars
    PROVE  CancelInv'
<1>1. Shape /\ [Next]_vars /\ SchedulesTypeOK' /\ \A u \in Tasks : TaskMoves(u)
  BY ShopStepOK, ShopMoves DEF KnowInv
<1>2. \A a \in Appts : appts[a].status = "cancelled" => appts'[a].status = "cancelled"
  BY <1>1, EvolvesStep DEF Evolves, Legal
<1> SUFFICES ASSUME NEW t \in Tasks
             PROVE  LET r == task'[t] IN
                    /\ r.pc = "cancel" => \A a \in r.found \ r.affected : appts'[a].status = "cancelled"
                    /\ r.waits # Null => /\ req'[r.waits].op = "update" /\ req'[r.waits].pc # "idle"
                                         /\ req'[r.waits].dto = StatusDto("cancelled")
  BY DEF CancelInv
<1> DEFINE r == task[t]
           s == task'[t]
<1>3. /\ r \in TaskType /\ TaskOK(r) /\ s \in TaskType /\ TaskOK(s)
      /\ r.found \subseteq Appts
      /\ r.pc = "cancel" => \A a \in r.found \ r.affected : appts'[a].status = "cancelled"
  BY <1>1, <1>2 DEF SchedulesTypeOK, CancelInv, TaskType
<1>4. ASSUME r.waits # Null
      PROVE  /\ r.waits \in Requests /\ r.pc = "cancel"
             /\ req[r.waits].op = "update" /\ req[r.waits].pc # "idle"
             /\ req[r.waits].dto = StatusDto("cancelled")
  BY <1>3, <1>4 DEF TaskType, TaskOK, CancelInv
<1>5. CASE s = r /\ (r.waits # Null => req'[r.waits] # Idle)
  BY <1>1, <1>3, <1>4, <1>5, UpdateGoesOn
<1>6. CASE s.pc # "cancel"
  BY <1>3, <1>6 DEF TaskOK
<1>7. CASE s.found = s.affected /\ s.waits = Null
  BY <1>7
<1>8. CASE \E p \in Requests :
              /\ s = [r EXCEPT !.waits = p]
              /\ req'[p].op = "update" /\ req'[p].pc # "idle"
              /\ req'[p].dto = StatusDto("cancelled")
  BY <1>3, <1>8 DEF TaskType
<1>9. CASE \E p \in Requests :
              /\ r.waits = p /\ r.pc = "cancel" /\ req[p].pc = "mail"
              /\ s = [r EXCEPT !.waits = Null, !.affected = @ \ {req[p].appt}]
  <2>1. PICK p \in Requests :
              /\ r.waits = p /\ r.pc = "cancel" /\ req[p].pc = "mail"
              /\ s = [r EXCEPT !.waits = Null, !.affected = @ \ {req[p].appt}]
    BY <1>9
  <2>2. req[p].op = "update" /\ req[p].dto = StatusDto("cancelled") /\ req[p].appt \in Appts
    BY <1>1, <1>4, <2>1, ScheduleAssumption, ShapeFacts DEF HandlerOK
  <2>3. appts[req[p].appt].status = "cancelled"
    BY <2>1, <2>2, NoDtoFacts DEF KnowInv, Knows, Told, Statuses, FinalStatuses
  <2>4. appts'[req[p].appt].status = "cancelled"
    BY <1>2, <2>2, <2>3
  <2>5. s.found = r.found /\ s.affected = r.affected \ {req[p].appt} /\ s.waits = Null
    BY <1>3, <2>1 DEF TaskType
  <2> QED
    BY <1>3, <2>1, <2>4, <2>5
<1> QED
  BY <1>1, <1>5, <1>6, <1>7, <1>8, <1>9 DEF TaskMoves

LEMMA CancelInvariant == ShopSpec => [](SchedulesTypeOK /\ KnowInv /\ CancelInv)
<1>1. ShopInit => CancelInv
  BY DEF ShopInit, CancelInv, Free
<1>2. ShopInit => SchedulesTypeOK /\ KnowInv
  BY ShopInitOK, InitKnowInv DEF ShopInit
<1>3. SchedulesTypeOK /\ KnowInv /\ CancelInv /\ [ShopNext]_shopVars
        => SchedulesTypeOK' /\ KnowInv' /\ CancelInv'
  BY ShopStepOK, NextKnowInv, CancelInvStep DEF KnowInv
<1> QED
  BY <1>1, <1>2, <1>3, PTL DEF ShopSpec

(* Before a block or a day goes, every reservation that the handler found in *)
(* it was cancelled, one update at a time, and stays so: another update that *)
(* closes one first makes the handler stop, and nothing is removed.          *)
THEOREM RemovalFollowsCancelling == ShopSpec => RemovedAfterCancelling
<1>1. ASSUME SchedulesTypeOK, CancelInv, NEW t \in Tasks, Removal(t), NEW a \in task[t].found
      PROVE  appts[a].status = "cancelled"
  BY <1>1 DEF Removal, CanRemove, CancelInv
<1>2. SchedulesTypeOK /\ CancelInv /\ [ShopNext]_shopVars
        => [\A t \in Tasks : Removal(t) =>
              \A a \in task[t].found : appts[a].status = "cancelled"]_shopVars
  BY <1>1
<1> QED
  BY <1>2, CancelInvariant, PTL DEF ShopSpec, RemovedAfterCancelling

===============================================================================
